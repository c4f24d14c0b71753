------------------------- MODULE TransferModeProofs -------------------------
(***************************************************************************)
(* TransferMode for every set of MTUs, SDKs, formats and options: types,   *)
(* the overhead files across crashes and opens, the cycle a mode makes of  *)
(* a packet and what getNewStream() makes of the cycle.                    *)
(***************************************************************************)
EXTENDS TransferMode, CycleSizeProofs, TLAPS

-----------------------------------------------------------------------------
(* Extremes of small sets. *)

LEMMA MinOfTwo ==
  ASSUME NEW a \in Int, NEW b \in Int
  PROVE  Min({a, b}) \in {a, b}
<1>1. \E x \in {a, b} : \A y \in {a, b} : x =< y
  OBVIOUS
<1> QED
  BY <1>1 DEF Min

LEMMA MaxOfTwo ==
  ASSUME NEW a \in Int, NEW b \in Int
  PROVE  Max({a, b}) \in {a, b} /\ Max({a, b}) >= a /\ Max({a, b}) >= b
<1>1. \E x \in {a, b} : \A y \in {a, b} : x >= y
  OBVIOUS
<1> QED
  BY <1>1 DEF Max

LEMMA MinOfThree ==
  ASSUME NEW a \in Int, NEW b \in Int, NEW c \in Int, NEW L \in SUBSET {a, b, c}, L # {}
  PROVE  Min(L) \in L
<1>1. \E x \in L : \A y \in L : x =< y
  <2>1. CASE a \in L /\ (b \in L => a <= b) /\ (c \in L => a <= c)
    BY <2>1
  <2>2. CASE b \in L /\ (a \in L => b <= a) /\ (c \in L => b <= c)
    BY <2>2
  <2>3. CASE c \in L /\ (a \in L => c <= a) /\ (b \in L => c <= b)
    BY <2>3
  <2>4. a \in L \/ b \in L \/ c \in L
    OBVIOUS
  <2> QED
    BY <2>1, <2>2, <2>3, <2>4
<1> QED
  BY <1>1 DEF Min

-----------------------------------------------------------------------------
(* Sizes and times are natural numbers. *)

Playable(f) == f.rate \in Nat \ {0} /\ frame(f) \in Nat \ {0}

LEMMA FormatsPlayable == \A f \in Formats : Playable(f)
<1> SUFFICES ASSUME NEW f \in Formats PROVE Playable(f)
  OBVIOUS
<1>1. f.rate \in Nat \ {0} /\ f.ch \in Nat \ {0} /\ f.bits \in {16, 24, 32}
  <2>1. f.rate \in Nat \ {0} /\ f.ch \in 1..16 /\ f.bits \in {16, 24, 32}
    BY TransferAssumption
  <2> QED
    BY <2>1
<1>2. f.bits \div 8 \in {2, 3, 4}
  BY <1>1
<1> QED
  BY <1>1, <1>2 DEF Playable, frame

LEMMA ProbesPlayable == \A b \in {16, 24, 32} : Playable(ProbeFormat(b))
BY DEF Playable, frame, ProbeFormat

LEMMA Quotient ==
  ASSUME NEW x \in Nat, NEW b \in Nat \ {0}
  PROVE  x \div b \in Nat /\ x % b \in Nat /\ WholeFrames(x, b) \in Nat
         /\ x < (x \div b) * b + b
BY DEF WholeFrames

LEMMA Product == ASSUME NEW x \in Nat, NEW y \in Nat PROVE x * y \in Nat
OBVIOUS

LEMMA Clamped == ASSUME NEW us \in Int PROVE Clamp(us) \in Nat
<1> DEFINE m == Min({us, 50000})
           a == 100
<1>1. m \in Int /\ a \in Int
  BY MinOfTwo
<1> HIDE DEF m, a
<1>2. Max({a, m}) \in {a, m} /\ Max({a, m}) >= a
  BY <1>1, MaxOfTwo
<1> QED
  BY <1>1, <1>2 DEF Clamp, m, a

LEMMA CycleTime ==
  ASSUME NEW f, Playable(f), NEW bytes \in Nat
  PROVE  cycle_for(bytes, f) \in Nat
<1> DEFINE b == frame(f)
           r == f.rate
           whole == (bytes \div b) * 20000
           part == ((bytes % b) * 20000) \div b
<1>1. b \in Nat \ {0} /\ r \in Nat \ {0}
  BY DEF Playable
<1>2. cycle_for(bytes, f) = Clamp((whole + part + r) \div (2 * r))
  BY DEF cycle_for
<1> HIDE DEF b, r
<1>3. bytes \div b \in Nat /\ bytes % b \in Nat
  BY <1>1, Quotient
<1>4. whole \in Nat
  BY <1>3
<1>5. (bytes % b) * 20000 \in Nat
  BY <1>3
<1>6. part \in Nat
  BY <1>1, <1>5, Quotient
<1> HIDE DEF whole, part
<1>7. whole + part + r \in Nat /\ 2 * r \in Nat \ {0}
  BY <1>1, <1>4, <1>6
<1>8. (whole + part + r) \div (2 * r) \in Nat
  BY <1>7, Quotient
<1> QED
  BY <1>2, <1>8, Clamped

LEMMA Payload ==
  ASSUME NEW f, Playable(f), NEW m \in Nat, NEW oh \in Nat
  PROVE  payload_for(m, oh, f) \in Nat
<1> DEFINE b == frame(f)
           w == WholeFrames(IF m > oh THEN m - oh ELSE 1476, b)
<1>1. b \in Nat \ {0}
  BY DEF Playable
<1> HIDE DEF b
<1>2. (IF m > oh THEN m - oh ELSE 1476) \in Nat
  OBVIOUS
<1>3. w \in Nat
  BY <1>1, <1>2, Quotient
<1> HIDE DEF w
<1>4. Max({b, w}) \in {b, w}
  BY <1>1, <1>3, MaxOfTwo
<1> QED
  BY <1>1, <1>3, <1>4 DEF payload_for, b, w

LEMMA VarMaxCycle ==
  ASSUME NEW f, Playable(f), NEW m \in Nat, NEW oh \in Nat
  PROVE  calculateCycleTime(f, m, oh) \in Nat
<1> DEFINE o == IF oh \in 1..199 THEN oh ELSE default_overhead_guess(m)
<1>1. o \in Nat
  BY DEF default_overhead_guess
<1> HIDE DEF o
<1>2. payload_for(m, o, f) \in Nat
  BY <1>1, Payload, Zenon
<1> QED
  BY <1>2, CycleTime DEF calculateCycleTime, o

-----------------------------------------------------------------------------
(* The SDK's answers, and the loops around them. *)

LinkOK == mtu \in Mtus /\ wire \in Mtus /\ sdk \in Sdks

LEMMA SdkTypes ==
  ASSUME LinkOK
  PROVE  /\ mtu \in Nat /\ mtu >= 64 /\ wire \in Nat /\ wire >= 64
         /\ sdk.overhead \in Nat \ {0} /\ sdk.overhead < 64
         /\ sdk.rounding \in {"bytes", "down", "nearest", "up"}
         /\ sdk.probes \subseteq {16, 24, 32}
         /\ wire - sdk.overhead \in Nat \ {0}
<1>1. sdk.rounding \in {"bytes", "down", "nearest", "up"} /\ sdk.probes \subseteq {16, 24, 32}
  BY TransferAssumption DEF LinkOK
<1> DEFINE m == mtu
           w == wire
           o == sdk.overhead
<1>3. m \in Nat /\ m >= 64 /\ w \in Nat /\ w >= 64
  BY TransferAssumption DEF LinkOK
<1>4. o \in Nat \ {0} /\ o < 64
  BY TransferAssumption DEF LinkOK
<1> HIDE DEF m, w, o
<1>5. w - o \in Nat \ {0}
  BY <1>3, <1>4
<1> QED
  BY <1>1, <1>3, <1>4, <1>5 DEF m, w, o

LEMMA Answer ==
  ASSUME LinkOK, NEW f, Playable(f), NEW us \in Nat
  PROVE  CycleBytes(us, f) \in Nat /\ CyclePackets(us, f) \in Nat
<1> DEFINE b == frame(f)
           p == us * f.rate
           n == CycleBytes(us, f)
           room1 == wire - sdk.overhead
<1>1. b \in Nat \ {0} /\ p \in Nat
  BY Product DEF Playable
<1>2. n = CASE sdk.rounding = "bytes" -> (p \div 10000) * b + ((p % 10000) * b) \div 10000
            [] sdk.rounding = "down"  -> (p \div 10000) * b
            [] sdk.rounding = "nearest" -> ((2 * p + 10000) \div 20000) * b
            [] sdk.rounding = "up"    -> ((p + 10000 - 1) \div 10000) * b
  <2>1. 2 * us * f.rate = 2 * p
    BY DEF Playable
  <2> QED
    BY <2>1 DEF CycleBytes, CeilDiv
<1> HIDE DEF b, p, n
<1>3. p \div 10000 \in Nat /\ p % 10000 \in Nat
  BY <1>1
<1>4. (2 * p + 10000) \div 20000 \in Nat /\ (p + 10000 - 1) \div 10000 \in Nat
  BY <1>1
<1>5. /\ (p \div 10000) * b \in Nat /\ ((2 * p + 10000) \div 20000) * b \in Nat
      /\ ((p + 10000 - 1) \div 10000) * b \in Nat /\ (p % 10000) * b \in Nat
  BY <1>1, <1>3, <1>4, Product
<1>6. ((p % 10000) * b) \div 10000 \in Nat
  <2> DEFINE x == (p % 10000) * b
  <2>1. x \in Nat
    BY <1>5
  <2> HIDE DEF x
  <2>2. x \div 10000 \in Nat
    BY <2>1
  <2> QED
    BY <2>2 DEF x
<1>7. n \in Nat
  <2> DEFINE x1 == (p \div 10000) * b
             x2 == ((p % 10000) * b) \div 10000
             x3 == ((2 * p + 10000) \div 20000) * b
             x4 == ((p + 10000 - 1) \div 10000) * b
  <2>1. x1 \in Nat /\ x2 \in Nat /\ x3 \in Nat /\ x4 \in Nat /\ x1 + x2 \in Nat
    BY <1>5, <1>6
  <2>2. n = CASE sdk.rounding = "bytes" -> x1 + x2
              [] sdk.rounding = "down"  -> x1
              [] sdk.rounding = "nearest" -> x3
              [] sdk.rounding = "up"    -> x4
    BY <1>2
  <2> HIDE DEF x1, x2, x3, x4
  <2> QED
    BY <2>1, <2>2, SdkTypes
<1>8. room1 \in Nat \ {0}
  BY SdkTypes
<1> HIDE DEF room1
<1>9. n + room1 - 1 \in Nat
  BY <1>7, <1>8
<1>10. (n + room1 - 1) \div room1 \in Nat
  BY <1>8, <1>9, Quotient
<1> QED
  BY <1>7, <1>10 DEF CyclePackets, CeilDiv, n, room1

\* One packet loses at least the overhead.
LEMMA OnePacketFits ==
  ASSUME LinkOK, NEW f, Playable(f), NEW us \in Nat, CyclePackets(us, f) = 1
  PROVE  CycleBytes(us, f) <= wire - sdk.overhead
<1> DEFINE n == CycleBytes(us, f)
           b == wire - sdk.overhead
           x == n + b - 1
<1>1. n \in Nat /\ b \in Nat \ {0} /\ x \div b = 1
  BY Answer, SdkTypes DEF CyclePackets, CeilDiv
<1> HIDE DEF n, b
<1>2. x \in Nat
  BY <1>1
<1>3. x < (x \div b) * b + b
  BY <1>1, <1>2, Quotient
<1>4. x < 1 * b + b
  BY <1>1, <1>3
<1>5. n <= b
  BY <1>1, <1>4
<1> QED
  BY <1>5 DEF n, b

LEMMA ShrunkTypes ==
  ASSUME LinkOK, NEW f, Playable(f), NEW us \in Nat
  PROVE  Shrunk(us, f) \in Nat
<1> DEFINE cs == CycleBytes(us, f)
           b == frame(f)
           next == WholeFrames(cs - b, b)
           t == cycle_for(next, f)
<1>1. cs \in Nat /\ b \in Nat \ {0}
  BY Answer DEF Playable
<1>2. CASE CyclePackets(us, f) <= 1 \/ cs <= b \/ next < b \/ (t >= us /\ us <= 100)
  BY <1>2 DEF Shrunk
<1>3. CASE ~(CyclePackets(us, f) <= 1 \/ cs <= b \/ next < b \/ (t >= us /\ us <= 100))
  <2>1. Shrunk(us, f) = IF t >= us THEN us - 1 ELSE t
    BY <1>3 DEF Shrunk
  <2>2. next \in Nat
    <3> HIDE DEF cs, b
    <3>1. cs - b \in Nat
      BY <1>1, <1>3
    <3> QED
      BY <1>1, <3>1, Quotient
  <2>3. t \in Nat
    BY <2>2, CycleTime
  <2> HIDE DEF t
  <2> QED
    BY <1>3, <2>1, <2>3
<1> QED
  BY <1>2, <1>3

LEMMA VarMaxTypes ==
  ASSUME LinkOK, NEW f, Playable(f), NEW us \in Nat
  PROVE  varmax_one_packet(us, f) \in Nat
<1>1. ASSUME NEW x \in Nat PROVE Shrunk2(x, f) \in Nat
  BY ShrunkTypes DEF Shrunk2
<1>2. ASSUME NEW x \in Nat PROVE Shrunk4(x, f) \in Nat
  BY <1>1 DEF Shrunk4
<1> QED
  BY <1>2 DEF varmax_one_packet

\* What the probe has found so far fits a packet.
Fits(p) == p.best \in Nat /\ p.best <= wire - sdk.overhead

LEMMA GrownFits ==
  ASSUME LinkOK, NEW f, Playable(f), NEW p \in [best : Nat, done : BOOLEAN], Fits(p)
  PROVE  Grown(p, f) \in [best : Nat, done : BOOLEAN] /\ Fits(Grown(p, f))
<1> DEFINE next == p.best + frame(f)
           us == cycle_for(next, f)
           n == CycleBytes(us, f)
<1>1. next \in Nat
  BY DEF Playable
<1>2. us \in Nat
  BY <1>1, CycleTime
<1>3. n \in Nat
  BY <1>2, Answer
<1>4. CASE p.done \/ next >= mtu \/ CyclePackets(us, f) # 1
  <2>1. Grown(p, f) = [p EXCEPT !.done = TRUE]
    BY <1>4 DEF Grown
  <2> QED
    BY <2>1 DEF Fits
<1>5. CASE ~(p.done \/ next >= mtu \/ CyclePackets(us, f) # 1)
  <2>1. Grown(p, f) = [best |-> n, done |-> n < next]
    BY <1>5 DEF Grown
  <2>2. n <= wire - sdk.overhead
    BY <1>2, <1>5, OnePacketFits
  <2> HIDE DEF n
  <2>3. (n < next) \in BOOLEAN
    OBVIOUS
  <2> QED
    BY <1>3, <2>1, <2>2, <2>3 DEF Fits
<1> QED
  BY <1>4, <1>5

LEMMA ProbeFits ==
  ASSUME LinkOK, NEW f, Playable(f)
  PROVE  /\ probe_max_one_packet_payload(f) \in Nat
         /\ probe_max_one_packet_payload(f) <= wire - sdk.overhead
<1> DEFINE us == varmax_one_packet(cycle_for(payload_for(mtu, default_overhead_guess(mtu), f), f), f)
           start == [best |-> CycleBytes(us, f), done |-> FALSE]
           Probes == [best : Nat, done : BOOLEAN]
<1>1. us \in Nat
  <2>1. mtu \in Nat /\ default_overhead_guess(mtu) \in Nat
    <3>1. mtu \in Nat
      BY SdkTypes
    <3> QED
      BY <3>1 DEF default_overhead_guess
  <2>2. payload_for(mtu, default_overhead_guess(mtu), f) \in Nat
    BY <2>1, Payload
  <2>3. cycle_for(payload_for(mtu, default_overhead_guess(mtu), f), f) \in Nat
    BY <2>2, CycleTime
  <2> QED
    BY <2>3, VarMaxTypes
<1> HIDE DEF us
<1>2. CASE CyclePackets(us, f) # 1
  <2>1. probe_max_one_packet_payload(f) = 0
    BY <1>2 DEF probe_max_one_packet_payload, us
  <2> QED
    BY <2>1, SdkTypes
<1>3. CASE CyclePackets(us, f) = 1
  <2>1. probe_max_one_packet_payload(f) = Grown4(Grown4(Grown4(Grown4(start, f), f), f), f).best
    BY <1>3 DEF probe_max_one_packet_payload, us
  <2>2. start \in Probes /\ Fits(start)
    <3> DEFINE n == CycleBytes(us, f)
    <3>1. n \in Nat
      BY <1>1, Answer
    <3>2. n <= wire - sdk.overhead
      BY <1>1, <1>3, OnePacketFits
    <3>3. start = [best |-> n, done |-> FALSE]
      OBVIOUS
    <3> HIDE DEF n, start
    <3> QED
      BY <3>1, <3>2, <3>3 DEF Fits
  <2> HIDE DEF start
  <2>3. ASSUME NEW p \in Probes, Fits(p)
        PROVE  Grown4(p, f) \in Probes /\ Fits(Grown4(p, f))
    BY <2>3, GrownFits DEF Grown4
  <2> HIDE DEF Probes
  <2>4. Fits(Grown4(Grown4(Grown4(Grown4(start, f), f), f), f))
    BY <2>2, <2>3
  <2> QED
    BY <2>1, <2>4 DEF Fits
<1> QED
  BY <1>2, <1>3

\* What calibration infers is an overhead, and with the MTU packets are sent
\* at no less than the real one.
LEMMA CalibratedSafe ==
  ASSUME LinkOK
  PROVE  /\ calibrated \in 0..199
         /\ wire = mtu /\ calibrated > 0 => calibrated >= sdk.overhead
<1> DEFINE Left(b) == mtu - probe_max_one_packet_payload(ProbeFormat(b))
<1>1. \A b \in {16, 24, 32} : Left(b) \in Int /\ (wire = mtu => Left(b) >= sdk.overhead)
  <2> SUFFICES ASSUME NEW b \in {16, 24, 32}
               PROVE  Left(b) \in Int /\ (wire = mtu => Left(b) >= sdk.overhead)
    OBVIOUS
  <2> DEFINE n == probe_max_one_packet_payload(ProbeFormat(b))
             w == wire
             m == mtu
             o == sdk.overhead
  <2>1. n \in Nat /\ n <= w - o
    BY ProbesPlayable, ProbeFits
  <2>2. w \in Nat /\ m \in Nat /\ o \in Nat
    BY SdkTypes
  <2> HIDE DEF n, w, m, o
  <2>3. m - n \in Int /\ (w = m => m - n >= o)
    BY <2>1, <2>2
  <2> QED
    BY <2>3 DEF n, w, m, o
<1> HIDE DEF Left
<1>2. Leftovers \subseteq {Left(b) : b \in sdk.probes} \cap 1..199
  BY DEF Leftovers, Payloads, Left
<1>3. Leftovers \subseteq {Left(16), Left(24), Left(32)}
  BY <1>2, SdkTypes
<1>4. CASE Leftovers = {}
  BY <1>4 DEF calibrated
<1>5. CASE Leftovers # {}
  <2>1. Min(Leftovers) \in Leftovers
    <3> DEFINE a == Left(16)
               b == Left(24)
               c == Left(32)
    <3>1. a \in Int /\ b \in Int /\ c \in Int
      BY <1>1
    <3>2. Leftovers \in SUBSET {a, b, c}
      BY <1>3
    <3> HIDE DEF a, b, c
    <3> QED
      BY <1>5, <3>1, <3>2, MinOfThree
  <2> DEFINE L == Leftovers
             v == Min(L)
  <2>2. calibrated = v /\ v \in L
    BY <1>5, <2>1, Zenon DEF calibrated
  <2> HIDE DEF v
  <2>3. PICK b \in sdk.probes : calibrated = Left(b) /\ calibrated \in 1..199
    BY <1>2, <2>2
  <2>4. b \in {16, 24, 32}
    BY SdkTypes
  <2>5. wire = mtu => Left(b) >= sdk.overhead
    BY <1>1, <2>4
  <2> QED
    BY <2>3, <2>5
<1> QED
  BY <1>4, <1>5

LEMMA EffectiveTypes ==
  ASSUME LinkOK, opts \in Options, overhead \in 0..199, NEW f \in Formats
  PROVE  effective_cycle(f) \in Nat
<1>1. Playable(f)
  BY FormatsPlayable
<1>2. opts.cycle \in Nat /\ opts.hz \in Nat
  <2>1. \A o \in Options : o.cycle \in Nat /\ o.hz \in Nat
    BY TransferAssumption
  <2> QED
    BY <2>1
<1>3. varmax_cycle(f) \in Nat
  <2>1. mtu \in Nat /\ overhead \in Nat
    BY SdkTypes
  <2> QED
    BY <1>1, <2>1, VarMaxCycle DEF varmax_cycle
<1>4. asked_cycle(f) \in Nat
  BY <1>2, <1>3 DEF asked_cycle
<1>5. varmax_one_packet(varmax_cycle(f), f) \in Nat /\ varmax_one_packet(asked_cycle(f), f) \in Nat
  BY <1>1, <1>3, <1>4, VarMaxTypes
<1>6. auto_cycle(f) \in Nat
  BY <1>2, <1>3, <1>5 DEF auto_cycle
<1>7. opts.hz > 0 => 1000000 \div opts.hz \in Nat
  <2> DEFINE h == opts.hz
  <2>1. h \in Nat
    BY <1>2
  <2> HIDE DEF h
  <2>2. h > 0 => 1000000 \div h \in Nat
    BY <2>1
  <2> QED
    BY <2>2 DEF h
<1> DEFINE x1 == asked_cycle(f)
           x2 == varmax_one_packet(asked_cycle(f), f)
           x3 == auto_cycle(f)
           x4 == 1000000 \div opts.hz
<1>8. effective_cycle(f) = CASE opts.mode = "varprio" /\ opts.hz > 0 -> x4
                             [] opts.limit > 0                      -> x1
                             [] opts.mode = "varmax"                -> x2
                             [] opts.mode \in {"auto", "autofix"}   -> x3
                             [] OTHER                               -> x1
  BY DEF effective_cycle
<1>9. x1 \in Nat /\ x2 \in Nat /\ x3 \in Nat /\ (opts.hz > 0 => x4 \in Nat)
  BY <1>4, <1>5, <1>6, <1>7
<1> HIDE DEF x1, x2, x3, x4
<1> QED
  BY <1>8, <1>9

-----------------------------------------------------------------------------
(* The invariant. *)

(* Until a mode is applied, the worker's overhead is not above what the    *)
(* file of its MTU holds, if anything: the comparison with the one is as   *)
(* good as with the other.                                                 *)
FileFollows ==
  /\ stage \in {"resolved", "calibrated"} =>
       cache[mtu] = 0 \/ (0 < overhead /\ overhead <= cache[mtu])
  /\ stage \in {"savingCalibration", "savingTightened"} => cache[mtu] = 0

Stages ==
  /\ sdk \in Sdks /\ opts \in Options /\ path \in Mtus /\ mtu \in Mtus /\ wire \in Mtus
  /\ cache \in [Mtus -> 0..199] /\ overhead \in 0..199
  /\ applied.f \in Formats \cup {NoFormat}
  /\ applied.us \in Nat /\ applied.size \in Nat /\ applied.packets \in Nat
  /\ stage \in {"savingTightened", "applied", "open"} => applied.f \in Formats
  /\ stage \in {"down", "ready", "resolved", "savingCalibration", "calibrated",
                "savingTightened", "applied", "open"}

\* No overhead below the real one is on file or in use.
Safe ==
  /\ wire = mtu
  /\ \A m \in Mtus : cache[m] > 0 => cache[m] >= sdk.overhead
  /\ overhead > 0 => overhead >= sdk.overhead

LEMMA SinkMtu ==
  ASSUME path \in Mtus, NEW sink \in Mtus \cup {0}
  PROVE  resolve_active_mtu(sink) \in Mtus
<1>1. CASE sink = 0
  BY <1>1 DEF resolve_active_mtu
<1>2. CASE sink # 0
  <2> DEFINE p == path
  <2>1. p \in Int /\ sink \in Int
    BY <1>2, TransferAssumption
  <2> HIDE DEF p
  <2>2. Min({p, sink}) \in {p, sink}
    BY <2>1, MinOfTwo
  <2> QED
    BY <1>2, <2>2 DEF resolve_active_mtu, p
<1> QED
  BY <1>1, <1>2

\* What Apply() makes of a format.
LEMMA AppliedTypes ==
  ASSUME Stages, NEW f \in Formats, NEW a, a = Configured(effective_cycle(f), f)
  PROVE  /\ a.f = f /\ a.us \in Nat /\ a.size \in Nat /\ a.packets \in Nat
         /\ wire = mtu /\ a.packets = 1 => mtu - a.size >= sdk.overhead
<1> DEFINE us == effective_cycle(f)
<1>1. LinkOK /\ Playable(f)
  BY FormatsPlayable DEF Stages, LinkOK
<1>2. us \in Nat
  BY <1>1, EffectiveTypes DEF Stages
<1>3. a.f = f /\ a.us = us /\ a.size = CycleBytes(us, f) /\ a.packets = CyclePackets(us, f)
  BY DEF Configured
<1> HIDE DEF us
<1>4. CycleBytes(us, f) \in Nat /\ CyclePackets(us, f) \in Nat
  BY <1>1, <1>2, Answer
<1>5. ASSUME wire = mtu, a.packets = 1
      PROVE  mtu - a.size >= sdk.overhead
  <2> DEFINE n == CycleBytes(us, f)
             w == wire
             o == sdk.overhead
  <2>1. n \in Nat /\ n <= w - o
    BY <1>1, <1>2, <1>3, <1>4, <1>5, OnePacketFits
  <2>2. w \in Nat /\ o \in Nat
    BY <1>1, SdkTypes
  <2> HIDE DEF n, w, o
  <2>3. w - n >= o
    BY <2>1, <2>2
  <2> QED
    BY <1>3, <1>5, <2>3 DEF n, w, o
<1> QED
  BY <1>2, <1>3, <1>4, <1>5

LEMMA StagesInit == ModeInit => Stages /\ FileFollows
BY DEF ModeInit, Stages, FileFollows, Nothing

LEMMA StartStages == Stages /\ FileFollows /\ Start => Stages' /\ FileFollows'
BY DEF Start, Stages, FileFollows, Nothing, load_inferred_overhead

LEMMA ResolveStages == Stages /\ FileFollows /\ Resolve => Stages' /\ FileFollows'
<1> SUFFICES ASSUME Stages, Resolve PROVE Stages' /\ FileFollows'
  OBVIOUS
<1>1. PICK sink \in Mtus \cup {0}, ok \in BOOLEAN :
        /\ wire' = IF ok THEN resolve_active_mtu(sink) ELSE path
        /\ mtu' = resolve_active_mtu(sink)
        /\ overhead' = overhead_for(resolve_active_mtu(sink))
  BY DEF Resolve
<1>2. mtu' \in Mtus /\ wire' \in Mtus
  BY <1>1, SinkMtu DEF Stages
<1>3. overhead' = cache[mtu'] /\ overhead' \in 0..199
  BY <1>1, <1>2 DEF Stages, overhead_for, load_inferred_overhead
<1>4. /\ sdk' = sdk /\ cache' = cache /\ opts' = opts /\ path' = path
      /\ stage' = "resolved" /\ applied' = Nothing
  BY DEF Resolve, process
<1> QED
  BY <1>2, <1>3, <1>4 DEF Stages, FileFollows, Nothing

LEMMA CalibrateStages == Stages /\ FileFollows /\ Calibrate => Stages' /\ FileFollows'
<1> SUFFICES ASSUME Stages, FileFollows, Calibrate PROVE Stages' /\ FileFollows'
  OBVIOUS
<1>1. calibrated \in 0..199
  BY CalibratedSafe DEF Stages, LinkOK
<1>2. /\ stage = "resolved" /\ overhead = 0 /\ overhead' = calibrated
      /\ \/ cache' = Truncated(mtu) /\ stage' = "savingCalibration"
         \/ cache' = cache /\ stage' = "calibrated"
      /\ sdk' = sdk /\ opts' = opts /\ path' = path /\ mtu' = mtu /\ wire' = wire
      /\ applied' = applied
  BY <1>1 DEF Calibrate, process, link
<1> QED
  BY <1>1, <1>2 DEF Stages, FileFollows, Truncated

LEMMA SaveStages ==
  Stages /\ FileFollows /\ (SaveCalibration \/ SaveTightened) => Stages' /\ FileFollows'
BY DEF Stages, FileFollows, SaveCalibration, SaveTightened, Saved, process, link

LEMMA ApplyStages ==
  ASSUME Stages, FileFollows, NEW f \in Formats, Apply(f)
  PROVE  Stages' /\ FileFollows'
<1> DEFINE a == Configured(effective_cycle(f), f)
<1>1. a.f = f /\ a.us \in Nat /\ a.size \in Nat /\ a.packets \in Nat
  BY AppliedTypes
<1>2. /\ Calibrated /\ applied' = a
      /\ overhead' = IF tightens(a) THEN mtu - a.size ELSE overhead
      /\ \/ cache' = Truncated(mtu) /\ stage' = "savingTightened"
         \/ stage' = "applied" /\ cache' = cache
      /\ sdk' = sdk /\ opts' = opts /\ path' = path /\ mtu' = mtu /\ wire' = wire
  BY DEF Apply, process, link
<1> HIDE DEF a
<1>3. tightens(a) => mtu - a.size \in 0..199
  BY DEF tightens
<1> QED
  BY <1>1, <1>2, <1>3 DEF Stages, FileFollows, Truncated

LEMMA OtherStages ==
  Stages /\ FileFollows /\ (Configure \/ Cycle \/ Close \/ Die) => Stages' /\ FileFollows'
BY DEF Stages, FileFollows, Configure, Cycle, Close, Die, modeVars, process, link, Nothing

LEMMA StagesNext == Stages /\ FileFollows /\ [ModeNext]_allVars => Stages' /\ FileFollows'
<1> SUFFICES ASSUME Stages, FileFollows, [ModeNext]_allVars PROVE Stages' /\ FileFollows'
  OBVIOUS
<1>1. CASE UNCHANGED allVars
  BY <1>1 DEF Stages, FileFollows, allVars, modeVars, process, link
<1>2. ASSUME NEW f \in Formats, Apply(f) PROVE Stages' /\ FileFollows'
  BY <1>2, ApplyStages
<1>3. CASE Start
  BY <1>3, StartStages
<1>4. CASE Resolve
  BY <1>4, ResolveStages
<1>5. CASE Calibrate
  BY <1>5, CalibrateStages
<1>6. CASE SaveCalibration \/ SaveTightened
  BY <1>6, SaveStages
<1>7. CASE Configure \/ Cycle \/ Close \/ Die
  BY <1>7, OtherStages
<1> QED
  BY <1>1, <1>2, <1>3, <1>4, <1>5, <1>6, <1>7 DEF ModeNext

LEMMA SafeNext ==
  ASSUME ~SetSinkMayFail
  PROVE  Stages /\ FileFollows /\ Safe /\ [ModeNext]_allVars => Safe'
<1> SUFFICES ASSUME Stages, FileFollows, Safe, [ModeNext]_allVars PROVE Safe'
  OBVIOUS
<1>1. CASE UNCHANGED allVars
  BY <1>1 DEF Safe, allVars, modeVars, process, link
<1>2. CASE Start
  BY <1>2 DEF Start, Stages, Safe, load_inferred_overhead
<1>3. CASE Resolve
  <2>1. PICK sink \in Mtus \cup {0}, ok \in BOOLEAN :
          /\ ok \/ (SetSinkMayFail /\ resolve_active_mtu(sink) # path)
          /\ wire' = IF ok THEN resolve_active_mtu(sink) ELSE path
          /\ mtu' = resolve_active_mtu(sink)
          /\ overhead' = overhead_for(resolve_active_mtu(sink))
    BY <1>3 DEF Resolve
  <2>2. mtu' \in Mtus
    BY <2>1, SinkMtu DEF Stages
  <2>3. wire' = mtu' /\ overhead' = cache[mtu'] /\ cache' = cache /\ sdk' = sdk
    BY <1>3, <2>1 DEF Resolve, overhead_for, load_inferred_overhead
  <2> QED
    BY <2>2, <2>3 DEF Safe
<1>4. CASE Calibrate
  <2>1. calibrated \in 0..199 /\ (calibrated > 0 => calibrated >= sdk.overhead)
    BY CalibratedSafe DEF Stages, LinkOK, Safe
  <2>2. /\ overhead' = calibrated /\ cache' \in {cache, Truncated(mtu)}
        /\ sdk' = sdk /\ mtu' = mtu /\ wire' = wire
    BY <1>4 DEF Calibrate, link
  <2> QED
    BY <2>1, <2>2 DEF Stages, Safe, Truncated
<1>5. CASE SaveCalibration \/ SaveTightened
  BY <1>5 DEF Stages, Safe, SaveCalibration, SaveTightened, Saved, link
<1>6. ASSUME NEW f \in Formats, Apply(f) PROVE Safe'
  <2> DEFINE a == Configured(effective_cycle(f), f)
  <2>1. a.packets = 1 => mtu - a.size >= sdk.overhead
    BY AppliedTypes DEF Safe
  <2>2. /\ overhead' = IF tightens(a) THEN mtu - a.size ELSE overhead
        /\ cache' \in {cache, Truncated(mtu)}
        /\ sdk' = sdk /\ mtu' = mtu /\ wire' = wire
    BY <1>6 DEF Apply, link
  <2> HIDE DEF a
  <2> QED
    BY <2>1, <2>2 DEF Stages, Safe, Truncated, tightens
<1>7. CASE Configure \/ Cycle \/ Close \/ Die
  BY <1>7 DEF Safe, Configure, Cycle, Close, Die, modeVars, process, link
<1> QED
  BY <1>1, <1>2, <1>3, <1>4, <1>5, <1>6, <1>7 DEF ModeNext

(* A file with an overhead is opened for writing only to lower it. *)
Tightens ==
  \A m \in Mtus : cache[m] > 0 /\ cache'[m] # cache[m] => m = mtu /\ overhead' < cache[m]

LEMMA TighteningStep == Stages /\ FileFollows /\ [ModeNext]_allVars => Tightens
<1> SUFFICES ASSUME Stages, FileFollows, [ModeNext]_allVars PROVE Tightens
  OBVIOUS
<1>1. CASE cache' = cache
  BY <1>1 DEF Tightens
<1>2. CASE Calibrate
  BY <1>2 DEF Stages, FileFollows, Tightens, Calibrate, Truncated
<1>3. CASE SaveCalibration \/ SaveTightened
  BY <1>3 DEF Stages, FileFollows, Tightens, SaveCalibration, SaveTightened, Saved
<1>4. ASSUME NEW f \in Formats, Apply(f), cache' # cache PROVE Tightens
  <2> DEFINE a == Configured(effective_cycle(f), f)
  <2>1. /\ Calibrated /\ tightens(a) /\ overhead' = mtu - a.size
        /\ cache' = Truncated(mtu)
    BY <1>4 DEF Apply
  <2> HIDE DEF a
  <2>2. cache[mtu] = 0 \/ (0 < overhead /\ overhead <= cache[mtu])
    BY <2>1 DEF Calibrated, FileFollows
  <2> DEFINE n == mtu - a.size
  <2>3. n \in 1..199 /\ (overhead = 0 \/ n < overhead)
    BY <2>1 DEF tightens
  <2>4. overhead' = n
    BY <2>1
  <2> HIDE DEF n
  <2>5. cache[mtu] > 0 => overhead' < cache[mtu]
    BY <2>2, <2>3, <2>4 DEF Stages
  <2> QED
    BY <2>1, <2>5 DEF Stages, Tightens, Truncated
<1>5. CASE Start \/ Resolve \/ Configure \/ Cycle \/ Close \/ Die \/ UNCHANGED allVars
  <2>1. cache' = cache
    BY <1>5 DEF Start, Resolve, Configure, Cycle, Close, Die, modeVars, allVars
  <2> QED
    BY <1>1, <2>1
<1> QED
  BY <1>1, <1>2, <1>3, <1>4, <1>5 DEF ModeNext

\* A Sync that goes leaves the cycle as it was before the first open.
LEMMA GoneHolds == SyncGone => IInv'
<1>1. Init => IInv
  BY InitHolds
<1>2. Init' => IInv'
  BY <1>1, PTL
<1> QED
  BY <1>2 DEF SyncGone, Init

LEMMA CycleNext == Stages /\ IInv /\ [ModeNext]_allVars => IInv'
<1> SUFFICES ASSUME Stages, IInv, [ModeNext]_allVars PROVE IInv'
  OBVIOUS
<1>1. CASE UNCHANGED vars
  BY <1>1 DEF vars, config, IInv, TypeOK, Accounts, WholeFramesPopped, ExtraFrameFits, Whole
<1>2. CASE Close \/ Die
  BY <1>2, GoneHolds DEF Close, Die
<1>3. CASE Cycle
  BY <1>3, CycleHolds DEF Cycle
<1>4. CASE Configure
  <2> DEFINE f == applied.f
             b == frame(f)
             raw == applied.size
             rate == f.rate * 100 * b
  <2>1. configureFormat(b, raw, rate) /\ f \in Formats /\ raw \in Nat
    BY <1>4 DEF Configure, Stages
  <2>2. b \in Nat \ {0} /\ f.rate \in Nat
    BY <2>1, FormatsPlayable DEF Playable
  <2>3. rate \in Nat
    BY <2>2, Product
  <2> HIDE DEF f, b, raw, rate
  <2> QED
    BY <2>1, <2>2, <2>3, ConfigureHolds
<1>5. ASSUME NEW f \in Formats, Apply(f) PROVE IInv'
  BY <1>1, <1>5 DEF Apply
<1>6. CASE Start \/ Resolve \/ Calibrate \/ SaveCalibration \/ SaveTightened
           \/ UNCHANGED allVars
  BY <1>1, <1>6 DEF Start, Resolve, Calibrate, SaveCalibration, SaveTightened, allVars
<1> QED
  BY <1>2, <1>3, <1>4, <1>5, <1>6 DEF ModeNext

-----------------------------------------------------------------------------
(* Cycles of whole frames. *)

\* What is known of a format that is played.
Rated(f) == Playable(f) /\ 441 <= f.rate /\ f.rate <= 7680

LEMMA FormatsRated == \A f \in Formats : Rated(f)
<1>1. \A f \in Formats : 441 <= f.rate /\ f.rate <= 7680
  BY TransferAssumption
<1> QED
  BY <1>1, FormatsPlayable DEF Rated

LEMMA QuotientGrows ==
  ASSUME NEW x \in Nat, NEW y \in Nat, x <= y, NEW b \in Nat \ {0}
  PROVE  x \div b <= y \div b
<1> DEFINE p == x \div b
           q == y \div b
<1>1. /\ p \in Nat /\ q \in Nat
      /\ x = p * b + (x % b) /\ x % b \in 0..(b - 1)
      /\ y = q * b + (y % b) /\ y % b \in 0..(b - 1)
  OBVIOUS
<1> HIDE DEF p, q
<1>2. SUFFICES ASSUME q + 1 <= p PROVE FALSE
  BY <1>1 DEF p, q
<1>3. (q + 1) * b <= p * b
  <2>1. PICK d \in Nat : p = q + 1 + d
    <3>1. p = q + 1 + (p - q - 1) /\ p - q - 1 \in Nat
      BY <1>1, <1>2
    <3> QED
      BY <3>1
  <2>2. p * b = (q + 1) * b + d * b /\ d * b \in Nat /\ (q + 1) * b \in Nat
    BY <1>1, <2>1
  <2> QED
    BY <2>2
<1>4. (q + 1) * b = q * b + b /\ q * b \in Nat /\ p * b \in Nat
  BY <1>1
<1> QED
  BY <1>1, <1>3, <1>4

LEMMA ProductGrows ==
  ASSUME NEW x \in Nat, NEW y \in Nat, x <= y, NEW b \in Nat
  PROVE  x * b <= y * b
<1>1. PICK d \in Nat : y = x + d
  <2>1. y = x + (y - x) /\ y - x \in Nat
    OBVIOUS
  <2> QED
    BY <2>1
<1>2. y * b = x * b + d * b /\ d * b \in Nat /\ x * b \in Nat
  BY <1>1
<1> QED
  BY <1>2

LEMMA Clamps ==
  ASSUME NEW us \in Nat
  PROVE  Clamp(us) \in Nat /\ Clamp(us) >= 100 /\ (Clamp(us) = 100 \/ Clamp(us) <= us)
<1> DEFINE m == Min({us, 50000})
<1>1. m \in {us, 50000} /\ m <= us
  <2>1. \E x \in {us, 50000} : \A y \in {us, 50000} : x =< y
    OBVIOUS
  <2> QED
    BY <2>1 DEF Min
<1> HIDE DEF m
<1>2. m \in Nat
  BY <1>1
<1>3. Max({100, m}) \in {100, m} /\ Max({100, m}) >= 100
  BY <1>2, MaxOfTwo
<1>4. Clamp(us) = Max({100, m})
  BY DEF Clamp, m
<1> QED
  BY <1>1, <1>2, <1>3, <1>4

Time(n, r) == (20000 * n + r) \div (2 * r)

LEMMA WholeCycle ==
  ASSUME NEW f, Playable(f), NEW n \in Nat
  PROVE  cycle_for(n * frame(f), f) = Clamp(Time(n, f.rate))
<1> DEFINE b == frame(f)
           r == f.rate
           x == n * b
<1>1. b \in Nat \ {0} /\ r \in Nat \ {0}
  BY DEF Playable
<1>2. cycle_for(x, f)
        = Clamp(((x \div b) * 20000 + ((x % b) * 20000) \div b + r) \div (2 * r))
  BY DEF cycle_for
<1> HIDE DEF b, r
<1>3. x \div b = n /\ x % b = 0
  BY <1>1
<1> HIDE DEF x
<1>4. ((x % b) * 20000) \div b = 0
  BY <1>1, <1>3
<1>5. (x \div b) * 20000 + ((x % b) * 20000) \div b + r = 20000 * n + r
  BY <1>1, <1>3, <1>4
<1> QED
  BY <1>2, <1>5 DEF Time, x, b, r

LEMMA TimeBounds ==
  ASSUME NEW n \in Nat, NEW r \in Nat \ {0}
  PROVE  Time(n, r) \in Nat /\ Time(n, r) * r \in Nat /\ 2 * (Time(n, r) * r) <= 20000 * n + r
<1> DEFINE d == 2 * r
           x == 20000 * n + r
           t == x \div d
<1>0. Time(n, r) = t
  BY DEF Time
<1>1. d \in Nat \ {0} /\ x \in Nat
  OBVIOUS
<1> HIDE DEF d, x
<1>2. t \in Nat /\ x = t * d + (x % d) /\ x % d \in Nat
  BY <1>1
<1> HIDE DEF t
<1>3. t * d = 2 * (t * r) /\ t * r \in Nat
  BY <1>2 DEF d
<1>4. 2 * (t * r) <= x
  BY <1>1, <1>2, <1>3
<1>5. t \in Nat /\ t * r \in Nat /\ 2 * (t * r) <= 20000 * n + r
  BY <1>2, <1>3, <1>4 DEF x
<1> QED
  BY <1>0, <1>5

\* A cycle of n frames is the shortest cycle or, rounded to a microsecond,
\* at most half a microsecond longer than n frames.
LEMMA WholeTime ==
  ASSUME NEW f, Playable(f), NEW n \in Nat, NEW us, us = cycle_for(n * frame(f), f)
  PROVE  /\ us \in Nat /\ us >= 100
         /\ us = 100 \/ (us * f.rate \in Nat /\ 2 * (us * f.rate) <= 20000 * n + f.rate)
<1> DEFINE r == f.rate
           t == Time(n, r)
<1>1. r \in Nat \ {0}
  BY DEF Playable
<1>2. us = Clamp(t)
  BY WholeCycle
<1>3. t \in Nat /\ t * r \in Nat /\ 2 * (t * r) <= 20000 * n + r
  <2> HIDE DEF r
  <2>1. \A k \in Nat : /\ Time(k, r) \in Nat /\ Time(k, r) * r \in Nat
                       /\ 2 * (Time(k, r) * r) <= 20000 * k + r
    BY <1>1, TimeBounds
  <2> QED
    BY <2>1
<1> HIDE DEF r, t
<1>4. us \in Nat /\ us >= 100 /\ (us = 100 \/ us <= t)
  BY <1>2, <1>3, Clamps
<1>5. us <= t => us * r \in Nat /\ us * r <= t * r
  BY <1>1, <1>3, <1>4, ProductGrows, Product
<1>6. us <= t => us * r \in Nat /\ 2 * (us * r) <= 20000 * n + r
  <2> DEFINE x == us * r
             y == t * r
  <2>1. us <= t => x \in Nat /\ x <= y
    BY <1>5
  <2> HIDE DEF x
  <2>2. y \in Nat /\ 2 * y <= 20000 * n + r
    BY <1>3
  <2> HIDE DEF y
  <2>3. us <= t => x \in Nat /\ 2 * x <= 20000 * n + r
    BY <1>1, <2>1, <2>2
  <2> QED
    BY <2>3 DEF x
<1> QED
  BY <1>4, <1>6 DEF r

-----------------------------------------------------------------------------
(* The bytes of a cycle, from p = us * rate. *)

Bytes(p, b) ==
  CASE sdk.rounding = "bytes" -> (p \div 10000) * b + ((p % 10000) * b) \div 10000
    [] sdk.rounding = "down"  -> (p \div 10000) * b
    [] sdk.rounding = "nearest" -> ((2 * p + 10000) \div 20000) * b
    [] sdk.rounding = "up"    -> ((p + 9999) \div 10000) * b

LEMMA BytesOfCycle ==
  ASSUME NEW f, Playable(f), NEW us \in Nat
  PROVE  us * f.rate \in Nat /\ CycleBytes(us, f) = Bytes(us * f.rate, frame(f))
<1> DEFINE p == us * f.rate
<1>1. p \in Nat
  BY Product DEF Playable
<1>2. 2 * us * f.rate = 2 * p
  BY DEF Playable
<1>3. p + 10000 - 1 = p + 9999
  <2> HIDE DEF p
  <2> QED
    BY <1>1
<1> QED
  BY <1>1, <1>2, <1>3 DEF CycleBytes, CeilDiv, Bytes

\* The two parts of a cycle rounded to bytes are one quotient.
LEMMA ByteExact ==
  ASSUME NEW p \in Nat, NEW b \in Nat
  PROVE  (p \div 10000) * b + ((p % 10000) * b) \div 10000 = (p * b) \div 10000
<1> DEFINE q == p \div 10000
           r == p % 10000
           a == q * b
           c == r * b
<1>1. q \in Nat /\ r \in Nat /\ p = 10000 * q + r
  OBVIOUS
<1> HIDE DEF q, r
<1>2. a \in Nat /\ c \in Nat /\ p * b = 10000 * a + c
  <2>1. p * b = (10000 * q) * b + r * b
    BY <1>1
  <2>2. (10000 * q) * b = 10000 * (q * b)
    BY <1>1
  <2> QED
    BY <1>1, <2>1, <2>2, Product
<1> HIDE DEF a, c
<1>3. (10000 * a + c) \div 10000 = a + c \div 10000
  BY <1>2
<1> QED
  BY <1>2, <1>3 DEF a, c, q, r

LEMMA BytesType ==
  ASSUME LinkOK, NEW p \in Nat, NEW b \in Nat \ {0}
  PROVE  Bytes(p, b) \in Nat
<1> DEFINE x1 == (p \div 10000) * b + ((p % 10000) * b) \div 10000
           x2 == (p \div 10000) * b
           x3 == ((2 * p + 10000) \div 20000) * b
           x4 == ((p + 9999) \div 10000) * b
<1>1. x1 \in Nat
  <2> DEFINE y == p * b
  <2>1. x1 = y \div 10000 /\ y \in Nat
    BY ByteExact, Product
  <2> HIDE DEF x1, y
  <2> QED
    BY <2>1
<1>2. p \div 10000 \in Nat /\ (2 * p + 10000) \div 20000 \in Nat /\ (p + 9999) \div 10000 \in Nat
  OBVIOUS
<1>3. x2 \in Nat /\ x3 \in Nat /\ x4 \in Nat
  BY <1>2, Product
<1>4. Bytes(p, b) = CASE sdk.rounding = "bytes" -> x1
                      [] sdk.rounding = "down"  -> x2
                      [] sdk.rounding = "nearest" -> x3
                      [] sdk.rounding = "up"    -> x4
  BY DEF Bytes
<1> HIDE DEF x1, x2, x3, x4
<1> QED
  BY <1>1, <1>3, <1>4, SdkTypes

\* A longer cycle carries no less.
LEMMA BytesGrow ==
  ASSUME LinkOK, NEW p \in Nat, NEW q \in Nat, p <= q, NEW b \in Nat \ {0}
  PROVE  Bytes(p, b) <= Bytes(q, b)
<1>1. CASE sdk.rounding = "bytes"
  <2> DEFINE x == p * b
             y == q * b
  <2>1. x \in Nat /\ y \in Nat /\ x <= y
    BY Product, ProductGrows
  <2>2. Bytes(p, b) = x \div 10000 /\ Bytes(q, b) = y \div 10000
    BY <1>1, ByteExact DEF Bytes
  <2> HIDE DEF x, y
  <2>3. x \div 10000 <= y \div 10000
    BY <2>1, QuotientGrows
  <2> QED
    BY <2>2, <2>3
<1>2. CASE sdk.rounding = "down"
  <2>1. p \div 10000 \in Nat /\ q \div 10000 \in Nat /\ p \div 10000 <= q \div 10000
    BY QuotientGrows
  <2>2. Bytes(p, b) = (p \div 10000) * b /\ Bytes(q, b) = (q \div 10000) * b
    BY <1>2 DEF Bytes
  <2> QED
    BY <2>1, <2>2, ProductGrows
<1>3. CASE sdk.rounding = "nearest"
  <2> DEFINE x == (2 * p + 10000) \div 20000
             y == (2 * q + 10000) \div 20000
  <2>1. x \in Nat /\ y \in Nat /\ x <= y
    BY QuotientGrows
  <2>2. Bytes(p, b) = x * b /\ Bytes(q, b) = y * b
    BY <1>3 DEF Bytes
  <2> HIDE DEF x, y
  <2> QED
    BY <2>1, <2>2, ProductGrows
<1>4. CASE sdk.rounding = "up"
  <2> DEFINE x == (p + 9999) \div 10000
             y == (q + 9999) \div 10000
  <2>1. x \in Nat /\ y \in Nat /\ x <= y
    BY QuotientGrows
  <2>2. Bytes(p, b) = x * b /\ Bytes(q, b) = y * b
    BY <1>4 DEF Bytes
  <2> HIDE DEF x, y
  <2> QED
    BY <2>1, <2>2, ProductGrows
<1> QED
  BY <1>1, <1>2, <1>3, <1>4, SdkTypes

\* Two whole frames are two frames, whatever the rounding.
LEMMA BytesOfTwo ==
  ASSUME LinkOK, NEW b \in Nat \ {0}
  PROVE  Bytes(20000, b) = 2 * b
<1>1. 20000 \div 10000 = 2 /\ 20000 % 10000 = 0 /\ (20000 + 9999) \div 10000 = 2
      /\ (2 * 20000 + 10000) \div 20000 = 2
  BY SMT
<1>2. (0 * b) \div 10000 = 0
  BY SMT
<1> QED
  BY <1>1, <1>2, SdkTypes, SMT DEF Bytes

\* A cycle no longer than n frames carries no more than n frames.
LEMMA BytesWithin ==
  ASSUME LinkOK, NEW p \in Nat, NEW n \in Nat, p <= 10000 * n, NEW b \in Nat \ {0}
  PROVE  Bytes(p, b) <= n * b
<1>1. CASE sdk.rounding = "bytes"
  <2> DEFINE x == p * b
             y == n * b
  <2>1. x \in Nat /\ y \in Nat /\ x <= 10000 * y
    <3>1. 10000 * n \in Nat /\ p * b <= (10000 * n) * b
      BY ProductGrows
    <3>2. (10000 * n) * b = 10000 * (n * b)
      OBVIOUS
    <3> QED
      BY <3>1, <3>2, Product
  <2>2. Bytes(p, b) = x \div 10000
    BY <1>1, ByteExact DEF Bytes
  <2> HIDE DEF x, y
  <2>3. x \div 10000 <= y
    BY <2>1
  <2> QED
    BY <2>2, <2>3 DEF y
<1>2. CASE sdk.rounding = "down"
  <2>1. p \div 10000 \in Nat /\ p \div 10000 <= n
    OBVIOUS
  <2>2. Bytes(p, b) = (p \div 10000) * b
    BY <1>2 DEF Bytes
  <2> QED
    BY <2>1, <2>2, ProductGrows
<1>3. CASE sdk.rounding = "nearest"
  <2> DEFINE x == (2 * p + 10000) \div 20000
  <2>1. x \in Nat /\ x <= n
    OBVIOUS
  <2>2. Bytes(p, b) = x * b
    BY <1>3 DEF Bytes
  <2> HIDE DEF x
  <2> QED
    BY <2>1, <2>2, ProductGrows
<1>4. CASE sdk.rounding = "up"
  <2> DEFINE x == (p + 9999) \div 10000
  <2>1. x \in Nat /\ x <= n
    OBVIOUS
  <2>2. Bytes(p, b) = x * b
    BY <1>4 DEF Bytes
  <2> HIDE DEF x
  <2> QED
    BY <2>1, <2>2, ProductGrows
<1> QED
  BY <1>1, <1>2, <1>3, <1>4, SdkTypes

\* p is the product of n frames, rounded to a microsecond.
Rounds(p, n, r) == 2 * p <= 20000 * n + r

\* Rounded to a microsecond, it carries less than a frame more, and nothing
\* more when a microsecond is less than half a byte too long.
LEMMA BytesRounded ==
  ASSUME LinkOK, NEW p \in Nat, NEW n \in Nat, NEW r \in Nat, r <= 7680,
         Rounds(p, n, r), NEW b \in Nat \ {0}, sdk.rounding # "up"
  PROVE  /\ Bytes(p, b) < n * b + b
         /\ sdk.rounding \in {"down", "nearest"} \/ r * b < 20000 => Bytes(p, b) <= n * b
<1> USE DEF Rounds
<1>1. CASE sdk.rounding = "bytes"
  <2> DEFINE x == p * b
             y == n * b
             z == r * b
             w == 7680 * b
  <2>1. x \in Nat /\ y \in Nat /\ z \in Nat /\ z <= 7680 * b
    BY Product, ProductGrows
  <2>2. 2 * x <= 20000 * y + z
    <3>1. 2 * p \in Nat /\ 20000 * n + r \in Nat
      OBVIOUS
    <3>2. (2 * p) * b <= (20000 * n + r) * b
      BY <3>1, ProductGrows
    <3>3. (2 * p) * b = 2 * (p * b) /\ (20000 * n + r) * b = 20000 * (n * b) + r * b
      OBVIOUS
    <3> QED
      BY <3>2, <3>3
  <2>3. Bytes(p, b) = x \div 10000
    BY <1>1, ByteExact DEF Bytes
  <2> HIDE DEF x, y, z
  <2>4. x \div 10000 < y + b
    BY <2>1, <2>2
  <2>5. z < 20000 => x \div 10000 <= y
    BY <2>1, <2>2
  <2> QED
    BY <1>1, <2>3, <2>4, <2>5 DEF y, z
<1>2. CASE sdk.rounding = "down"
  <2>1. p \div 10000 \in Nat /\ p \div 10000 <= n
    OBVIOUS
  <2>2. Bytes(p, b) = (p \div 10000) * b
    BY <1>2 DEF Bytes
  <2>3. Bytes(p, b) <= n * b
    BY <2>1, <2>2, ProductGrows
  <2> DEFINE y == n * b
             x == (p \div 10000) * b
  <2>4. x \in Nat /\ y \in Nat
    BY <2>1, Product
  <2> HIDE DEF y, x
  <2>5. Bytes(p, b) = x /\ x <= y
    BY <2>2, <2>3 DEF x, y
  <2>6. x < y + b
    BY <2>4, <2>5
  <2> QED
    BY <2>5, <2>6 DEF y
<1>3. CASE sdk.rounding = "nearest"
  <2> DEFINE k == (2 * p + 10000) \div 20000
  <2>1. k \in Nat /\ k <= n
    OBVIOUS
  <2>2. Bytes(p, b) = k * b
    BY <1>3 DEF Bytes
  <2> HIDE DEF k
  <2>3. Bytes(p, b) <= n * b
    BY <2>1, <2>2, ProductGrows
  <2> DEFINE y == n * b
             x == k * b
  <2>4. x \in Nat /\ y \in Nat
    BY <2>1, Product
  <2> HIDE DEF y, x
  <2>5. Bytes(p, b) = x /\ x <= y
    BY <2>2, <2>3 DEF x, y
  <2>6. x < y + b
    BY <2>4, <2>5
  <2> QED
    BY <2>5, <2>6 DEF y
<1> QED
  BY <1>1, <1>2, <1>3, SdkTypes

-----------------------------------------------------------------------------
(* Packets of a cycle. *)

Fit(us, f) == CycleBytes(us, f) <= wire - sdk.overhead

LEMMA PacketsFit ==
  ASSUME LinkOK, NEW f, Playable(f), NEW us \in Nat
  PROVE  /\ Fit(us, f) <=> CyclePackets(us, f) <= 1
         /\ CycleBytes(us, f) >= 1 => CyclePackets(us, f) >= 1
<1> DEFINE n == CycleBytes(us, f)
           r == wire - sdk.overhead
           x == n + r - 1
           q == x \div r
<1>1. n \in Nat /\ r \in Nat \ {0}
  BY Answer, SdkTypes
<1>2. CyclePackets(us, f) = q /\ (Fit(us, f) <=> n <= r)
  BY DEF CyclePackets, CeilDiv, Fit
<1> HIDE DEF n, r
<1>3. x \in Nat
  BY <1>1
<1>4. q \in Nat /\ x = q * r + (x % r) /\ x % r \in 0..(r - 1)
  <2> HIDE DEF x
  <2> QED
    BY <1>1, <1>3
<1> HIDE DEF q
<1>5. q >= 2 => q * r >= 2 * r
  BY <1>1, <1>4, ProductGrows
<1>6. q = 1 => q * r = r
  BY <1>1
<1>7. q = 0 => q * r = 0
  BY <1>1
<1> DEFINE y == q * r
<1>8. y \in Nat
  BY <1>1, <1>4, Product
<1>9. /\ n + r - 1 = y + (x % r) /\ x % r \in 0..(r - 1)
      /\ (q >= 2 => y >= 2 * r) /\ (q = 1 => y = r) /\ (q = 0 => y = 0)
  BY <1>4, <1>5, <1>6, <1>7
<1> HIDE DEF x, y
<1>10. (n <= r <=> q <= 1) /\ (n >= 1 => q >= 1)
  BY <1>1, <1>4, <1>8, <1>9
<1> QED
  BY <1>2, <1>10 DEF n

\* The bytes of a cycle from what bounds its length.
LEMMA BytesUpTo ==
  ASSUME LinkOK, NEW f, Rated(f), NEW us \in Nat, NEW n \in Nat,
         us * f.rate <= 10000 * n
  PROVE  CycleBytes(us, f) <= n * frame(f)
<1> DEFINE p == us * f.rate
           b == frame(f)
<1>1. p \in Nat /\ CycleBytes(us, f) = Bytes(p, b) /\ b \in Nat \ {0} /\ p <= 10000 * n
  BY BytesOfCycle DEF Rated, Playable
<1> HIDE DEF p, b
<1>2. Bytes(p, b) <= n * b
  BY <1>1, BytesWithin
<1> QED
  BY <1>1, <1>2 DEF b

\* The shortest cycle of all carries more than two frames.
LEMMA TwoFramesAtLeast ==
  ASSUME LinkOK, NEW f, Rated(f), NEW us \in Nat, us >= 100
  PROVE  CycleBytes(us, f) >= 2 * frame(f)
<1> DEFINE p == us * f.rate
           b == frame(f)
           r == f.rate
<1>1. p \in Nat /\ CycleBytes(us, f) = Bytes(p, b) /\ b \in Nat \ {0}
      /\ r \in Nat /\ 441 <= r
  BY BytesOfCycle DEF Rated, Playable
<1>2. 100 * r <= us * r
  <2> HIDE DEF r
  <2> QED
    BY <1>1, ProductGrows
<1>3. 20000 <= 100 * r
  <2> HIDE DEF r, b, p
  <2> QED
    BY <1>1
<1>4. p = us * r
  OBVIOUS
<1> DEFINE z == 100 * r
<1>5. z \in Nat /\ 20000 <= z /\ z <= p
  BY <1>1, <1>2, <1>3
<1> HIDE DEF p, b, r, z
<1>6. 20000 <= p
  BY <1>1, <1>5
<1>7. Bytes(20000, b) = 2 * b
  BY <1>1, BytesOfTwo
<1>8. Bytes(20000, b) <= Bytes(p, b)
  <2>1. \A k \in Nat : k <= p => Bytes(k, b) <= Bytes(p, b)
    BY <1>1, BytesGrow
  <2> QED
    BY <1>6, <2>1
<1>9. Bytes(p, b) \in Nat
  BY <1>1, BytesType
<1>10. CycleBytes(us, f) >= 2 * b
  <2> DEFINE v == Bytes(p, b)
  <2>1. v \in Nat /\ 2 * b <= v
    BY <1>7, <1>8, <1>9
  <2> HIDE DEF v
  <2>2. v >= 2 * b
    BY <1>1, <2>1
  <2> QED
    BY <1>1, <2>2 DEF v
<1> QED
  BY <1>10 DEF b

LEMMA RoomForTwo ==
  ASSUME LinkOK, NEW f, Rated(f), FitsAtAll(f)
  PROVE  2 * frame(f) <= wire - sdk.overhead /\ Fit(100, f)
<1> DEFINE n == CycleBytes(100, f)
           r == wire - sdk.overhead
           b == frame(f)
<1>0. Playable(f) /\ CyclePackets(100, f) <= 1 /\ 100 \in Nat
  BY DEF Rated, FitsAtAll
<1>1. Fit(100, f)
  <2>1. \A k \in Nat : CyclePackets(k, f) <= 1 => Fit(k, f)
    BY <1>0, PacketsFit
  <2> QED
    BY <1>0, <2>1
<1>2. n <= r
  BY <1>1 DEF Fit
<1>3. n >= 2 * b
  <2>1. \A k \in Nat : k >= 100 => CycleBytes(k, f) >= 2 * b
    BY TwoFramesAtLeast
  <2>2. 100 >= 100
    OBVIOUS
  <2> QED
    BY <1>0, <2>1, <2>2
<1>4. n \in Nat /\ r \in Nat \ {0} /\ b \in Nat \ {0}
  <2>1. \A k \in Nat : CycleBytes(k, f) \in Nat
    BY <1>0, Answer
  <2> QED
    BY <1>0, <2>1, SdkTypes DEF Playable
<1> HIDE DEF n, r, b
<1>5. 2 * b <= r
  BY <1>2, <1>3, <1>4
<1> QED
  BY <1>1, <1>5 DEF r, b

-----------------------------------------------------------------------------
(* The retries of varmax_one_packet(). *)

LEMMA CycleRounded ==
  ASSUME LinkOK, NEW f, Rated(f), NEW us \in Nat, NEW n \in Nat,
         2 * (us * f.rate) <= 20000 * n + f.rate, sdk.rounding # "up"
  PROVE  /\ CycleBytes(us, f) < n * frame(f) + frame(f)
         /\ Exact(f) => CycleBytes(us, f) <= n * frame(f)
<1> DEFINE p == us * f.rate
           b == frame(f)
           r == f.rate
<1>1. /\ p \in Nat /\ CycleBytes(us, f) = Bytes(p, b) /\ b \in Nat \ {0}
      /\ r \in Nat /\ r <= 7680
      /\ 2 * p <= 20000 * n + r
  BY BytesOfCycle DEF Rated, Playable
<1>4. Exact(f) => sdk.rounding \in {"down", "nearest"} \/ r * b < 20000
  BY DEF Exact
<1> HIDE DEF p, b, r
<1>2. /\ Bytes(p, b) < n * b + b
      /\ sdk.rounding \in {"down", "nearest"} \/ r * b < 20000 => Bytes(p, b) <= n * b
  <2>1. LinkOK /\ p \in Nat /\ n \in Nat /\ r \in Nat /\ b \in Nat \ {0} /\ sdk.rounding # "up"
    BY <1>1
  <2>2. r <= 7680 /\ Rounds(p, n, r)
    BY <1>1 DEF Rounds
  <2>3. Bytes(p, b) < n * b + b
    BY ONLY <2>1, <2>2, BytesRounded
  <2>4. sdk.rounding \in {"down", "nearest"} \/ r * b < 20000 => Bytes(p, b) <= n * b
    BY ONLY <2>1, <2>2, BytesRounded
  <2> QED
    BY <2>3, <2>4
<1>3. /\ CycleBytes(us, f) < n * b + b
      /\ Exact(f) => CycleBytes(us, f) <= n * b
  BY <1>1, <1>2, <1>4
<1> QED
  BY <1>3 DEF b

\* Fits a packet, or is less than k + 1 frames.
Good(us, k, f) == us \in Nat /\ us >= 100
                  /\ (Fit(us, f) \/ CycleBytes(us, f) < (k + 1) * frame(f))

LEMMA FitStays ==
  ASSUME LinkOK, NEW f, Rated(f), NEW us \in Nat, Fit(us, f)
  PROVE  Shrunk(us, f) = us
<1>1. CyclePackets(us, f) <= 1
  BY PacketsFit DEF Rated
<1> QED
  BY <1>1 DEF Shrunk

\* Asked for one frame less, an SDK that does not round up answers so.
LEMMA OneFrameLess ==
  ASSUME LinkOK, NEW f, Rated(f), FitsAtAll(f), sdk.rounding # "up",
         NEW us, NEW k \in Int, Good(us, k, f)
  PROVE  Good(Shrunk(us, f), k - 1, f)
<1>1. CASE Fit(us, f)
  BY <1>1, FitStays DEF Good
<1>2. CASE ~Fit(us, f)
  <2> DEFINE cs == CycleBytes(us, f)
             b == frame(f)
             r == f.rate
             room1 == wire - sdk.overhead
             j == (cs - b) \div b
             t == cycle_for(j * b, f)
  <2>1. /\ us \in Nat /\ us >= 100 /\ cs < (k + 1) * b
        /\ cs > room1 /\ room1 \in Nat /\ cs \in Nat /\ b \in Nat \ {0} /\ r \in Nat
    <3>1. us \in Nat /\ us >= 100 /\ cs < (k + 1) * b
      BY <1>2 DEF Good
    <3>2. Playable(f) /\ b \in Nat \ {0} /\ r \in Nat
      BY DEF Rated, Playable
    <3>3. cs \in Nat /\ room1 \in Nat
      BY <3>1, <3>2, Answer, SdkTypes
    <3>4. cs > room1
      <4>1. ~(cs <= room1)
        BY <1>2 DEF Fit
      <4> HIDE DEF cs, room1
      <4> QED
        BY <3>3, <4>1
    <3> QED
      BY <3>1, <3>2, <3>3, <3>4
  <2>2. 2 * b <= room1 /\ us # 100
    BY <1>2, RoomForTwo
  <2>3. CyclePackets(us, f) > 1
    <3>1. CyclePackets(us, f) \in Nat
      BY <2>1, Answer DEF Rated
    <3>2. ~(CyclePackets(us, f) <= 1)
      BY <1>2, <2>1, PacketsFit DEF Rated
    <3> QED
      BY <3>1, <3>2
  <2>4. j \in Nat /\ j >= 1 /\ j * b <= cs - b /\ cs > b
    <3> HIDE DEF cs, b, room1
    <3> DEFINE x == cs - b
    <3>1. x \in Nat /\ x > b /\ cs > b
      BY <2>1, <2>2
    <3>2. x = j * b + (x % b) /\ x % b \in 0..(b - 1) /\ j \in Nat
      <4>1. j = x \div b
        BY DEF j, x
      <4> HIDE DEF x, j
      <4> QED
        BY <2>1, <3>1, <4>1
    <3>3. j = 0 => j * b = 0
      BY <2>1
    <3> DEFINE y == j * b
    <3>4. y \in Nat /\ x = y + (x % b) /\ x % b \in 0..(b - 1) /\ (j = 0 => y = 0)
      BY <2>1, <3>2, <3>3, Product
    <3> HIDE DEF x, y, j
    <3>5. j # 0 /\ y <= x
      BY <2>1, <3>1, <3>4
    <3> QED
      BY <3>1, <3>2, <3>5 DEF x, y
  <2>5. j * b >= b /\ (j + 1) * b = j * b + b /\ (j + 1) * b <= k * b /\ (k - 1) + 1 = k
    <3> HIDE DEF cs, b, j
    <3>1. 1 * b <= j * b
      BY <2>1, <2>4, ProductGrows
    <3> DEFINE y == j * b
               z == k * b
    <3>2. y \in Nat /\ (k + 1) * b = z + b /\ (j + 1) * b = y + b /\ z \in Int
      BY <2>1, <2>4
    <3>3. y <= cs - b /\ cs < z + b
      BY <2>1, <2>4, <3>2
    <3> HIDE DEF y, z
    <3>4. y < z
      BY <2>1, <3>2, <3>3
    <3>5. j < k
      <4>1. SUFFICES ASSUME k <= j PROVE FALSE
        BY <2>4
      <4>2. CASE k \in Nat
        <5>1. k * b <= j * b
          BY <2>1, <2>4, <4>1, <4>2, ProductGrows
        <5> QED
          BY <3>2, <3>4, <5>1 DEF y, z
      <4>3. CASE k < 0
        <5>1. PICK d \in Nat : k = 0 - d
          <6>1. k = 0 - (0 - k) /\ 0 - k \in Nat
            BY <4>3
          <6> QED
            BY <6>1
        <5>2. k * b = 0 - d * b /\ d * b \in Nat
          BY <2>1, <5>1
        <5>3. z <= 0
          BY <5>2 DEF z
        <5> QED
          BY <3>2, <3>4, <5>3
      <4> QED
        BY <4>2, <4>3
    <3>6. j + 1 \in Nat /\ k \in Nat /\ j + 1 <= k
      BY <2>4, <3>5
    <3>7. (j + 1) * b <= k * b
      BY <2>1, <3>6, ProductGrows
    <3> QED
      BY <2>1, <3>1, <3>2, <3>7 DEF y
  <2>6. t \in Nat /\ t >= 100 /\ (t = 100 \/ 2 * (t * r) <= 20000 * j + r)
    <3> HIDE DEF j
    <3>1. \A n \in Nat : LET u == cycle_for(n * frame(f), f)
                         IN  /\ u \in Nat /\ u >= 100
                             /\ u = 100 \/ (u * r \in Nat /\ 2 * (u * r) <= 20000 * n + r)
      BY WholeTime DEF Rated
    <3> QED
      BY <2>4, <3>1
  <2>7. Shrunk(us, f) = IF t >= us THEN us - 1 ELSE t
    <3>1. WholeFrames(cs - b, b) = j * b
      BY DEF WholeFrames
    <3>2. ~(CyclePackets(us, f) <= 1)
      <4>1. CyclePackets(us, f) \in Nat
        BY <2>1, Answer DEF Rated
      <4> QED
        BY <2>3, <4>1
    <3>3. ~(cs <= b) /\ ~(j * b < b) /\ ~(us <= 100)
      <4> DEFINE y == j * b
      <4>1. y >= b /\ cs > b /\ us >= 100 /\ us # 100 /\ us \in Nat
            /\ y \in Nat /\ cs \in Nat /\ b \in Nat
        BY <2>1, <2>2, <2>4, <2>5, Product
      <4> HIDE DEF y, cs, b
      <4>2. ~(cs <= b) /\ ~(y < b) /\ ~(us <= 100)
        BY <4>1
      <4> QED
        BY <4>2 DEF y
    <3> HIDE DEF t
    <3>4. Shrunk(us, f)
            = IF CyclePackets(us, f) <= 1 \/ cs <= b \/ j * b < b \/ (t >= us /\ us <= 100)
              THEN us ELSE IF t >= us THEN us - 1 ELSE t
      BY <3>1 DEF Shrunk, t
    <3> QED
      BY <3>2, <3>3, <3>4
  <2> DEFINE u == IF t >= us THEN us - 1 ELSE t
  <2>8. u \in Nat /\ u >= 100 /\ u <= t
    <3> HIDE DEF t
    <3> QED
      BY <2>1, <2>2, <2>6
  <2>9. u # 100 => 2 * (u * r) <= 20000 * j + r
    <3> HIDE DEF u, t, r, j
    <3>1. u # 100 => t # 100
      BY <2>6, <2>8
    <3>2. u * r <= t * r /\ u * r \in Nat /\ t * r \in Nat
      BY <2>1, <2>6, <2>8, ProductGrows, Product
    <3> DEFINE x == u * r
               y == t * r
    <3>3. x \in Nat /\ y \in Nat /\ x <= y /\ (u # 100 => 2 * y <= 20000 * j + r)
      BY <2>6, <3>1, <3>2
    <3> HIDE DEF x, y
    <3>4. u # 100 => 2 * x <= 20000 * j + r
      BY <2>1, <2>4, <3>3
    <3> QED
      BY <3>4 DEF x
  <2>10. u # 100 => CycleBytes(u, f) < j * b + b
    <3> HIDE DEF u, j
    <3> QED
      BY <2>4, <2>8, <2>9, CycleRounded
  <2>11. u = 100 => Fit(u, f)
    BY RoomForTwo
  <2>12. CycleBytes(u, f) \in Nat
    <3> HIDE DEF u
    <3> QED
      BY <2>8, Answer DEF Rated
  <2>13. u # 100 => CycleBytes(u, f) < ((k - 1) + 1) * b
    <3> DEFINE n == CycleBytes(u, f)
               y == j * b
               z == k * b
    <3>1. n \in Nat /\ y \in Nat /\ y + b <= z /\ (u # 100 => n < y + b) /\ z \in Int
          /\ b \in Nat
      BY <2>1, <2>4, <2>5, <2>10, <2>12, Product
    <3> HIDE DEF n, y, z, b
    <3>2. u # 100 => n < z
      BY <3>1
    <3>3. ((k - 1) + 1) * b = z
      BY <2>5 DEF z
    <3> QED
      BY <3>2, <3>3 DEF n
  <2> HIDE DEF u
  <2> QED
    BY <2>7, <2>8, <2>11, <2>13 DEF Good, u
<1> QED
  BY <1>1, <1>2

\* Eight frames less in eight retries.
LEMMA EightFramesLess ==
  ASSUME LinkOK, NEW f, Rated(f), FitsAtAll(f), sdk.rounding # "up",
         NEW us, NEW k \in Int, Good(us, k, f)
  PROVE  Good(varmax_one_packet(us, f), k - 8, f)
<1>1. \A u, i : i \in Int /\ Good(u, i, f) => Good(Shrunk(u, f), i - 1, f)
  BY OneFrameLess
<1>2. ASSUME NEW u, NEW i \in Int, Good(u, i, f) PROVE Good(Shrunk4(u, f), i - 4, f)
  <2>1. Good(Shrunk(u, f), i - 1, f)
    BY <1>1, <1>2
  <2>2. Good(Shrunk(Shrunk(u, f), f), i - 1 - 1, f)
    BY <1>1, <2>1
  <2>3. Good(Shrunk(Shrunk(Shrunk(u, f), f), f), i - 1 - 1 - 1, f)
    BY <1>1, <2>2
  <2>4. Good(Shrunk(Shrunk(Shrunk(Shrunk(u, f), f), f), f), i - 1 - 1 - 1 - 1, f)
    BY <1>1, <2>3
  <2>5. i - 1 - 1 - 1 - 1 = i - 4
    OBVIOUS
  <2> QED
    BY <2>4, <2>5 DEF Shrunk4, Shrunk2
<1>3. Good(Shrunk4(us, f), k - 4, f)
  BY <1>2
<1>4. Good(Shrunk4(Shrunk4(us, f), f), k - 4 - 4, f)
  BY <1>2, <1>3
<1>5. k - 4 - 4 = k - 8
  OBVIOUS
<1> QED
  BY <1>4, <1>5 DEF varmax_one_packet

LEMMA FitStaysAll ==
  ASSUME LinkOK, NEW f, Rated(f), NEW us \in Nat, Fit(us, f)
  PROVE  varmax_one_packet(us, f) = us
<1>1. Shrunk(us, f) = us
  BY FitStays
<1> QED
  BY <1>1 DEF varmax_one_packet, Shrunk4, Shrunk2

\* An SDK that rounds up takes a frame more than asked for; the first retry
\* asks for the same frames and gets a microsecond less.
LEMMA RoundedUpRetry ==
  ASSUME LinkOK, NEW f, Rated(f), FitsAtAll(f), sdk.rounding = "up",
         NEW n \in Nat, n * frame(f) <= wire - sdk.overhead,
         NEW us, us = cycle_for(n * frame(f), f), ~Fit(us, f)
  PROVE  Shrunk(us, f) \in Nat /\ Shrunk(us, f) >= 100 /\ Fit(Shrunk(us, f), f)
<1> DEFINE cs == CycleBytes(us, f)
           b == frame(f)
           r == f.rate
           room1 == wire - sdk.overhead
           p == us * r
<1>1. b \in Nat \ {0} /\ r \in Nat /\ r >= 441 /\ r <= 7680 /\ room1 \in Nat
  BY SdkTypes DEF Rated, Playable
<1>2. us \in Nat /\ us >= 100 /\ us # 100 /\ p \in Nat /\ Rounds(p, n, r)
  <2>1. us # 100
    BY RoomForTwo
  <2> QED
    BY <2>1, WholeTime DEF Rated, Rounds
<1>3. cs \in Nat /\ cs > room1 /\ 2 * b <= room1
  <2>1. cs \in Nat
    BY <1>2, Answer DEF Rated
  <2>2. ~(cs <= room1) /\ 2 * b <= room1
    BY RoomForTwo DEF Fit
  <2> HIDE DEF cs, room1
  <2> QED
    BY <1>1, <2>1, <2>2
<1>4. PICK k \in Nat : k <= n + 1 /\ cs = k * b
  <2> DEFINE q == (p + 9999) \div 10000
  <2>1. cs = Bytes(p, b)
    BY <1>2, BytesOfCycle DEF Rated
  <2> HIDE DEF b, r, p, cs
  <2>2. q \in Nat /\ q <= n + 1
    BY <1>1, <1>2 DEF Rounds
  <2>3. Bytes(p, b) = q * b
    BY DEF Bytes
  <2> HIDE DEF q
  <2> QED
    BY <2>1, <2>2, <2>3
<1>5. k = n + 1
  <2> HIDE DEF b, cs, room1
  <2>1. n * b <= room1
    BY DEF b, room1
  <2>2. k <= n => k * b <= n * b
    BY <1>1, ProductGrows
  <2> DEFINE x == k * b
             y == n * b
  <2>3. x \in Nat /\ y \in Nat /\ (k <= n => x <= y) /\ y <= room1 /\ x > room1
    BY <1>1, <1>3, <1>4, <2>1, <2>2
  <2> HIDE DEF x, y
  <2>4. ~(k <= n)
    BY <1>1, <2>3
  <2> QED
    BY <1>4, <2>4
<1>6. cs - b = n * b /\ n * b \in Nat /\ cs > b /\ n * b >= b
  <2> HIDE DEF b, cs, room1
  <2> DEFINE y == n * b
  <2>1. (n + 1) * b = y + b /\ y \in Nat
    BY <1>1
  <2>2. cs = y + b
    BY <1>4, <1>5, <2>1
  <2> HIDE DEF y
  <2>3. cs - b = y /\ cs > b /\ y >= b
    BY <1>1, <1>3, <2>1, <2>2
  <2> QED
    BY <2>1, <2>3 DEF y
<1>7. WholeFrames(cs - b, b) = n * b
  <2> HIDE DEF b, cs
  <2>1. (n * b) \div b = n
    BY <1>1
  <2> QED
    BY <1>6, <2>1 DEF WholeFrames
<1>8. Shrunk(us, f) = us - 1
  <2>1. ~(CyclePackets(us, f) <= 1)
    BY <1>2, PacketsFit DEF Rated
  <2>2. ~(us <= 100) /\ us >= us
    BY <1>2
  <2>3. ~(cs <= b) /\ ~(n * b < b)
    <3> DEFINE y == n * b
    <3>1. y \in Nat /\ cs > b /\ y >= b
      BY <1>6
    <3> HIDE DEF b, cs, y
    <3>2. ~(cs <= b) /\ ~(y < b)
      BY <1>1, <1>3, <3>1
    <3> QED
      BY <3>2 DEF y
  <2>4. cycle_for(n * b, f) = us
    OBVIOUS
  <2>5. Shrunk(us, f)
          = IF CyclePackets(us, f) <= 1 \/ cs <= b \/ n * b < b \/ (us >= us /\ us <= 100)
            THEN us ELSE IF us >= us THEN us - 1 ELSE us
    BY <1>7, <2>4 DEF Shrunk
  <2> QED
    BY <2>1, <2>2, <2>3, <2>5
<1>9. us - 1 \in Nat /\ us - 1 >= 100
  BY <1>2
<1>10. (us - 1) * r <= 10000 * n
  <2> HIDE DEF r
  <2>1. (us - 1) * r = us * r - r
    BY <1>1, <1>2
  <2> HIDE DEF p
  <2>2. p - r <= 10000 * n
    BY <1>1, <1>2 DEF Rounds
  <2>3. us * r = p
    BY DEF p
  <2> QED
    BY <2>1, <2>2, <2>3
<1>11. CycleBytes(us - 1, f) <= n * b
  <2> DEFINE u == us - 1
  <2>1. u \in Nat /\ u * f.rate <= 10000 * n
    BY <1>9, <1>10
  <2> HIDE DEF u
  <2>2. CycleBytes(u, f) <= n * frame(f)
    BY <2>1, BytesUpTo
  <2> QED
    BY <2>2 DEF u
<1>12. Fit(us - 1, f)
  <2> DEFINE c == CycleBytes(us - 1, f)
             y == n * b
  <2>1. c \in Nat
    BY <1>9, Answer DEF Rated
  <2>2. c <= y /\ y <= room1 /\ y \in Nat
    BY <1>6, <1>11
  <2> HIDE DEF c, y, room1
  <2>3. c <= room1
    BY <1>1, <2>1, <2>2
  <2> QED
    BY <2>3 DEF c, room1, Fit
<1> QED
  BY <1>8, <1>9, <1>12

\* varmax_one_packet() from a cycle of n frames.
LEMMA RetriesFit ==
  ASSUME LinkOK, NEW f, Rated(f), FitsAtAll(f), NEW n \in Nat,
         sdk.rounding # "up" => n * frame(f) <= wire - sdk.overhead + 7 * frame(f),
         sdk.rounding = "up" => n * frame(f) <= wire - sdk.overhead,
         NEW us, us = cycle_for(n * frame(f), f)
  PROVE  /\ varmax_one_packet(us, f) \in Nat /\ varmax_one_packet(us, f) >= 100
         /\ Fit(varmax_one_packet(us, f), f)
<1>0. us \in Nat /\ us >= 100
  BY WholeTime DEF Rated
<1>1. CASE Fit(us, f)
  BY <1>0, <1>1, FitStaysAll
<1>2. CASE ~Fit(us, f) /\ sdk.rounding = "up"
  <2> DEFINE v == Shrunk(us, f)
  <2>1. v \in Nat /\ v >= 100 /\ Fit(v, f)
    BY <1>2, RoundedUpRetry
  <2>2. Shrunk(v, f) = v
    BY <2>1, FitStays
  <2> HIDE DEF v
  <2>3. varmax_one_packet(us, f) = v
    BY <2>2 DEF varmax_one_packet, Shrunk4, Shrunk2, v
  <2> QED
    BY <2>1, <2>3
<1>3. CASE ~Fit(us, f) /\ sdk.rounding # "up"
  <2> DEFINE b == frame(f)
             r == f.rate
             room1 == wire - sdk.overhead
             v == varmax_one_packet(us, f)
             c == CycleBytes(v, f)
  <2>1. b \in Nat \ {0} /\ room1 \in Nat
    BY SdkTypes DEF Rated, Playable
  <2>2. us # 100
    BY <1>3, RoomForTwo
  <2>3. CycleBytes(us, f) < n * b + b
    <3>1. 2 * (us * r) <= 20000 * n + r
      BY <2>2, WholeTime DEF Rated
    <3> QED
      BY <1>0, <1>3, <3>1, CycleRounded
  <2>4. (n + 1) * b = n * b + b
    <3> HIDE DEF b
    <3> QED
      BY <2>1
  <2>5. Good(us, n, f)
    BY <1>0, <2>3, <2>4 DEF Good
  <2>6. Good(v, n - 8, f)
    BY <1>3, <2>5, EightFramesLess
  <2>7. v \in Nat /\ v >= 100 /\ (Fit(v, f) \/ c < ((n - 8) + 1) * b)
    BY <2>6 DEF Good
  <2>8. c \in Nat
    <3> HIDE DEF v
    <3> QED
      BY <2>7, Answer DEF Rated
  <2>9. c < ((n - 8) + 1) * b => c <= room1
    <3> DEFINE y == n * b
    <3>1. y \in Nat /\ y <= room1 + 7 * b
      BY <1>3, <2>1
    <3> HIDE DEF b, c, room1
    <3>2. ((n - 8) + 1) * b = y - 7 * b
      BY <2>1
    <3> HIDE DEF y
    <3>3. c < y - 7 * b => c <= room1
      BY <2>1, <2>8, <3>1
    <3> QED
      BY <3>2, <3>3
  <2> QED
    BY <2>7, <2>9 DEF Fit
<1> QED
  BY <1>1, <1>2, <1>3

-----------------------------------------------------------------------------
(* The cycles of the modes auto and autofix. *)

LEMMA PayloadFrames ==
  ASSUME NEW f, Playable(f), NEW m \in Nat, NEW oh \in Nat, oh < m
  PROVE  \E n \in Nat : /\ n >= 1 /\ payload_for(m, oh, f) = n * frame(f)
                        /\ n = 1 \/ n * frame(f) <= m - oh
<1> DEFINE b == frame(f)
           x == m - oh
           q == x \div b
           y == q * b
<1>1. b \in Nat \ {0} /\ x \in Nat
  BY DEF Playable
<1>2. payload_for(m, oh, f) = Max({b, y})
  <2>1. m > oh
    OBVIOUS
  <2> QED
    BY <2>1 DEF payload_for, WholeFrames
<1> HIDE DEF b, x
<1>3. q \in Nat /\ x = y + (x % b) /\ x % b \in 0..(b - 1)
  BY <1>1
<1>4. y \in Nat /\ (q = 0 => y = 0)
  BY <1>1, <1>3
<1>5. y <= x
  <2> HIDE DEF y
  <2> QED
    BY <1>1, <1>3, <1>4
<1>6. Max({b, y}) \in {b, y} /\ Max({b, y}) >= b
  <2> HIDE DEF y
  <2> QED
    BY <1>1, <1>4, MaxOfTwo
<1>7. CASE Max({b, y}) = b
  <2>1. b = 1 * b
    BY <1>1
  <2>2. payload_for(m, oh, f) = 1 * b
    BY <1>2, <1>7, <2>1
  <2> QED
    BY <2>2 DEF b
<1>8. CASE Max({b, y}) = y
  <2>1. q >= 1
    <3>1. y >= b
      BY <1>6, <1>8
    <3> HIDE DEF y, q
    <3> QED
      BY <1>1, <1>3, <1>4, <3>1
  <2>2. payload_for(m, oh, f) = q * b /\ q * b <= x
    BY <1>2, <1>5, <1>8
  <2> HIDE DEF q
  <2> QED
    BY <1>3, <2>1, <2>2 DEF b, x
<1> QED
  BY <1>6, <1>7, <1>8

\* What the open worker knows when it applies a mode.
Known == /\ LinkOK /\ wire = mtu /\ opts \in Options
         /\ overhead \in 0..199 /\ overhead < mtu
         /\ overhead > 0 => overhead >= sdk.overhead

LEMMA AskedFrames ==
  ASSUME Known, NEW f, Rated(f), FitsAtAll(f)
  PROVE  \E n \in Nat :
           /\ varmax_cycle(f) = cycle_for(n * frame(f), f)
           /\ OverheadCovered => n * frame(f) <= wire - sdk.overhead
           /\ sdk.overhead <= default_overhead_guess(mtu) + 7 * frame(f)
                => n * frame(f) <= wire - sdk.overhead + 7 * frame(f)
<1> DEFINE b == frame(f)
           room1 == wire - sdk.overhead
           m == mtu
           g == default_overhead_guess(mtu)
           o == sdk.overhead
           k == overhead
           oh == IF k \in 1..199 THEN k ELSE g
<1>1. LinkOK /\ b \in Nat \ {0} /\ 2 * b <= room1
  BY RoomForTwo DEF Known, Rated, Playable
<1>2. m \in Nat /\ m >= 64 /\ o \in Nat /\ room1 = m - o
  BY <1>1, SdkTypes DEF Known
<1>3. g \in {6, 22}
  BY DEF default_overhead_guess
<1>4. k \in 0..199 /\ k < m /\ (k > 0 => k >= o)
  BY DEF Known
<1>5. varmax_cycle(f) = cycle_for(payload_for(m, oh, f), f)
  BY DEF varmax_cycle, calculateCycleTime
<1>6. OverheadCovered <=> k > 0 \/ o <= g
  BY DEF OverheadCovered
<1> HIDE DEF b, room1, m, g, o, k
<1>7. oh \in Nat /\ oh < m
  BY <1>2, <1>3, <1>4
<1>8. (k > 0 \/ o <= g) => oh >= o
  BY <1>2, <1>3, <1>4
<1>9. o <= g + 7 * b => m - oh <= room1 + 7 * b
  BY <1>1, <1>2, <1>3, <1>4
<1> HIDE DEF oh
<1>10. PICK n \in Nat : /\ n >= 1 /\ payload_for(m, oh, f) = n * frame(f)
                        /\ n = 1 \/ n * frame(f) <= m - oh
  BY <1>2, <1>7, PayloadFrames DEF Rated
<1>11. varmax_cycle(f) = cycle_for(n * b, f)
  BY <1>5, <1>10 DEF b
<1> DEFINE y == n * b
<1>12. y \in Nat /\ (n = 1 => y = b) /\ (n = 1 \/ y <= m - oh)
  BY <1>1, <1>10 DEF b
<1> HIDE DEF y
<1>13. y <= room1 + 7 * b \/ (y <= m - oh /\ n # 1)
  <2>1. n = 1 => y <= room1 + 7 * b
    BY <1>1, <1>2, <1>12
  <2> QED
    BY <1>12, <2>1
<1>14. (k > 0 \/ o <= g) => y <= room1
  <2>1. n = 1 => y <= room1
    BY <1>1, <1>2, <1>12
  <2>2. (k > 0 \/ o <= g) => m - oh <= room1
    BY <1>2, <1>7, <1>8
  <2>3. (k > 0 \/ o <= g) /\ n # 1 => y <= room1
    BY <1>2, <1>7, <1>12, <2>2
  <2> QED
    BY <2>1, <2>3
<1>15. o <= g + 7 * b => y <= room1 + 7 * b
  BY <1>1, <1>2, <1>7, <1>9, <1>12, <1>13
<1> QED
  BY <1>6, <1>11, <1>14, <1>15 DEF y, b, room1, o, g

\* A cycle of the user's below 97 % of n frames carries no more than those.
LEMMA UserCycle ==
  ASSUME LinkOK, NEW f, Rated(f), FitsAtAll(f), NEW n \in Nat, NEW v,
         v = cycle_for(n * frame(f), f), NEW c \in Nat, c >= 333, c <= (v * 97) \div 100
  PROVE  CycleBytes(c, f) <= n * frame(f)
<1> DEFINE r == f.rate
<1>1. v \in Nat /\ (v = 100 \/ (v * r \in Nat /\ 2 * (v * r) <= 20000 * n + r)) /\ r \in Nat
  BY WholeTime DEF Rated, Playable
<1>2. v # 100 /\ c + 1 <= v
  BY <1>1
<1> HIDE DEF r
<1>3. (c + 1) * r <= v * r
  BY <1>1, <1>2, ProductGrows
<1>4. (c + 1) * r = c * r + r
  BY <1>1
<1> DEFINE p == c * r
           x == v * r
<1>5. p \in Nat /\ x \in Nat /\ p + r <= x /\ 2 * x <= 20000 * n + r
  BY <1>1, <1>2, <1>3, <1>4, Product
<1> HIDE DEF p, x
<1>6. p <= 10000 * n
  BY <1>1, <1>5
<1> QED
  BY <1>6, BytesUpTo DEF p, r

LEMMA AutoFits ==
  ASSUME Known, NEW f \in Formats, FitsAtAll(f),
         IF Retried(f) THEN RetriesSuffice(f) ELSE OneShotSuffices(f)
  PROVE  auto_cycle(f) \in Nat /\ auto_cycle(f) >= 100 /\ Fit(auto_cycle(f), f)
<1> DEFINE b == frame(f)
           room1 == wire - sdk.overhead
           v == varmax_cycle(f)
           c == opts.cycle
<1>1. Rated(f) /\ Playable(f) /\ LinkOK
  BY FormatsRated DEF Rated, Known
<1>2. PICK n \in Nat :
        /\ v = cycle_for(n * b, f)
        /\ OverheadCovered => n * b <= room1
        /\ sdk.overhead <= default_overhead_guess(mtu) + 7 * b => n * b <= room1 + 7 * b
  BY <1>1, AskedFrames
<1>3. b \in Nat \ {0} /\ room1 \in Nat /\ v \in Nat /\ v >= 100
  BY <1>1, <1>2, SdkTypes, WholeTime DEF Playable
<1>4. c \in Nat /\ (c = 0 \/ c >= 333)
  <2>1. \A o \in Options : o.cycle \in Nat
    BY TransferAssumption
  <2>2. \A o \in Options : o.cycle = 0 \/ 333 <= o.cycle
    BY TransferAssumption
  <2>3. c \in Nat /\ (c = 0 \/ 333 <= c)
    BY <2>1, <2>2 DEF Known
  <2> HIDE DEF c
  <2> QED
    BY <2>3
<1>5. safe_max(f) = (v * 97) \div 100 /\ safe_max(f) \in Nat
  <2>1. safe_max(f) = (v * 97) \div 100
    BY DEF safe_max
  <2> HIDE DEF v
  <2>2. (v * 97) \div 100 \in Nat
    BY <1>3
  <2> QED
    BY <2>1, <2>2
<1>6. CASE Retried(f)
  <2>1. auto_cycle(f) = varmax_one_packet(v, f)
    <3> DEFINE s == safe_max(f)
    <3>1. c > 0 => c > s
      BY <1>6 DEF Retried
    <3>2. ~(c > 0) => ~LowBitrate(f) /\ ~f.dsd
      BY <1>6 DEF Retried
    <3>3. auto_cycle(f) = IF c > 0 THEN IF c <= s THEN c ELSE varmax_one_packet(v, f)
                          ELSE IF LowBitrate(f) \/ f.dsd THEN v ELSE varmax_one_packet(v, f)
      BY DEF auto_cycle
    <3>4. s \in Nat
      BY <1>5
    <3> HIDE DEF s, c, v
    <3>5. c > s => ~(c <= s)
      BY <1>4, <3>4
    <3> QED
      BY <3>1, <3>2, <3>3, <3>5
  <2>2. RetriesSuffice(f)
    BY <1>6
  <2>3. sdk.rounding = "up" => n * b <= room1
    BY <1>2, <2>2 DEF RetriesSuffice
  <2>4. n * b <= room1 + 7 * b
    <3> DEFINE y == n * b
    <3>1. y \in Nat
      BY <1>3, Product
    <3>2. y <= room1 \/ y <= room1 + 7 * b
      BY <1>2, <2>2 DEF RetriesSuffice
    <3> HIDE DEF y, room1, b
    <3>3. y <= room1 + 7 * b
      BY <1>3, <3>1, <3>2
    <3> QED
      BY <3>3 DEF y
  <2> HIDE DEF v
  <2> QED
    BY <1>1, <1>2, <2>1, <2>3, <2>4, RetriesFit
<1>7. CASE ~Retried(f)
  <2>1. n * b <= room1 /\ (c > 0 \/ Exact(f))
    BY <1>2, <1>7 DEF OneShotSuffices
  <2>2. ASSUME NEW u \in Nat, CycleBytes(u, f) <= n * b PROVE Fit(u, f)
    <3> DEFINE x == CycleBytes(u, f)
               y == n * b
    <3>1. x \in Nat /\ y \in Nat
      BY <1>1, <1>3, Answer, Product
    <3>2. x <= y /\ y <= room1
      BY <2>1, <2>2
    <3> HIDE DEF x, y, room1
    <3>3. x <= room1
      BY <1>3, <3>1, <3>2
    <3> QED
      BY <3>3 DEF x, room1, Fit
  <2>3. CASE c > 0
    <3>1. c <= (v * 97) \div 100
      <4> DEFINE s == (v * 97) \div 100
      <4>1. ~(c > s) /\ s \in Nat
        BY <1>5, <1>7, <2>3 DEF Retried
      <4> HIDE DEF s, c
      <4>2. c <= s
        BY <1>4, <4>1
      <4> QED
        BY <4>2 DEF s
    <3>2. auto_cycle(f) = c
      BY <1>5, <2>3, <3>1 DEF auto_cycle
    <3>3. c \in Nat /\ c >= 333 /\ c >= 100
      <4> HIDE DEF c
      <4> QED
        BY <1>4, <2>3
    <3> HIDE DEF c, v
    <3>4. CycleBytes(c, f) <= n * b
      BY <1>1, <1>2, <3>1, <3>3, UserCycle
    <3> QED
      BY <2>2, <3>2, <3>3, <3>4
  <2>4. CASE ~(c > 0)
    <3>1. auto_cycle(f) = v
      BY <1>7, <2>4 DEF auto_cycle, Retried
    <3>2. Fit(v, f)
      <4>1. CASE v = 100
        BY <1>1, <4>1, RoomForTwo
      <4>2. CASE v # 100
        <5>1. 2 * (v * f.rate) <= 20000 * n + f.rate
          BY <1>1, <1>2, <4>2, WholeTime
        <5>2. Exact(f) /\ sdk.rounding # "up"
          BY <2>1, <2>4 DEF Exact
        <5> HIDE DEF v
        <5>3. CycleBytes(v, f) <= n * b
          BY <1>1, <1>3, <5>1, <5>2, CycleRounded
        <5> QED
          BY <1>3, <2>2, <5>3
      <4> QED
        BY <4>1, <4>2
    <3> QED
      BY <1>3, <3>1, <3>2
  <2> QED
    BY <2>3, <2>4
<1> QED
  BY <1>6, <1>7

-----------------------------------------------------------------------------
(* One packet per cycle, from the open's steps. *)

LEMMA CalibratedBelow == ASSUME LinkOK PROVE calibrated < mtu
<1> DEFINE Left(b) == mtu - probe_max_one_packet_payload(ProbeFormat(b))
           L == Leftovers
           m == mtu
<1>1. m \in Nat /\ m >= 64
  BY SdkTypes
<1>2. \A x \in L : x \in 1..199 /\ x < m
  <2> SUFFICES ASSUME NEW x \in L PROVE x \in 1..199 /\ x < m
    OBVIOUS
  <2>1. PICK p \in Payloads : x = m - p /\ x \in 1..199
    BY DEF Leftovers
  <2>2. PICK b \in sdk.probes : p = probe_max_one_packet_payload(ProbeFormat(b)) /\ p # 0
    BY DEF Payloads
  <2>3. p \in Nat
    <3>1. b \in {16, 24, 32}
      BY SdkTypes
    <3> QED
      BY <2>2, <3>1, ProbesPlayable, ProbeFits
  <2> HIDE DEF m
  <2>4. x < m
    BY <1>1, <2>1, <2>2, <2>3
  <2> QED
    BY <2>1, <2>4
<1>3. CASE L = {}
  <2>1. calibrated = 0
    BY <1>3 DEF calibrated
  <2> HIDE DEF m
  <2>2. 0 < m
    BY <1>1
  <2> QED
    BY <2>1, <2>2 DEF m
<1>4. CASE L # {}
  <2>1. L \subseteq {Left(16), Left(24), Left(32)}
    <3> HIDE DEF Left
    <3>1. \A x \in L : \E b \in sdk.probes : x = Left(b)
      BY DEF Leftovers, Payloads, Left
    <3> HIDE DEF L
    <3> QED
      BY <3>1, SdkTypes
  <2>2. Left(16) \in Int /\ Left(24) \in Int /\ Left(32) \in Int
    <3> SUFFICES ASSUME NEW b \in {16, 24, 32} PROVE Left(b) \in Int
      OBVIOUS
    <3> DEFINE n == probe_max_one_packet_payload(ProbeFormat(b))
    <3>1. n \in Nat
      BY ProbesPlayable, ProbeFits
    <3> HIDE DEF n, m
    <3>2. m - n \in Int
      BY <1>1, <3>1
    <3> QED
      BY <3>2 DEF m, n
  <2>3. Min(L) \in L
    <3> DEFINE a == Left(16)
               b == Left(24)
               c == Left(32)
    <3>1. a \in Int /\ b \in Int /\ c \in Int /\ L \in SUBSET {a, b, c}
      BY <2>1, <2>2
    <3> HIDE DEF a, b, c, L
    <3> QED
      BY <1>4, <3>1, MinOfThree
  <2>4. calibrated = Min(L)
    BY <1>4, Zenon DEF calibrated
  <2> QED
    BY <1>2, <2>3, <2>4
<1> QED
  BY <1>3, <1>4

\* A cycle without a byte makes no packet.
LEMMA NoBytes ==
  ASSUME LinkOK, NEW f, Playable(f), NEW us \in Nat, CyclePackets(us, f) = 1
  PROVE  CycleBytes(us, f) >= 1
<1> DEFINE n == CycleBytes(us, f)
           r == wire - sdk.overhead
<1>1. n \in Nat /\ r \in Nat \ {0} /\ (n + r - 1) \div r = 1
  BY Answer, SdkTypes DEF CyclePackets, CeilDiv
<1> HIDE DEF n, r
<1>2. n # 0
  <2>1. SUFFICES ASSUME n = 0 PROVE FALSE
    OBVIOUS
  <2>2. n + r - 1 = r - 1 /\ r - 1 \in 0..(r - 1)
    BY <1>1, <2>1
  <2>3. (r - 1) \div r = 0
    BY <1>1
  <2> QED
    BY <1>1, <2>2, <2>3
<1>3. n >= 1
  BY <1>1, <1>2
<1> QED
  BY <1>3 DEF n

\* No overhead kept takes a packet up, and no format outlives its open.
Below == overhead < mtu /\ \A m \in Mtus : cache[m] < m
Unapplied == stage \notin {"savingTightened", "applied", "open"} => applied = Nothing

LEMMA BelowInit == ModeInit => Below
<1> SUFFICES ASSUME ModeInit PROVE Below
  OBVIOUS
<1>1. \A m \in Mtus : m \in Nat /\ m >= 64
  BY TransferAssumption
<1>2. \A m \in Mtus : 0 < m
  BY <1>1
<1>3. mtu \in Mtus /\ overhead = 0 /\ cache = [m \in Mtus |-> 0]
  BY DEF ModeInit
<1> QED
  BY <1>2, <1>3 DEF Below

LEMMA BelowNext == Stages /\ FileFollows /\ Below /\ [ModeNext]_allVars => Below'
<1> SUFFICES ASSUME Stages, FileFollows, Below, [ModeNext]_allVars PROVE Below'
  OBVIOUS
<1>0. \A m \in Mtus : m \in Nat /\ 0 < m
  <2>1. \A m \in Mtus : m \in Nat /\ m >= 64
    BY TransferAssumption
  <2> QED
    BY <2>1
<1>1. CASE UNCHANGED allVars
  BY <1>1 DEF Below, allVars, modeVars, link
<1>2. CASE Start
  BY <1>2 DEF Start, Stages, Below, load_inferred_overhead
<1>3. CASE Resolve
  <2>1. PICK sink \in Mtus \cup {0} :
          /\ mtu' = resolve_active_mtu(sink)
          /\ overhead' = overhead_for(resolve_active_mtu(sink))
    BY <1>3 DEF Resolve
  <2>2. mtu' \in Mtus /\ overhead' = cache[mtu'] /\ cache' = cache
    BY <1>3, <2>1, SinkMtu DEF Stages, Resolve, overhead_for, load_inferred_overhead
  <2> QED
    BY <2>2 DEF Below
<1>4. CASE Calibrate
  <2>1. calibrated < mtu
    BY CalibratedBelow DEF Stages, LinkOK
  <2>2. overhead' = calibrated /\ cache' \in {cache, Truncated(mtu)} /\ mtu' = mtu
    BY <1>4 DEF Calibrate, link
  <2> QED
    BY <1>0, <2>1, <2>2 DEF Stages, Below, Truncated
<1>5. CASE SaveCalibration \/ SaveTightened
  BY <1>5 DEF Stages, Below, SaveCalibration, SaveTightened, Saved, link
<1>6. ASSUME NEW f \in Formats, Apply(f) PROVE Below'
  <2> DEFINE a == Configured(effective_cycle(f), f)
  <2>1. /\ overhead' = IF tightens(a) THEN mtu - a.size ELSE overhead
        /\ cache' \in {cache, Truncated(mtu)} /\ mtu' = mtu
    BY <1>6 DEF Apply, link
  <2>2. tightens(a) => a.size \in Nat /\ a.size >= 1
    <3> DEFINE us == effective_cycle(f)
    <3>1. LinkOK /\ Playable(f) /\ us \in Nat
      BY FormatsPlayable, EffectiveTypes DEF Stages, LinkOK
    <3>2. a.size = CycleBytes(us, f) /\ a.packets = CyclePackets(us, f)
      BY DEF Configured
    <3> HIDE DEF us, a
    <3> QED
      BY <3>1, <3>2, NoBytes, Answer DEF tightens
  <2> DEFINE n == a.size
             m == mtu
  <2>3. m \in Nat /\ (tightens(a) => n \in Nat /\ n >= 1)
    BY <1>0, <2>2 DEF Stages
  <2> HIDE DEF n, m
  <2>4. tightens(a) => m - n < m
    BY <2>3
  <2> HIDE DEF a
  <2>5. overhead' < mtu'
    BY <2>1, <2>4 DEF Below, m, n
  <2> QED
    BY <1>0, <2>1, <2>5 DEF Stages, Below, Truncated
<1>7. CASE Configure \/ Cycle \/ Close \/ Die
  BY <1>7 DEF Below, Configure, Cycle, Close, Die, modeVars, link
<1> QED
  BY <1>1, <1>2, <1>3, <1>4, <1>5, <1>6, <1>7 DEF ModeNext

LEMMA UnappliedNext == Unapplied /\ [ModeNext]_allVars => Unapplied'
<1> SUFFICES ASSUME Unapplied, [ModeNext]_allVars PROVE Unapplied'
  OBVIOUS
<1>1. ASSUME NEW f \in Formats, Apply(f) PROVE Unapplied'
  BY <1>1 DEF Apply, Unapplied
<1>2. CASE Start \/ Resolve \/ Close \/ Die
  BY <1>2 DEF Start, Resolve, Close, Die, Unapplied
<1>3. CASE Calibrate \/ SaveCalibration \/ SaveTightened \/ Configure
  BY <1>3 DEF Calibrate, SaveCalibration, SaveTightened, Configure, Unapplied
<1>4. CASE Cycle \/ UNCHANGED allVars
  BY <1>4 DEF Cycle, modeVars, allVars, Unapplied
<1> QED
  BY <1>1, <1>2, <1>3, <1>4 DEF ModeNext

\* The premises of OnePacketPerCycle for a format.
Suits(f) == /\ opts.mode \in {"auto", "autofix"} /\ opts.limit = 0 /\ FitsAtAll(f)
            /\ IF Retried(f) THEN RetriesSuffice(f) ELSE OneShotSuffices(f)

LEMMA SuitedOnePacket ==
  ASSUME Known, NEW f \in Formats, Suits(f)
  PROVE  Configured(effective_cycle(f), f).packets = 1
<1> DEFINE us == auto_cycle(f)
           n == CyclePackets(us, f)
           c == CycleBytes(us, f)
<1>1. effective_cycle(f) = us
  BY DEF Suits, effective_cycle
<1>2. us \in Nat /\ us >= 100 /\ Fit(us, f)
  BY AutoFits DEF Suits
<1>3. Rated(f) /\ Playable(f) /\ LinkOK
  BY FormatsRated DEF Rated, Known
<1>4. c >= 2 * frame(f) /\ frame(f) \in Nat \ {0} /\ c \in Nat /\ n \in Nat
  <2> HIDE DEF us
  <2> QED
    BY <1>2, <1>3, TwoFramesAtLeast, Answer DEF Playable
<1>5. c >= 1
  <2> DEFINE b == frame(f)
  <2>1. c >= 2 * b /\ b \in Nat \ {0} /\ c \in Nat
    BY <1>4
  <2> HIDE DEF b, c
  <2> QED
    BY <2>1
<1>6. n <= 1 /\ n >= 1
  <2> HIDE DEF us
  <2> QED
    BY <1>2, <1>3, <1>5, PacketsFit
<1>7. n = 1
  <2> HIDE DEF n
  <2> QED
    BY <1>4, <1>6
<1> QED
  BY <1>1, <1>7 DEF Configured

LEMMA AppliedOnce ==
  ASSUME Known, Stages, NEW f \in Formats, Apply(f)
  PROVE  OnePacketPerCycle'
<1> DEFINE a == Configured(effective_cycle(f), f)
<1>1. /\ applied' = a /\ overhead' = IF tightens(a) THEN mtu - a.size ELSE overhead
      /\ sdk' = sdk /\ opts' = opts /\ mtu' = mtu /\ wire' = wire
  BY DEF Apply, process, link
<1>2. a.f = f
  BY DEF Configured
<1>3. CASE a.packets = 1
  <2> HIDE DEF a
  <2> QED
    BY <1>1, <1>3 DEF OnePacketPerCycle
<1>4. CASE a.packets # 1
  <2>1. ~Suits(f)
    BY <1>4, SuitedOnePacket
  <2> HIDE DEF a
  <2>2. overhead' = overhead /\ applied'.f = f
    BY <1>1, <1>2, <1>4 DEF tightens
  <2>3. FitsAtAll(applied.f)' <=> FitsAtAll(f)
    BY <1>1, <2>2, SMT DEF FitsAtAll, CyclePackets, CycleBytes
  <2>4. Retried(applied.f)' <=> Retried(f)
    BY <1>1, <2>2, SMT DEF Retried, safe_max, varmax_cycle, calculateCycleTime
  <2>5. RetriesSuffice(applied.f)' <=> RetriesSuffice(f)
    BY <1>1, <2>2, SMT DEF RetriesSuffice, OverheadCovered
  <2>6. OneShotSuffices(applied.f)' <=> OneShotSuffices(f)
    BY <1>1, <2>2, SMT DEF OneShotSuffices, OverheadCovered, Exact
  <2> QED
    BY <1>1, <2>1, <2>3, <2>4, <2>5, <2>6, Zenon DEF Suits, OnePacketPerCycle
<1> QED
  BY <1>3, <1>4

LEMMA OnePacketNext ==
  ASSUME ~SetSinkMayFail
  PROVE  Stages /\ Safe /\ Below /\ Unapplied /\ OnePacketPerCycle /\ [ModeNext]_allVars
           => OnePacketPerCycle'
<1> SUFFICES ASSUME Stages, Safe, Below, Unapplied, OnePacketPerCycle, [ModeNext]_allVars
             PROVE  OnePacketPerCycle'
  OBVIOUS
<1>1. ASSUME NEW f \in Formats, Apply(f) PROVE OnePacketPerCycle'
  BY <1>1, AppliedOnce DEF Known, Stages, Safe, Below, LinkOK
<1>2. CASE Start \/ Resolve \/ Close \/ Die
  <2>1. applied' = Nothing
    BY <1>2 DEF Start, Resolve, Close, Die
  <2> QED
    BY <2>1 DEF OnePacketPerCycle
<1>3. CASE Calibrate \/ SaveCalibration
  <2>1. applied' = Nothing
    BY <1>3 DEF Calibrate, SaveCalibration, Unapplied
  <2> QED
    BY <2>1 DEF OnePacketPerCycle
<1>4. CASE SaveTightened \/ Configure \/ Cycle \/ UNCHANGED allVars
  <2>1. /\ applied' = applied /\ overhead' = overhead /\ sdk' = sdk /\ opts' = opts
        /\ mtu' = mtu /\ wire' = wire
    BY <1>4 DEF SaveTightened, Configure, Cycle, modeVars, allVars, process, link
  <2>2. FitsAtAll(applied.f)' <=> FitsAtAll(applied.f)
    BY <2>1, SMT DEF FitsAtAll, CyclePackets, CycleBytes
  <2>3. Retried(applied.f)' <=> Retried(applied.f)
    BY <2>1, SMT DEF Retried, safe_max, varmax_cycle, calculateCycleTime
  <2>4. RetriesSuffice(applied.f)' <=> RetriesSuffice(applied.f)
    BY <2>1, SMT DEF RetriesSuffice, OverheadCovered
  <2>5. OneShotSuffices(applied.f)' <=> OneShotSuffices(applied.f)
    BY <2>1, SMT DEF OneShotSuffices, OverheadCovered, Exact
  <2> QED
    BY <2>1, <2>2, <2>3, <2>4, <2>5, Zenon DEF OnePacketPerCycle
<1> QED
  BY <1>1, <1>2, <1>3, <1>4 DEF ModeNext

-----------------------------------------------------------------------------
(* Results. *)

THEOREM ModeInvariant == ModeSpec => [](Stages /\ FileFollows /\ IInv)
<1>1. ModeInit => Stages /\ FileFollows /\ IInv
  BY StagesInit, InitHolds DEF ModeInit
<1>2. Stages /\ FileFollows /\ IInv /\ [ModeNext]_allVars => (Stages /\ FileFollows /\ IInv)'
  BY StagesNext, CycleNext
<1> QED
  BY <1>1, <1>2, PTL DEF ModeSpec

\* What is kept as an overhead is one, whatever the SDK answers.
THEOREM ModeTypeCorrect == ModeSpec => []ModeTypeOK
<1>1. Stages /\ FileFollows /\ IInv => ModeTypeOK
  BY DEF Stages, ModeTypeOK, IInv
<1> QED
  BY <1>1, ModeInvariant, PTL

\* save_inferred_overhead(), calibrate_overhead_if_missing(): as long as
\* setSink() does not fail, no overhead on file is less than the real one.
THEOREM OverheadSafeHolds == ASSUME ~SetSinkMayFail PROVE ModeSpec => []OverheadSafe
<1>1. ModeInit => Safe
  BY DEF ModeInit, Safe
<1>2. Stages /\ FileFollows /\ Safe /\ [ModeNext]_allVars => Safe'
  BY SafeNext
<1>3. Safe => OverheadSafe
  BY DEF Safe, OverheadSafe
<1> QED
  BY <1>1, <1>2, <1>3, ModeInvariant, PTL DEF ModeSpec

\* apply_transfer_mode(): in auto and autofix a cycle is one packet, as long
\* as setSink() does not fail and the retries can do it.
THEOREM OnePacketHolds == ASSUME ~SetSinkMayFail PROVE ModeSpec => []OnePacketPerCycle
<1> DEFINE I == Stages /\ FileFollows /\ Safe /\ Below /\ Unapplied /\ OnePacketPerCycle
<1>1. ModeInit => I
  BY StagesInit, BelowInit DEF ModeInit, Safe, Unapplied, OnePacketPerCycle
<1>2. I /\ [ModeNext]_allVars => I'
  BY StagesNext, SafeNext, BelowNext, UnappliedNext, OnePacketNext
<1> QED
  BY <1>1, <1>2, PTL DEF ModeSpec

\* apply_transfer_mode(): a file with an overhead is rewritten only to make
\* it smaller, and only that of the MTU in use.
THEOREM CacheTightens == ModeSpec => CacheOnlyTightens
<1>1. Stages /\ FileFollows /\ [ModeNext]_allVars => [Tightens]_allVars
  BY TighteningStep
<1> QED
  BY <1>1, ModeInvariant, PTL DEF ModeSpec, CacheOnlyTightens, Tightens

\* getNewStream() after any sequence of opens: less than a frame is owed.
THEOREM ModeAverageHolds == ModeSpec => []AverageKept
<1>1. IInv => AverageKept
  BY InvariantAverage
<1> QED
  BY <1>1, ModeInvariant, PTL

\* Whatever the SDK makes of the cycle, it fits m_streamData.
THEOREM ModeCyclesFit == ModeSpec => []ExtraFrameFits
<1>1. IInv => ExtraFrameFits
  BY DEF IInv
<1> QED
  BY <1>1, ModeInvariant, PTL
=============================================================================
