------------------------- MODULE FormatSizingProofs -------------------------
(***************************************************************************)
(* FormatSizing for every header the program accepts and every setting of  *)
(* the command line: the types, gates within reach of the ring, a sink     *)
(* that plays at the speed of the wire, and two sizings that agree.        *)
(***************************************************************************)
EXTENDS FormatSizing, TLAPS

-----------------------------------------------------------------------------
(* Quotients. *)

LEMMA Quotient ==
  ASSUME NEW x \in Nat, NEW b \in Nat \ {0}
  PROVE  /\ x \div b \in Nat /\ x % b \in 0..(b - 1)
         /\ x = (x \div b) * b + (x % b)
OBVIOUS

LEMMA Product == ASSUME NEW x \in Nat, NEW y \in Nat PROVE x * y \in Nat
OBVIOUS

LEMMA ProductGrows ==
  ASSUME NEW x \in Nat, NEW y \in Nat, x <= y, NEW b \in Nat
  PROVE  x * b <= y * b
<1>1. PICK d \in Nat : y = x + d
  <2>1. y = x + (y - x) /\ y - x \in Nat
    OBVIOUS
  <2> QED
    BY <2>1
<1>2. y * b = x * b + d * b /\ d * b \in Nat /\ x * b \in Nat
  BY <1>1
<1> QED
  BY <1>2

LEMMA QuotientGrows ==
  ASSUME NEW x \in Nat, NEW y \in Nat, x <= y, NEW b \in Nat \ {0}
  PROVE  x \div b <= y \div b
<1> DEFINE p == x \div b
           q == y \div b
<1>1. /\ p \in Nat /\ q \in Nat
      /\ x = p * b + (x % b) /\ x % b \in 0..(b - 1)
      /\ y = q * b + (y % b) /\ y % b \in 0..(b - 1)
  BY Quotient
<1> HIDE DEF p, q
<1>2. SUFFICES ASSUME q + 1 <= p PROVE FALSE
  BY <1>1 DEF p, q
<1>3. (q + 1) * b <= p * b
  BY <1>1, <1>2, ProductGrows
<1>4. (q + 1) * b = q * b + b /\ q * b \in Nat /\ p * b \in Nat
  BY <1>1
<1> QED
  BY <1>1, <1>3, <1>4

(* Truncating to whole frames keeps the order and takes less than a frame. *)
LEMMA Truncation ==
  ASSUME NEW x \in Nat, NEW b \in Nat \ {0}
  PROVE  /\ WholeFrames(x, b) \in Nat /\ WholeFrames(x, b) <= x
         /\ x - b < WholeFrames(x, b)
<1> DEFINE w == (x \div b) * b
<1>1. x \div b \in Nat /\ x % b \in 0..(b - 1) /\ x = w + (x % b)
  BY Quotient
<1>2. w \in Nat
  BY <1>1, Product
<1> HIDE DEF w
<1>3. w <= x /\ x - b < w
  BY <1>1, <1>2
<1> QED
  BY <1>2, <1>3 DEF WholeFrames, w

LEMMA TruncationGrows ==
  ASSUME NEW x \in Nat, NEW y \in Nat, x <= y, NEW b \in Nat \ {0}
  PROVE  WholeFrames(x, b) <= WholeFrames(y, b)
<1>1. x \div b \in Nat /\ y \div b \in Nat
  BY Quotient
<1> QED
  BY <1>1, QuotientGrows, ProductGrows DEF WholeFrames

(* The two parts of Spanning() are the quotient of the whole product, which *)
(* the code forms in 64 bits.                                              *)
LEMMA SpanningExact ==
  ASSUME NEW n \in Nat, NEW ms \in Nat
  PROVE  Spanning(n, ms) = (n * ms) \div 1000
<1> DEFINE q == n \div 1000
           r == n % 1000
           a == q * ms
           c == r * ms
<1>1. q \in Nat /\ r \in Nat /\ n = 1000 * q + r
  OBVIOUS
<1>2. Spanning(n, ms) = a + c \div 1000
  BY DEF Spanning
<1> HIDE DEF q, r
<1>3. a \in Nat /\ c \in Nat /\ n * ms = 1000 * a + c
  <2>1. n * ms = (1000 * q) * ms + r * ms
    BY <1>1
  <2>2. (1000 * q) * ms = 1000 * (q * ms)
    BY <1>1
  <2> QED
    BY <1>1, <2>1, <2>2, Product
<1> HIDE DEF a, c
<1>4. (1000 * a + c) \div 1000 = a + c \div 1000
  BY <1>3
<1> QED
  BY <1>2, <1>3, <1>4

(* What a duration spans, as two inequalities. *)
LEMMA Spans ==
  ASSUME NEW n \in Nat, NEW ms \in Nat, NEW p \in Nat, p = n * ms
  PROVE  Spanning(n, ms) \in Nat /\ 1000 * Spanning(n, ms) <= p /\ p < 1000 * Spanning(n, ms) + 1000
<1>1. Spanning(n, ms) = p \div 1000
  BY SpanningExact
<1> QED
  BY <1>1


-----------------------------------------------------------------------------
(* Powers of two. *)

Powers == {2, 4, 8, 16, 32, 64, 128, 256, 512, 1024, 2048, 4096, 8192, 16384, 32768, 65536,
           131072, 262144, 524288, 1048576, 2097152, 4194304, 8388608, 16777216, 33554432,
           67108864, 134217728, 268435456}
Octaves == {2^k : k \in 1..30}

LEMMA Power ==
  ASSUME NEW k \in 1..30
  PROVE  /\ 2^k \in Powers \cup {536870912, 1073741824}
         /\ k <= 28 => 2^k \in Powers
<1>1. k = 1 => 2^k = 2
  OBVIOUS
<1>2. k = 2 => 2^k = 4
  OBVIOUS
<1>3. k = 3 => 2^k = 8
  OBVIOUS
<1>4. k = 4 => 2^k = 16
  OBVIOUS
<1>5. k = 5 => 2^k = 32
  OBVIOUS
<1>6. k = 6 => 2^k = 64
  OBVIOUS
<1>7. k = 7 => 2^k = 128
  OBVIOUS
<1>8. k = 8 => 2^k = 256
  OBVIOUS
<1>9. k = 9 => 2^k = 512
  OBVIOUS
<1>10. k = 10 => 2^k = 1024
  OBVIOUS
<1>11. k = 11 => 2^k = 2048
  OBVIOUS
<1>12. k = 12 => 2^k = 4096
  OBVIOUS
<1>13. k = 13 => 2^k = 8192
  OBVIOUS
<1>14. k = 14 => 2^k = 16384
  OBVIOUS
<1>15. k = 15 => 2^k = 32768
  OBVIOUS
<1>16. k = 16 => 2^k = 65536
  OBVIOUS
<1>17. k = 17 => 2^k = 131072
  OBVIOUS
<1>18. k = 18 => 2^k = 262144
  OBVIOUS
<1>19. k = 19 => 2^k = 524288
  OBVIOUS
<1>20. k = 20 => 2^k = 1048576
  OBVIOUS
<1>21. k = 21 => 2^k = 2097152
  OBVIOUS
<1>22. k = 22 => 2^k = 4194304
  OBVIOUS
<1>23. k = 23 => 2^k = 8388608
  OBVIOUS
<1>24. k = 24 => 2^k = 16777216
  OBVIOUS
<1>25. k = 25 => 2^k = 33554432
  OBVIOUS
<1>26. k = 26 => 2^k = 67108864
  OBVIOUS
<1>27. k = 27 => 2^k = 134217728
  OBVIOUS
<1>28. k = 28 => 2^k = 268435456
  OBVIOUS
<1>29. k = 29 => 2^k = 536870912
  OBVIOUS
<1>30. k = 30 => 2^k = 1073741824
  OBVIOUS
<1> QED
  BY <1>1, <1>2, <1>3, <1>4, <1>5, <1>6, <1>7, <1>8, <1>9, <1>10, <1>11, <1>12, <1>13,
     <1>14, <1>15, <1>16, <1>17, <1>18, <1>19, <1>20, <1>21, <1>22, <1>23, <1>24, <1>25,
     <1>26, <1>27, <1>28, <1>29, <1>30, SMT
     DEF Powers

LEMMA PowersReached ==
  ASSUME NEW S, \A k \in 1..28 : 2^k \in S
  PROVE  Powers \subseteq S
<1>1. /\ 2^1 \in S /\ 2^2 \in S /\ 2^3 \in S /\ 2^4 \in S /\ 2^5 \in S /\ 2^6 \in S /\ 2^7 \in S
      /\ 2^8 \in S /\ 2^9 \in S /\ 2^10 \in S /\ 2^11 \in S /\ 2^12 \in S /\ 2^13 \in S
      /\ 2^14 \in S /\ 2^15 \in S /\ 2^16 \in S /\ 2^17 \in S /\ 2^18 \in S /\ 2^19 \in S
      /\ 2^20 \in S /\ 2^21 \in S /\ 2^22 \in S /\ 2^23 \in S /\ 2^24 \in S /\ 2^25 \in S
      /\ 2^26 \in S /\ 2^27 \in S /\ 2^28 \in S
  OBVIOUS
<1> QED
  BY <1>1, SMT DEF Powers

LEMMA PowersOfTwo ==
  /\ Octaves \subseteq Powers \cup {536870912, 1073741824}
  /\ Powers \subseteq Octaves
  /\ {2^k : k \in 1..28} = Powers
<1>1. \A k \in 1..28 : k \in 1..30 /\ k <= 28
  OBVIOUS
<1>2. Powers \subseteq Octaves
  <2>1. \A k \in 1..28 : 2^k \in Octaves
    <3> SUFFICES ASSUME NEW k \in 1..28 PROVE \E n \in 1..30 : 2^k = 2^n
      BY Zenon DEF Octaves
    <3>1. k \in 1..30
      OBVIOUS
    <3> QED
      BY <3>1, Zenon
  <2> QED
    BY <2>1, PowersReached, SMT
<1>3. {2^k : k \in 1..28} = Powers
  <2> DEFINE S == {2^k : k \in 1..28}
  <2>1. S \subseteq Powers
    BY <1>1, Power, SMT
  <2>2. \A k \in 1..28 : 2^k \in S
    OBVIOUS
  <2> HIDE DEF S
  <2>3. Powers \subseteq S
    BY <2>2, PowersReached, SMT
  <2> QED
    BY <2>1, <2>3, SMT DEF S
<1> QED
  BY <1>2, <1>3, Power, SMT DEF Octaves

(* The least number of a set of thirty that is not below v. *)
LEMMA RoundedUp ==
  ASSUME NEW v \in Nat, v <= RING_BYTES_MAX
  PROVE  roundUpPow2(v) \in Powers /\ roundUpPow2(v) >= v
<1> DEFINE S == {p \in Octaves : p >= v}
<1>1. \E p \in S : \A q \in S : p <= q
  BY PowersOfTwo, SMTT(40) DEF Powers, RING_BYTES_MAX
<1>2. Min(S) \in S /\ \A q \in S : Min(S) <= q
  BY <1>1, SMT DEF Min
<1>3. 268435456 \in S
  BY PowersOfTwo, SMT DEF Powers, RING_BYTES_MAX
<1>4. roundUpPow2(v) = Min(S)
  BY SMT DEF roundUpPow2, Octaves
<1> DEFINE m == Min(S)
<1>5. m \in Octaves /\ m >= v /\ m <= 268435456
  BY <1>2, <1>3, SMT
<1> HIDE DEF m, S
<1>6. m \in Powers
  BY <1>5, PowersOfTwo, SMT
<1> QED
  BY <1>4, <1>5, <1>6, SMT DEF m

LEMMA MinOfTwo ==
  ASSUME NEW a \in Int, NEW b \in Int, a <= b
  PROVE  Min({a, b}) = a
<1>1. \E x \in {a, b} : \A y \in {a, b} : x <= y
  OBVIOUS
<1>2. Min({a, b}) \in {a, b} /\ \A y \in {a, b} : Min({a, b}) <= y
  BY <1>1, SMT DEF Min
<1> QED
  BY <1>2, SMT

-----------------------------------------------------------------------------
(* Headers. *)

FrameSizes == {2, 3, 4, 6, 8, 12, 16, 18, 24, 32, 48, 64}
bits_for(h) == IF h.size = 1 THEN 32 ELSE h.size

(* A rate validate_format() lets through is its base times a power of two. *)
LEMMA RateSplit ==
  ASSUME NEW s \in Nat, rate_base(s) # 0
  PROVE  /\ rate_base(s) \in {44100, 48000} /\ rate_mult(s) \in Nat
         /\ s = rate_base(s) * rate_mult(s)
<1>1. CASE s % 44100 = 0
  <2>1. rate_base(s) = 44100 /\ rate_mult(s) = s \div 44100
    BY <1>1, SMT DEF rate_base, rate_mult
  <2>2. s = 44100 * (s \div 44100) /\ s \div 44100 \in Nat
    BY <1>1, SMT
  <2> QED
    BY <2>1, <2>2, SMT
<1>2. CASE s % 44100 # 0 /\ s % 48000 = 0
  <2>1. rate_base(s) = 48000 /\ rate_mult(s) = s \div 48000
    BY <1>2, SMT DEF rate_base, rate_mult
  <2>2. s = 48000 * (s \div 48000) /\ s \div 48000 \in Nat
    BY <1>2, SMT
  <2> QED
    BY <2>1, <2>2, SMT
<1> QED
  BY <1>1, <1>2, SMT DEF rate_base

LEMMA AcceptedFields ==
  ASSUME NEW h \in Accepted
  PROVE  /\ h.ch \in {1, 2, 4, 6, 8, 16} /\ h.size \in {1, 16, 24, 32}
         /\ h.layout \in {"packed", "padded"}
         /\ sample_rate(h) \in Nat /\ rate_base(sample_rate(h)) # 0
         /\ rate_mult(sample_rate(h)) \in {1, 2, 4, 8, 16}
         /\ h.size = 1 => rate_mult(sample_rate(h)) \in {1, 2, 4, 8}
<1>1. /\ h.base \in {44100, 48000} /\ h.mult \in 0..4095 /\ h.size \in 0..255
      /\ h.layout \in {"packed", "padded"} /\ validate_format(h)
  <2>1. h \in Headers /\ validate_format(h)
    BY Zenon DEF Accepted
  <2>2. h \in [base : {44100, 48000}, mult : Multipliers, size : SampleSizes,
               ch : Channels, layout : {"packed", "padded"}]
    BY <2>1, SMT DEF Headers
  <2>3. /\ h.base \in {44100, 48000} /\ h.mult \in Multipliers /\ h.size \in SampleSizes
        /\ h.layout \in {"packed", "padded"}
    BY <2>2, SMT
  <2>4. \A x \in Multipliers : x \in 0..4095
    BY SizingAssumption, SMT
  <2>5. \A x \in SampleSizes : x \in 0..255
    BY SizingAssumption, SMT
  <2>6. h.mult \in 0..4095 /\ h.size \in 0..255
    BY <2>3, <2>4, <2>5, SMT
  <2> QED
    BY <2>1, <2>3, <2>6, SMT
<1>2. h.ch \in {1, 2, 4, 6, 8, 16}
  BY <1>1, SMT DEF validate_format, channel_ids
<1>3. sample_rate(h) \in Nat
  <2> DEFINE x == h.base
             y == h.mult
  <2>1. x \in {44100, 48000} /\ y \in 0..4095
    BY <1>1, SMT
  <2> HIDE DEF x, y
  <2>2. x * y \in Nat
    BY <2>1, SMT
  <2> QED
    BY <2>2, SMT DEF sample_rate, x, y
<1>4. h.size # 8
  <2> SUFFICES ASSUME h.size = 8 PROVE FALSE
    OBVIOUS
  <2>1. bytes_per_sample(h) = 0
    BY SMT DEF bytes_per_sample
  <2>2. bytes_per_sample(h) * h.ch \in 1..PARTIAL_FRAME_MAX
    BY <1>1, SMT DEF validate_format, src_bpf
  <2> QED
    BY <1>2, <2>1, <2>2, SMT DEF PARTIAL_FRAME_MAX
<1>5. /\ rate_base(sample_rate(h)) # 0
      /\ IF h.size = 1 THEN rate_mult(sample_rate(h)) \in {1, 2, 4, 8}
         ELSE h.size \in {8, 16, 24, 32} /\ rate_mult(sample_rate(h)) \in {1, 2, 4, 8, 16}
  BY <1>1, SMT DEF validate_format, dsd_mults, pcm_sizes, rate_mults
<1> QED
  BY <1>1, <1>2, <1>3, <1>4, <1>5, SMT

(* What the header says of the queue is what the worker reads. *)
LEMMA FrameOfHeader ==
  ASSUME NEW h \in Accepted
  PROVE  queue_bpf(h) \in FrameSizes /\ queue_bpf(h) = h.ch * (bits_for(h) \div 8)
<1>1. h.ch \in {1, 2, 4, 6, 8, 16} /\ h.size \in {1, 16, 24, 32}
  BY AcceptedFields
<1>2. CASE h.size = 16
  <2>1. bytes_per_sample(h) = 2 /\ bits_for(h) \div 8 = 2
    BY <1>2, SMT DEF bytes_per_sample, bits_for
  <2> QED
    BY <1>1, <1>2, <2>1, SMT DEF queue_bpf, src_bpf, FrameSizes
<1>3. CASE h.size = 24
  <2>1. bits_for(h) \div 8 = 3
    BY <1>3, SMT DEF bits_for
  <2> QED
    BY <1>1, <1>3, <2>1, SMT DEF queue_bpf, src_bpf, FrameSizes
<1>4. CASE h.size \in {1, 32}
  <2>1. bytes_per_sample(h) = 4 /\ bits_for(h) \div 8 = 4
    BY <1>4, SMT DEF bytes_per_sample, bits_for
  <2> QED
    BY <1>1, <1>4, <2>1, SMT DEF queue_bpf, src_bpf, FrameSizes
<1> QED
  BY <1>1, <1>2, <1>3, <1>4, SMT

LEMMA RateOfHeader ==
  ASSUME NEW h \in Accepted
  PROVE  \E base \in {44100, 48000}, m \in {1, 2, 4, 8, 16} : container_rate(h) = base * m
<1> DEFINE s == sample_rate(h)
           base == rate_base(s)
           m == rate_mult(s)
<1>1. /\ s \in Nat /\ base # 0 /\ m \in {1, 2, 4, 8, 16}
      /\ h.size = 1 => m \in {1, 2, 4, 8}
  BY AcceptedFields
<1>2. base \in {44100, 48000} /\ s = base * m
  BY <1>1, RateSplit
<1>3. container_rate(h) = IF h.size = 1 THEN 2 * s ELSE s
  BY SMT DEF container_rate
<1> HIDE DEF s, base, m
<1>4. CASE h.size = 1
  <2>1. 2 * m \in {2, 4, 8, 16} /\ container_rate(h) = base * (2 * m)
    BY <1>1, <1>2, <1>3, <1>4, SMT
  <2> QED
    BY <1>2, <2>1, SMT
<1>5. CASE h.size # 1
  BY <1>1, <1>2, <1>3, <1>5, SMT
<1> QED
  BY <1>4, <1>5

(* What the sink is told to play is what the queue holds, a second of it a *)
(* second.                                                                 *)
LEMMA SpeedOfHeader ==
  ASSUME NEW h \in Accepted
  PROVE  sink_speed(h) = container_rate(h) * queue_bpf(h)
<1> DEFINE s == sample_rate(h)
           base == rate_base(s)
           m == rate_mult(s)
           c == h.ch
           y == bits_for(h) \div 8
<1>1. s \in Nat /\ s = base * m /\ base \in Nat /\ m \in Nat
  BY AcceptedFields, RateSplit, SMT
<1>2. c \in Nat /\ h.size \in {1, 16, 24, 32} /\ y \in {2, 3, 4} /\ queue_bpf(h) = c * y
  BY AcceptedFields, FrameOfHeader, SMT DEF bits_for
<1>3. CASE h.size = 1
  <2>1. sink_speed(h) = s * 8 * c /\ container_rate(h) = 2 * s /\ y = 4
    BY <1>3, SMT DEF sink_speed, container_rate, bits_for
  <2> HIDE DEF s, c, y
  <2>2. (2 * s) * (c * 4) = s * 8 * c
    BY <1>1, <1>2, SMT
  <2> QED
    BY <1>2, <2>1, <2>2, SMT
<1>4. CASE h.size # 1
  <2>1. sink_speed(h) = base * m * c * y /\ container_rate(h) = s
    BY <1>4, SMT DEF sink_speed, container_rate, bits_for
  <2> HIDE DEF s, base, m, c, y
  <2>2. base * m * c * y = s * (c * y)
    BY <1>1, <1>2, SMT
  <2> QED
    BY <1>2, <2>1, <2>2, SMT
<1> QED
  BY <1>3, <1>4
-----------------------------------------------------------------------------
(* Bytes, from the rate and the frame. *)

bytes_per_second(h) == container_rate(h) * queue_bpf(h)

LEMMA Pace ==
  ASSUME NEW h \in Accepted
  PROVE  /\ queue_bpf(h) \in FrameSizes
         /\ bytes_per_second(h) \in Nat
         /\ 44100 * queue_bpf(h) <= bytes_per_second(h) /\ bytes_per_second(h) <= 49152000
<1> DEFINE b == queue_bpf(h)
<1>1. b \in FrameSizes
  BY FrameOfHeader
<1>2. PICK base \in {44100, 48000}, m \in {1, 2, 4, 8, 16} : container_rate(h) = base * m
  BY RateOfHeader
<1> DEFINE r == container_rate(h)
<1>3. r \in Nat /\ 44100 <= r /\ r <= 768000
  BY <1>2, SMT
<1> HIDE DEF r, b
<1>4. r * b \in Nat /\ 44100 * b <= r * b /\ r * b <= 768000 * b
  <2>1. b \in Nat
    BY <1>1, SMT DEF FrameSizes
  <2> QED
    BY <1>3, <2>1, ProductGrows, SMT
<1>5. 768000 * b <= 49152000
  BY <1>1, SMT DEF FrameSizes
<1>6. r * b <= 49152000
  BY <1>1, <1>4, <1>5, SMT DEF FrameSizes
<1> QED
  BY <1>1, <1>4, <1>6, SMT DEF bytes_per_second, r, b

(* A longer duration spans no less. *)
LEMMA SpanningGrows ==
  ASSUME NEW n \in Nat, NEW x \in Nat, NEW y \in Nat, x <= y
  PROVE  /\ Spanning(n, x) \in Nat /\ Spanning(n, y) \in Nat
         /\ Spanning(n, x) <= Spanning(n, y)
<1>1. x * n <= y * n
  BY ProductGrows
<1>2. n * x \in Nat /\ n * y \in Nat /\ n * x <= n * y
  BY <1>1
<1> DEFINE p == n * x
           q == n * y
<1>3. Spanning(n, x) = p \div 1000 /\ Spanning(n, y) = q \div 1000
  BY SpanningExact
<1> HIDE DEF p, q
<1>4. p \in Nat /\ q \in Nat /\ p <= q
  BY <1>2 DEF p, q
<1>5. p \div 1000 \in Nat /\ q \div 1000 \in Nat /\ p \div 1000 <= q \div 1000
  BY <1>4, QuotientGrows
<1> QED
  BY <1>3, <1>5

LEMMA SpannedType ==
  ASSUME NEW n \in Nat, NEW ms \in Nat
  PROVE  Spanning(n, ms) \in Nat
<1> DEFINE p == n * ms
<1>1. p \in Nat
  BY Product
<1>2. Spanning(n, ms) = p \div 1000
  BY SpanningExact
<1> HIDE DEF p
<1> QED
  BY <1>1, <1>2

(* The shortest ring, 50 ms, is over two thousand frames; the longest stays *)
(* below the cap, which therefore never takes hold.                        *)
LEMMA Asked ==
  ASSUME NEW h \in Accepted, NEW ms \in Nat, 50 <= ms, ms <= 5000
  PROVE  /\ Spanning(bytes_per_second(h), ms) \in Nat
         /\ 2200 * queue_bpf(h) <= Spanning(bytes_per_second(h), ms)
         /\ Spanning(bytes_per_second(h), ms) <= RING_BYTES_MAX
<1> DEFINE n == bytes_per_second(h)
           b == queue_bpf(h)
           s == Spanning(n, ms)
           p == n * ms
<1>1. n \in Nat /\ b \in FrameSizes /\ 44100 * b <= n /\ n <= 49152000
  BY Pace
<1>2. ms \in Nat /\ 50 <= ms /\ ms <= 5000
  BY SMT
<1> HIDE DEF n, b
<1>3. p \in Nat /\ s \in Nat /\ 1000 * s <= p /\ p < 1000 * s + 1000
  <2>1. n \in Nat /\ ms \in Nat /\ p \in Nat /\ p = n * ms
    BY <1>1, <1>2
  <2> HIDE DEF p
  <2>2. s \in Nat
    BY <2>1, SpannedType
  <2>3. 1000 * s <= p
    BY <2>1, Spans
  <2>4. p < 1000 * s + 1000
    BY <2>1, Spans
  <2> QED
    BY <2>1, <2>2, <2>3, <2>4
<1>4. 50 * n <= p /\ p <= 5000 * n
  <2>1. 50 * n <= ms * n /\ ms * n <= 5000 * n
    BY <1>1, <1>2, ProductGrows
  <2> QED
    BY <1>1, <1>2, <2>1, SMT
<1> HIDE DEF s, p
<1>5. 2200 * b <= s /\ s <= 268435456
  BY <1>1, <1>3, <1>4, SMT DEF FrameSizes
<1> QED
  BY <1>3, <1>5, SMT DEF n, b, s, RING_BYTES_MAX

capacity_for(v) == roundUpPow2(Min({v, RING_BYTES_MAX}))

LEMMA Capacity ==
  ASSUME NEW v \in Nat, v <= RING_BYTES_MAX
  PROVE  capacity_for(v) \in Powers /\ v <= capacity_for(v)
<1>1. Min({v, RING_BYTES_MAX}) = v
  <2>1. RING_BYTES_MAX \in Int
    BY SMT DEF RING_BYTES_MAX
  <2> QED
    BY <2>1, MinOfTwo, SMT
<1> QED
  BY <1>1, RoundedUp, SMT DEF capacity_for

-----------------------------------------------------------------------------
(* A gate no longer than the ring is within what the ring can hold. *)

(* No power of two is a whole number of milliseconds of a 44.1 kHz family. *)
FullRing(M, cap, ms) == 10 * cap <= 441 * M * ms /\ 441 * M * ms < 10 * cap + 10
LargePowers == {p \in Powers : p >= 4096}

LEMMA NeverFull ==
  ASSUME NEW cap \in LargePowers, NEW ms \in Nat, ms <= 5000,
         NEW M \in {2, 4, 8, 16, 32, 64, 128, 256, 512, 1024}
  PROVE  ~FullRing(M, cap, ms)
<1>1. M = 2 => ~FullRing(M, cap, ms)
  BY SMT DEF LargePowers, Powers, FullRing
<1>2. M = 4 => ~FullRing(M, cap, ms)
  BY SMT DEF LargePowers, Powers, FullRing
<1>3. M = 8 => ~FullRing(M, cap, ms)
  BY SMT DEF LargePowers, Powers, FullRing
<1>4. M = 16 => ~FullRing(M, cap, ms)
  BY SMT DEF LargePowers, Powers, FullRing
<1>5. M = 32 => ~FullRing(M, cap, ms)
  BY SMT DEF LargePowers, Powers, FullRing
<1>6. M = 64 => ~FullRing(M, cap, ms)
  BY SMT DEF LargePowers, Powers, FullRing
<1>7. M = 128 => ~FullRing(M, cap, ms)
  BY SMT DEF LargePowers, Powers, FullRing
<1>8. M = 256 => ~FullRing(M, cap, ms)
  BY SMT DEF LargePowers, Powers, FullRing
<1>9. M = 512 => ~FullRing(M, cap, ms)
  BY SMT DEF LargePowers, Powers, FullRing
<1>10. M = 1024 => ~FullRing(M, cap, ms)
  BY SMT DEF LargePowers, Powers, FullRing
<1> QED
  BY <1>1, <1>2, <1>3, <1>4, <1>5, <1>6, <1>7, <1>8, <1>9, <1>10, SMT

(* A frame of three samples' bytes or channels never divides a power of two. *)
LEMMA LastByteSpare ==
  ASSUME NEW cap \in Powers, NEW b \in {3, 6, 12, 18, 24, 48}
  PROVE  WholeFrames(cap, b) = WholeFrames(cap - 1, b)
<1> DEFINE q == cap \div b
           r == cap % b
<1>1. cap \in Nat /\ b \in Nat \ {0}
  BY SMT DEF Powers
<1>2. q \in Nat /\ r \in 0..(b - 1) /\ cap = q * b + r
  BY <1>1, Quotient
<1> HIDE DEF q, r
<1>3. r # 0
  <2> SUFFICES ASSUME r = 0 PROVE FALSE
    OBVIOUS
  <2>1. cap = q * b
    BY <1>1, <1>2, SMT
  <2>2. PICK c \in {1, 2, 4, 6, 8, 16} : b = 3 * c
    BY SMT
  <2>3. cap = 3 * (q * c) /\ q * c \in Nat
    BY <1>2, <2>1, <2>2, SMT
  <2> DEFINE k == q * c
  <2> HIDE DEF k
  <2>4. k \in Nat /\ cap = 3 * k
    BY <2>3 DEF k
  <2> QED
    BY <2>4, SMT DEF Powers
<1>4. cap - 1 = q * b + (r - 1) /\ r - 1 \in 0..(b - 1)
  BY <1>1, <1>2, <1>3, SMT
<1>5. (cap - 1) \div b = q
  BY <1>1, <1>2, <1>4, SMT
<1> QED
  BY <1>5, SMT DEF WholeFrames, q

LEMMA Reach ==
  ASSUME NEW h \in Accepted, NEW ring \in Nat, 50 <= ring, ring <= 5000, NEW ms \in Nat, ms <= ring,
         NEW cap \in Powers,
         NEW asked \in Nat, asked = Spanning(bytes_per_second(h), ring), asked <= cap
  PROVE  /\ WholeFrames(Spanning(bytes_per_second(h), ms), queue_bpf(h)) \in Nat
         /\ WholeFrames(Spanning(bytes_per_second(h), ms), queue_bpf(h))
              <= WholeFrames(cap - 1, queue_bpf(h))
<1> DEFINE n == bytes_per_second(h)
           b == queue_bpf(h)
           s == Spanning(n, ms)
<1>1. n \in Nat /\ b \in FrameSizes /\ b \in Nat \ {0}
  BY Pace, SMT DEF FrameSizes
<1>2. ring \in Nat /\ ms \in Nat /\ ms <= ring /\ ms <= 5000 /\ cap \in Nat
  BY SMT DEF Powers
<1>3. s \in Nat /\ s <= cap
  <2>1. asked = Spanning(n, ring)
    OBVIOUS
  <2> HIDE DEF n
  <2>2. n \in Nat
    BY <1>1
  <2>3. s \in Nat
    <3>1. n \in Nat /\ ms \in Nat
      BY <1>2, <2>2
    <3> QED
      BY ONLY <3>1, SpannedType
  <2>4. Spanning(n, ms) <= Spanning(n, ring)
    BY <1>2, <2>2, SpanningGrows
  <2> HIDE DEF s
  <2>5. s <= asked
    BY <2>1, <2>4 DEF s
  <2> QED
    BY <1>2, <2>3, <2>5
<1>4. 2200 * b <= cap
  <2>1. 2200 * b <= asked
    BY Asked
  <2> QED
    BY <1>1, <1>2, <2>1
<1>5. cap \in LargePowers
  BY <1>1, <1>4, SMT DEF FrameSizes, LargePowers, Powers
<1>6. WholeFrames(s, b) \in Nat
  BY <1>1, <1>3, Truncation
<1>7. CASE s <= cap - 1
  <2> HIDE DEF s, b
  <2>1. cap - 1 \in Nat
    BY <1>2, <1>3, <1>7, SMT
  <2>2. WholeFrames(s, b) <= WholeFrames(cap - 1, b)
    BY <1>1, <1>3, <1>7, <2>1, TruncationGrows
  <2> QED
    BY <1>6, <2>2 DEF s, b
<1>8. CASE s = cap /\ b \in {3, 6, 12, 18, 24, 48}
  <2>1. WholeFrames(s, b) = WholeFrames(cap - 1, b)
    BY <1>8, LastByteSpare
  <2> HIDE DEF s, b
  <2> QED
    BY <1>6, <2>1, SMT DEF s, b
<1>9. CASE s = cap /\ b \in {2, 4, 8, 16, 32, 64}
  <2>1. PICK base \in {44100, 48000}, m \in {1, 2, 4, 8, 16} : container_rate(h) = base * m
    BY RateOfHeader
  <2> DEFINE M == m * b
  <2>2. M \in {2, 4, 8, 16, 32, 64, 128, 256, 512, 1024}
    BY <1>9, <2>1, SMT
  <2>3. n = base * M
    <3>1. n = (base * m) * b
      BY <2>1 DEF bytes_per_second
    <3> QED
      BY <1>1, <2>1, <3>1, SMT
  <2> HIDE DEF M, n
  <2> DEFINE p == n * ms
  <2>4. p \in Nat /\ p = base * M * ms
    BY <1>1, <1>2, <2>1, <2>2, <2>3, Product, SMT
  <2> HIDE DEF p
  <2>5. 1000 * cap <= p /\ p < 1000 * cap + 1000
    BY <1>1, <1>2, <1>9, <2>4, Spans, SMTT(40) DEF p
  <2>6. CASE base = 44100
    <3>1. p = 100 * (441 * M * ms) /\ 441 * M * ms \in Nat
      BY <1>2, <2>2, <2>4, <2>6, SMT
    <3>2. FullRing(M, cap, ms)
      BY <1>2, <2>5, <3>1, SMT DEF FullRing
    <3>3. ~FullRing(M, cap, ms)
      BY <1>2, <1>5, <2>2, NeverFull
    <3> QED
      BY <3>2, <3>3
  <2>7. CASE base = 48000
    <3> DEFINE k == 16 * M * ms
    <3>1. p = 3000 * k /\ k \in Nat
      BY <1>2, <2>2, <2>4, <2>7, SMT
    <3> HIDE DEF k
    <3>2. 3 * k = cap
      BY <1>2, <2>5, <3>1, SMT
    <3> QED
      BY <3>1, <3>2, SMT DEF Powers
  <2> QED
    BY <2>1, <2>6, <2>7
<1>10. b \in {3, 6, 12, 18, 24, 48} \/ b \in {2, 4, 8, 16, 32, 64}
  BY <1>1, SMT DEF FrameSizes
<1> QED
  BY <1>2, <1>3, <1>7, <1>8, <1>9, <1>10, SMT

(* The rebuffer target is at most 95 % of the ring. *)
rebuffer_of(cap, percent) == (cap \div 100) * percent + ((cap % 100) * percent) \div 100

LEMMA RebufferReach ==
  ASSUME NEW cap \in Powers, NEW percent \in 0..95, NEW b \in FrameSizes, 2200 * b <= cap
  PROVE  rebuffer_of(cap, percent) \in Nat /\ rebuffer_of(cap, percent) <= WholeFrames(cap - 1, b)
<1> DEFINE q == cap \div 100
           r == cap % 100
           x == q * percent
           y == r * percent
<1>1. cap \in Nat /\ q \in Nat /\ r \in Nat /\ cap = 100 * q + r
  BY SMT DEF Powers
<1>2. rebuffer_of(cap, percent) = x + y \div 100
  BY DEF rebuffer_of
<1> HIDE DEF q, r
<1>3. x \in Nat /\ y \in Nat /\ x <= 95 * q /\ y <= 95 * r
  <2>1. percent \in Nat /\ percent <= 95
    BY SMT
  <2>2. percent * q <= 95 * q /\ percent * r <= 95 * r
    BY <1>1, <2>1, ProductGrows
  <2> QED
    BY <1>1, <2>1, <2>2, SMT
<1> HIDE DEF x, y
<1> DEFINE t == rebuffer_of(cap, percent)
<1>4. t \in Nat /\ 100 * t <= 95 * cap
  BY <1>1, <1>2, <1>3, SMT
<1> HIDE DEF t
<1> DEFINE w == WholeFrames(cap - 1, b)
<1>5. b \in Nat \ {0} /\ cap - 1 \in Nat
  BY <1>1, SMT DEF FrameSizes, Powers
<1>6. w \in Nat /\ (cap - 1) - b < w
  BY <1>5, Truncation
<1> HIDE DEF w
<1>7. t <= w
  BY <1>1, <1>4, <1>5, <1>6, SMT
<1> QED
  BY <1>4, <1>7, SMT DEF t, w
-----------------------------------------------------------------------------
(* The inductive invariant: what the queue, the scalars and the Sync hold  *)
(* is what the last accepted header and the settings make of it.           *)

ring_ms(h) == cfg[Kind(h)].ring
open_gate(h) == gate_ms(gate_prefill(Kind(h)), ring_ms(h))
play_gate(h) == gate_ms(sync_prefill(Kind(h)), ring_ms(h))
held(h, ms) == WholeFrames(Spanning(bytes_per_second(h), ms), queue_bpf(h))

QueueOf(h) ==
  [bpf |-> queue_bpf(h), asked |-> Spanning(bytes_per_second(h), ring_ms(h)),
   capacity |-> capacity_for(Spanning(bytes_per_second(h), ring_ms(h))),
   threshold |-> held(h, open_gate(h))]
ScalarsOf(h) ==
  [kind |-> Kind(h), rate |-> container_rate(h), ch |-> h.ch, bits |-> bits_for(h),
   speed |-> sink_speed(h), src_bpf |-> src_bpf(h)]
SyncOf ==
  LET bpf    == scalars.ch * (scalars.bits \div 8)
      gateMs == gate_ms(sync_prefill(scalars.kind), cfg[scalars.kind].ring)
  IN  [bpf |-> bpf, prefill |-> WholeFrames(Spanning(scalars.rate * bpf, gateMs), bpf),
       rebuffer |-> rebuffer_of(queue.capacity, cfg.rebuffer)]

IInv == /\ cfg \in Configs
        /\ Queued => \E h \in Accepted : queue = QueueOf(h) /\ scalars = ScalarsOf(h)
        /\ Opened => Queued /\ sync = SyncOf

LEMMA Initially == Init => IInv
BY DEF Init, IInv, Queued, Opened

LEMMA Inductive == IInv /\ [Next]_vars => IInv'
<1> SUFFICES ASSUME IInv, [Next]_vars PROVE IInv'
  OBVIOUS
<1>1. ASSUME NEW h \in Accepted, reconfigure(h) PROVE IInv'
  <2>1. cfg' = cfg /\ sync' = NotOpen /\ cfg' \in Configs
    BY <1>1, Zenon DEF reconfigure, IInv
  <2>2. queue' = QueueOf(h) /\ scalars' = ScalarsOf(h)
    BY <1>1, Zenon DEF reconfigure, QueueOf, ScalarsOf, bytes_per_second, ring_ms, open_gate, held,
       capacity_for, bits_for
  <2>3. QueueOf(h)' = QueueOf(h)
    BY <2>1, Zenon DEF QueueOf, ring_ms, open_gate, held, gate_prefill
  <2>4. ScalarsOf(h)' = ScalarsOf(h)
    BY Zenon DEF ScalarsOf
  <2> QED
    BY <2>1, <2>2, <2>3, <2>4, Zenon DEF IInv, Queued, Opened
<1>2. CASE OpenSync
  <2>1. cfg' = cfg /\ queue' = queue /\ scalars' = scalars /\ Queued
    BY <1>2, Zenon DEF OpenSync, Queued
  <2>2. sync' = SyncOf
    BY <1>2, Zenon DEF OpenSync, SyncOf, rebuffer_of
  <2>3. SyncOf' = SyncOf
    BY <2>1, ZenonT(40) DEF SyncOf, sync_prefill
  <2>4. \A h : QueueOf(h)' = QueueOf(h) /\ ScalarsOf(h)' = ScalarsOf(h)
    BY <2>1, Zenon DEF QueueOf, ScalarsOf, ring_ms, open_gate, held, gate_prefill
  <2> QED
    BY <2>1, <2>2, <2>3, <2>4, Zenon DEF IInv, Queued, Opened
<1>3. CASE UNCHANGED vars
  <2>1. cfg' = cfg /\ queue' = queue /\ scalars' = scalars /\ sync' = sync
    BY <1>3, Zenon DEF vars
  <2>2. SyncOf' = SyncOf
    BY <2>1, ZenonT(40) DEF SyncOf, sync_prefill
  <2>3. \A h : QueueOf(h)' = QueueOf(h) /\ ScalarsOf(h)' = ScalarsOf(h)
    BY <2>1, Zenon DEF QueueOf, ScalarsOf, ring_ms, open_gate, held, gate_prefill
  <2> QED
    BY <2>1, <2>2, <2>3, Zenon DEF IInv, Queued, Opened
<1> QED
  BY <1>1, <1>2, <1>3, Zenon DEF Next

-----------------------------------------------------------------------------
(* What one header and one setting give. *)

LEMMA Settings ==
  ASSUME cfg \in Configs, NEW kind \in {"pcm", "dsd"}
  PROVE  /\ cfg[kind].ring \in Nat /\ 50 <= cfg[kind].ring /\ cfg[kind].ring <= 5000
         /\ cfg[kind].prefill \in Nat
         /\ cfg.rebuffer \in 0..95
<1> DEFINE t == cfg[kind]
<1>1. cfg.pcm \in Tuning /\ cfg.dsd \in Tuning /\ cfg.rebuffer \in 0..95
  BY SizingAssumption, SMT
<1>2. t \in Tuning
  BY <1>1, SMT
<1> HIDE DEF t
<1>3. t.ring \in 50..5000 /\ t.prefill \in 0..5000
  BY <1>2, SMT DEF Tuning
<1> DEFINE r == t.ring
           p == t.prefill
<1> HIDE DEF r, p
<1>4. r \in 50..5000 /\ p \in 0..5000
  BY <1>3, SMT DEF r, p
<1>5. r \in Nat /\ 50 <= r /\ r <= 5000 /\ p \in Nat
  BY <1>4, SMT
<1> QED
  BY <1>1, <1>5, SMT DEF r, p, t

LEMMA Kinds == ASSUME NEW h PROVE Kind(h) \in {"pcm", "dsd"}
BY DEF Kind

(* No gate is longer than the ring. *)
LEMMA Gates ==
  ASSUME cfg \in Configs, NEW h \in Accepted
  PROVE  /\ ring_ms(h) \in Nat /\ 50 <= ring_ms(h) /\ ring_ms(h) <= 5000
         /\ open_gate(h) \in Nat /\ open_gate(h) <= ring_ms(h)
         /\ play_gate(h) \in Nat /\ play_gate(h) <= ring_ms(h)
<1> DEFINE k == Kind(h)
           r == ring_ms(h)
           p == cfg[k].prefill
           x == gate_prefill(k)
           y == sync_prefill(k)
<1>1. r \in Nat /\ 50 <= r /\ r <= 5000 /\ p \in Nat
  BY Kinds, Settings, SMT DEF ring_ms
<1> HIDE DEF r, p
<1>2. x \in Nat /\ y \in Nat
  BY <1>1, SMT DEF gate_prefill, sync_prefill, DSD_PREFILL_MS_DEFAULT, p
<1> HIDE DEF x, y
<1>3. \A z \in Nat : gate_ms(z, r) \in Nat /\ gate_ms(z, r) <= r
  BY <1>1, SMT DEF gate_ms
<1> QED
  BY <1>1, <1>2, <1>3, SMT DEF open_gate, play_gate, r, x, y, k

LEMMA QueueFields ==
  ASSUME NEW h, queue = QueueOf(h)
  PROVE  /\ queue.bpf = queue_bpf(h)
         /\ queue.asked = Spanning(bytes_per_second(h), ring_ms(h))
         /\ queue.capacity = capacity_for(queue.asked)
         /\ queue.threshold = held(h, open_gate(h))
BY Zenon DEF QueueOf

(* The queue built for an accepted header holds what was asked, and every  *)
(* gate no longer than the ring.                                           *)
LEMMA QueueSized ==
  ASSUME cfg \in Configs, NEW h \in Accepted, queue = QueueOf(h)
  PROVE  /\ queue.bpf \in FrameSizes
         /\ queue.asked \in Nat /\ 1 <= queue.asked /\ queue.asked <= queue.capacity
         /\ queue.capacity \in Powers
         /\ 2200 * queue.bpf <= queue.capacity
         /\ \A ms \in Nat : ms <= ring_ms(h) => held(h, ms) \in Nat /\ held(h, ms) <= Holdable
<1> DEFINE a == queue.asked
           c == queue.capacity
           b == queue_bpf(h)
           r == ring_ms(h)
<1>1. queue.bpf = b /\ a = Spanning(bytes_per_second(h), r) /\ c = capacity_for(a)
  BY QueueFields
<1>2. r \in Nat /\ 50 <= r /\ r <= 5000
  BY Gates
<1>3. b \in FrameSizes
  BY Pace
<1> HIDE DEF a, c, r
<1>4. /\ Spanning(bytes_per_second(h), r) \in Nat
      /\ 2200 * queue_bpf(h) <= Spanning(bytes_per_second(h), r)
      /\ Spanning(bytes_per_second(h), r) <= RING_BYTES_MAX
  BY ONLY <1>2, Asked
<1>5. a \in Nat /\ 2200 * b <= a /\ a <= RING_BYTES_MAX
  BY <1>1, <1>4
<1>6. c \in Powers /\ a <= c
  BY <1>1, <1>5, Capacity
<1>7. ASSUME NEW ms \in Nat, ms <= r
      PROVE  held(h, ms) \in Nat /\ held(h, ms) <= WholeFrames(c - 1, b)
  <2>1. ms \in Nat /\ ms <= r
    BY <1>7
  <2>2. a \in Nat /\ a = Spanning(bytes_per_second(h), r) /\ a <= c /\ c \in Powers
    BY <1>1, <1>5, <1>6
  <2>3. /\ WholeFrames(Spanning(bytes_per_second(h), ms), b) \in Nat
        /\ WholeFrames(Spanning(bytes_per_second(h), ms), b) <= WholeFrames(c - 1, b)
    BY ONLY <1>2, <2>1, <2>2, Reach
  <2> QED
    BY <2>3, Zenon DEF held
<1>8. Holdable = WholeFrames(c - 1, b)
  BY <1>1, Zenon DEF Holdable, c
<1> HIDE DEF b
<1>9. 1 <= a /\ 2200 * b <= c
  BY <1>3, <1>5, <1>6, SMT DEF FrameSizes, Powers
<1>10. \A ms \in Nat : ms <= r => held(h, ms) \in Nat /\ held(h, ms) <= Holdable
  BY <1>7, <1>8, Zenon
<1>11. queue.bpf \in FrameSizes /\ 2200 * queue.bpf <= c
  BY <1>1, <1>3, <1>9
<1>12. a \in Nat /\ 1 <= a /\ a <= c /\ c \in Powers
  BY <1>5, <1>6, <1>9
<1> QED
  BY <1>10, <1>11, <1>12 DEF a, c, r

(* The Sync the worker tunes has the queue's frames and the header's gate. *)
LEMMA SyncFields ==
  ASSUME NEW h \in Accepted, scalars = ScalarsOf(h), sync = SyncOf
  PROVE  /\ sync.bpf = queue_bpf(h)
         /\ sync.prefill = held(h, play_gate(h))
         /\ sync.rebuffer = rebuffer_of(queue.capacity, cfg.rebuffer)
<1>1. /\ scalars.kind = Kind(h) /\ scalars.rate = container_rate(h)
      /\ scalars.ch = h.ch /\ scalars.bits = bits_for(h)
  BY Zenon DEF ScalarsOf
<1>2. scalars.ch * (scalars.bits \div 8) = queue_bpf(h)
  BY <1>1, FrameOfHeader
<1> DEFINE bpf == scalars.ch * (scalars.bits \div 8)
           gateMs == gate_ms(sync_prefill(scalars.kind), cfg[scalars.kind].ring)
<1>3. gateMs = play_gate(h)
  BY <1>1, Zenon DEF play_gate, ring_ms
<1>4. /\ sync.bpf = bpf
      /\ sync.prefill = WholeFrames(Spanning(scalars.rate * bpf, gateMs), bpf)
      /\ sync.rebuffer = rebuffer_of(queue.capacity, cfg.rebuffer)
  BY Zenon DEF SyncOf
<1> HIDE DEF bpf, gateMs
<1>5. bpf = queue_bpf(h)
  BY <1>2 DEF bpf
<1> QED
  BY <1>1, <1>3, <1>4, <1>5, Zenon DEF held, bytes_per_second

-----------------------------------------------------------------------------

LEMMA ScalarsTyped ==
  ASSUME NEW h \in Accepted
  PROVE  ScalarsOf(h) \in Scalars /\ queue_bpf(h) <= src_bpf(h) /\ src_bpf(h) \in Nat
<1>1. /\ h.ch \in channel_ids /\ bits_for(h) \in pcm_sizes /\ h.size \in {1, 16, 24, 32}
      /\ h.layout \in {"packed", "padded"} /\ h.ch \in {1, 2, 4, 6, 8, 16}
  BY AcceptedFields, SMT DEF channel_ids, pcm_sizes, bits_for
<1>2. Kind(h) \in {"pcm", "dsd"}
  BY Kinds
<1>3. src_bpf(h) \in 1..PARTIAL_FRAME_MAX /\ src_bpf(h) \in Nat
  <2>1. validate_format(h)
    BY Zenon DEF Accepted
  <2> QED
    BY <2>1, SMT DEF validate_format, PARTIAL_FRAME_MAX
<1>4. container_rate(h) \in Nat
  BY RateOfHeader, SMT
<1>5. sink_speed(h) \in Nat
  <2>1. sink_speed(h) = container_rate(h) * queue_bpf(h)
    BY SpeedOfHeader
  <2>2. container_rate(h) * queue_bpf(h) \in Nat
    BY Pace DEF bytes_per_second
  <2> QED
    BY <2>1, <2>2, Zenon
<1>6. queue_bpf(h) <= src_bpf(h)
  <2>1. CASE h.size = 24
    <3>1. bytes_per_sample(h) \in {3, 4}
      BY <2>1, SMT DEF bytes_per_sample
    <3> QED
      BY <1>1, <2>1, <3>1, SMT DEF queue_bpf, src_bpf
  <2>2. CASE h.size # 24
    <3>1. queue_bpf(h) = src_bpf(h)
      BY <2>2, Zenon DEF queue_bpf
    <3> QED
      BY <1>3, <3>1
  <2> QED
    BY <2>1, <2>2
<1> QED
  BY <1>1, <1>2, <1>3, <1>4, <1>5, <1>6, Zenon DEF ScalarsOf, Scalars

LEMMA IInvTypeOK == IInv => TypeOK
<1> SUFFICES ASSUME IInv PROVE TypeOK
  OBVIOUS
<1>1. cfg \in Configs
  BY DEF IInv
<1>2. ASSUME Queued
      PROVE  /\ scalars \in Scalars
             /\ queue.bpf \in 1..scalars.src_bpf /\ queue.bpf < queue.capacity
             /\ queue.asked \in 1..queue.capacity
             /\ queue.capacity \in {2^k : k \in 1..28} /\ queue.threshold \in Nat
  <2>1. PICK h \in Accepted : queue = QueueOf(h) /\ scalars = ScalarsOf(h)
    BY <1>2 DEF IInv
  <2>2. /\ queue.bpf \in FrameSizes
        /\ queue.asked \in Nat /\ 1 <= queue.asked /\ queue.asked <= queue.capacity
        /\ queue.capacity \in Powers /\ 2200 * queue.bpf <= queue.capacity
    BY <1>1, <2>1, QueueSized
  <2>3. held(h, open_gate(h)) \in Nat
    BY <1>1, <2>1, QueueSized, Gates
  <2>4. queue.threshold \in Nat
    BY <2>1, <2>3, QueueFields
  <2> DEFINE a == queue.asked
             c == queue.capacity
             b == queue.bpf
             d == scalars.src_bpf
  <2>a. /\ scalars \in Scalars /\ scalars.src_bpf = src_bpf(h) /\ queue.bpf = queue_bpf(h)
        /\ queue_bpf(h) <= src_bpf(h) /\ src_bpf(h) \in Nat
    BY <2>1, ScalarsTyped, QueueFields, Zenon DEF ScalarsOf
  <2>b. b <= d /\ d \in Nat
    BY <2>a, Zenon
  <2> HIDE DEF a, b, c, d
  <2>5. b \in 1..d
    BY <2>2, <2>b, SMT DEF b, FrameSizes
  <2>c. b < c
    BY <2>2, SMT DEF b, c, FrameSizes, Powers
  <2>6. c \in Nat /\ c \in {2^k : k \in 1..28}
    BY <2>2, PowersOfTwo, SMT DEF c, Powers
  <2>7. a \in 1..c
    BY <2>2, <2>6, SMT DEF a, c
  <2> QED
    BY <2>4, <2>5, <2>6, <2>7, <2>a, <2>c, Zenon DEF a, b, c, d
<1>3. ASSUME Opened
      PROVE  Queued /\ sync.bpf \in Nat /\ sync.prefill \in Nat /\ sync.rebuffer \in Nat
  <2>1. PICK h \in Accepted : queue = QueueOf(h) /\ scalars = ScalarsOf(h)
    BY <1>3 DEF IInv
  <2>2. sync = SyncOf /\ Queued
    BY <1>3 DEF IInv
  <2>3. /\ sync.bpf = queue_bpf(h) /\ sync.prefill = held(h, play_gate(h))
        /\ sync.rebuffer = rebuffer_of(queue.capacity, cfg.rebuffer)
    BY <2>1, <2>2, SyncFields
  <2>4. held(h, play_gate(h)) \in Nat
    BY <1>1, <2>1, QueueSized, Gates
  <2>5. queue_bpf(h) \in Nat
    BY Pace, SMT DEF FrameSizes
  <2>6. rebuffer_of(queue.capacity, cfg.rebuffer) \in Nat
    BY <1>1, <2>1, QueueSized, Settings, RebufferReach
  <2> QED
    BY <2>2, <2>3, <2>4, <2>5, <2>6, Zenon
<1> QED
  BY <1>1, <1>2, <1>3, Zenon DEF TypeOK

LEMMA IInvGatesReachable == IInv => GatesReachable
<1> SUFFICES ASSUME IInv PROVE GatesReachable
  OBVIOUS
<1>1. cfg \in Configs
  BY DEF IInv
<1>2. ASSUME Queued PROVE queue.threshold <= Holdable
  <2>1. PICK h \in Accepted : queue = QueueOf(h)
    BY <1>2 DEF IInv
  <2>2. held(h, open_gate(h)) <= Holdable
    BY <1>1, <2>1, QueueSized, Gates
  <2> QED
    BY <2>1, <2>2, QueueFields
<1>3. ASSUME Opened PROVE sync.prefill <= Holdable /\ sync.rebuffer <= Holdable
  <2>1. PICK h \in Accepted : queue = QueueOf(h) /\ scalars = ScalarsOf(h)
    BY <1>3 DEF IInv
  <2>2. sync = SyncOf
    BY <1>3 DEF IInv
  <2>3. /\ sync.prefill = held(h, play_gate(h))
        /\ sync.rebuffer = rebuffer_of(queue.capacity, cfg.rebuffer)
    BY <2>1, <2>2, SyncFields
  <2>4. held(h, play_gate(h)) <= Holdable
    BY <1>1, <2>1, QueueSized, Gates
  <2>5. /\ queue.capacity \in Powers /\ queue.bpf \in FrameSizes /\ cfg.rebuffer \in 0..95
        /\ 2200 * queue.bpf <= queue.capacity
    BY <1>1, <2>1, QueueSized, Settings
  <2>6. rebuffer_of(queue.capacity, cfg.rebuffer) <= WholeFrames(queue.capacity - 1, queue.bpf)
    BY <2>5, RebufferReach
  <2> QED
    BY <2>3, <2>4, <2>6, Zenon DEF Holdable
<1> QED
  BY <1>2, <1>3, Zenon DEF GatesReachable

LEMMA IInvPlaysAtWireSpeed == IInv => PlaysAtWireSpeed
<1> SUFFICES ASSUME IInv, Queued PROVE scalars.speed = scalars.rate * queue.bpf
  BY DEF PlaysAtWireSpeed
<1>1. PICK h \in Accepted : queue = QueueOf(h) /\ scalars = ScalarsOf(h)
  BY DEF IInv
<1>2. queue.bpf = queue_bpf(h)
  BY <1>1, QueueFields
<1>3. scalars.speed = sink_speed(h) /\ scalars.rate = container_rate(h)
  BY <1>1, Zenon DEF ScalarsOf
<1>4. sink_speed(h) = container_rate(h) * queue_bpf(h)
  BY SpeedOfHeader
<1> QED
  BY <1>2, <1>3, <1>4, Zenon

LEMMA IInvSizedAlike == IInv => SizedAlike
<1> SUFFICES ASSUME IInv, Opened
             PROVE  /\ sync.bpf = queue.bpf
                    /\ cfg[scalars.kind].prefill > 0 => queue.threshold = sync.prefill
  BY DEF SizedAlike
<1>1. PICK h \in Accepted : queue = QueueOf(h) /\ scalars = ScalarsOf(h)
  BY DEF IInv
<1>2. sync = SyncOf /\ cfg \in Configs
  BY DEF IInv
<1>3. sync.bpf = queue_bpf(h) /\ sync.prefill = held(h, play_gate(h))
  BY <1>1, <1>2, SyncFields
<1>4. queue.bpf = queue_bpf(h) /\ queue.threshold = held(h, open_gate(h))
  BY <1>1, QueueFields
<1>5. scalars.kind = Kind(h)
  BY <1>1, Zenon DEF ScalarsOf
<1>6. ASSUME cfg[Kind(h)].prefill > 0 PROVE open_gate(h) = play_gate(h)
  <2> DEFINE k == Kind(h)
             p == cfg[k].prefill
  <2>1. p \in Nat /\ p > 0
    BY <1>2, <1>6, Kinds, Settings
  <2> HIDE DEF k
  <2>2. gate_prefill(k) = p
    BY <2>1, SMT DEF gate_prefill
  <2>3. sync_prefill(k) = p
    BY <2>1, SMT DEF sync_prefill
  <2> QED
    BY <2>2, <2>3, Zenon DEF open_gate, play_gate, k
<1> QED
  BY <1>3, <1>4, <1>5, <1>6, Zenon

-----------------------------------------------------------------------------
(* The theorems. *)

LEMMA Invariant == Spec => []IInv
BY Initially, Inductive, PTL DEF Spec

(* TypeOK: for every header and setting, the worker's scalars are in their *)
(* ranges, a wire frame fits the carry buffer and a queued one is no       *)
(* larger, and the ring is a power of two within the 256 MiB cap that      *)
(* holds a frame and the duration asked for (reconfigure(),                *)
(* configure_unified_queue()).                                             *)
THEOREM TypeCorrect == Spec => []TypeOK
BY Invariant, IInvTypeOK, PTL

(* GatesReachable: no open, prefill or rebuffer gate waits for more than   *)
(* the ring can hold.                                                      *)
THEOREM GatesWithinReach == Spec => []GatesReachable
BY Invariant, IInvGatesReachable, PTL

(* PlaysAtWireSpeed: the sink takes a second of the queue in a second.     *)
THEOREM SinkAtWireSpeed == Spec => []PlaysAtWireSpeed
BY Invariant, IInvPlaysAtWireSpeed, PTL

(* SizedAlike: reconfigure() and the open worker size the same stream      *)
(* alike.                                                                  *)
THEOREM TwoSizingsAgree == Spec => []SizedAlike
BY Invariant, IInvSizedAlike, PTL
=============================================================================
