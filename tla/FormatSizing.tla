---------------------------- MODULE FormatSizing ----------------------------
(***************************************************************************)
(* What a Scream header makes of the queue and of the Sync.                *)
(*                                                                         *)
(* The same stream is sized twice: reconfigure() builds the queue and the  *)
(* open gate from the header (configure_unified_queue()), and the open     *)
(* worker tunes the Sync from the backend's scalars (configureFormat()).   *)
(* Real units throughout: hertz, bytes, milliseconds.                      *)
(***************************************************************************)
EXTENDS Integers, FiniteSetsExt

CONSTANTS Multipliers, SampleSizes, Channels,  \* header fields tried
          Configs,   \* [pcm, dsd : [ring, prefill]], ms, and rebuffer in percent
          NotOpen    \* no queue, no Sync

\* --pcm-buffer-ms and --pcm-prefill-ms, or --dsd-buffer-ms and --dsd-prefill-ms.
Tuning == [ring : 50..5000, prefill : 0..5000]

ASSUME SizingAssumption ==
  /\ Multipliers \subseteq 0..4095 /\ SampleSizes \subseteq 0..255 /\ Channels \subseteq 0..255
  /\ \A c \in Configs : c.pcm \in Tuning /\ c.dsd \in Tuning /\ c.rebuffer \in 0..95

VARIABLES cfg,     \* g_st.cfg, set by the command line
          queue,   \* the unified queue: bpf, bytes asked for, capacity, open gate
          scalars, \* g_st's stream scalars, read by the open worker
          sync     \* the Sync's thresholds
vars == <<cfg, queue, scalars, sync>>

RING_BYTES_MAX == 256 * 1024 * 1024
PARTIAL_FRAME_MAX == 256
DSD_PREFILL_MS_DEFAULT == 200

\* A decoded header.  In legacy mode the layout is always packed.
Headers == [base : {44100, 48000}, mult : Multipliers, size : SampleSizes,
            ch : Channels, layout : {"packed", "padded"}]

sample_rate(h) == h.base * h.mult
bytes_per_sample(h) == CASE h.size \in {1, 32} -> 4
                         [] h.size = 16 -> 2
                         [] h.size = 24 -> IF h.layout = "padded" THEN 4 ELSE 3
                         [] OTHER -> 0

\* A frame of the wire, which a packet's tail is part of when it is carried.
src_bpf(h) == bytes_per_sample(h) * h.ch

\* 44.1 kHz is tried first; a rate of neither family has no base.
rate_base(rate) == IF rate % 44100 = 0 THEN 44100 ELSE IF rate % 48000 = 0 THEN 48000 ELSE 0
rate_mult(rate) == IF rate_base(rate) = 0 THEN 1 ELSE rate \div rate_base(rate)

rate_mults_uncapped == {1, 2, 4, 8, 16, 32}  \* mutant: one octave more
rate_mults == {1, 2, 4, 8, 16}               \* rate_mult_id
dsd_mults == {1, 2, 4, 8}
channel_ids == {1, 2, 4, 6, 8, 16}
pcm_sizes == {8, 16, 24, 32}

validate_format(h) ==
  /\ sample_rate(h) # 0
  /\ h.ch \in channel_ids
  /\ rate_base(sample_rate(h)) # 0
  /\ IF h.size = 1 THEN rate_mult(sample_rate(h)) \in dsd_mults
                   ELSE h.size \in pcm_sizes /\ rate_mult(sample_rate(h)) \in rate_mults
  /\ src_bpf(h) \in 1..PARTIAL_FRAME_MAX

\* The driver sends half the DSD container rate.
container_rate_wire(h) == sample_rate(h)     \* mutant: taken as it comes
container_rate(h) == IF h.size = 1 THEN 2 * sample_rate(h) ELSE sample_rate(h)

\* The queue holds packed samples: reconfigure()'s dst_bpf.
queue_bpf(h) == IF h.size = 24 THEN 3 * h.ch ELSE src_bpf(h)

\* What the sink is told to play, in bytes a second.
sink_speed(h) ==
  IF h.size = 1 THEN sample_rate(h) * (64 \div 8) * h.ch
  ELSE rate_base(sample_rate(h)) * rate_mult(sample_rate(h)) * h.ch * (h.size \div 8)

\* (perSecond * ms) / 1000, in 32 bits.
Spanning(perSecond, ms) == (perSecond \div 1000) * ms + ((perSecond % 1000) * ms) \div 1000
WholeFrames(bytes, bpf) == (bytes \div bpf) * bpf
roundUpPow2(v) == Min({p \in {2^k : k \in 1..30} : p >= v})

gate_ms_unhalved(prefill, ring) == prefill   \* mutant: longer than the ring
gate_ms(prefill, ring) == IF prefill > ring THEN ring \div 2 ELSE prefill

\* prefill_ms as configure_unified_queue() and as the open worker take it.
gate_prefill_pcm(kind) == cfg.pcm.prefill    \* mutant: DSD has no prefill of its own
gate_prefill(kind) == IF kind = "dsd" /\ cfg.dsd.prefill = 0 THEN DSD_PREFILL_MS_DEFAULT
                                                             ELSE cfg[kind].prefill
sync_prefill(kind) ==
  IF cfg[kind].prefill > 0 THEN cfg[kind].prefill
                           ELSE IF kind = "dsd" THEN DSD_PREFILL_MS_DEFAULT ELSE 500

Kind(h) == IF h.size = 1 THEN "dsd" ELSE "pcm"

Init == cfg \in Configs /\ queue = NotOpen /\ scalars = NotOpen /\ sync = NotOpen

\* reconfigure(), for a header validate_format() accepts: the old Sync is torn down, the scalars are committed and
\* configure_unified_queue() sizes the ring and the open gate.
reconfigure(h) ==
  LET kind   == Kind(h)
      bpf    == queue_bpf(h)
      bps    == container_rate(h) * bpf
      asked  == Spanning(bps, cfg[kind].ring)
      gateMs == gate_ms(gate_prefill(kind), cfg[kind].ring)
  IN  /\ queue' = [bpf |-> bpf, asked |-> asked,
                   capacity |-> roundUpPow2(Min({asked, RING_BYTES_MAX})),
                   threshold |-> WholeFrames(Spanning(bps, gateMs), bpf)]
      /\ scalars' = [kind |-> kind, rate |-> container_rate(h), ch |-> h.ch,
                     bits |-> IF h.size = 1 THEN 32 ELSE h.size, speed |-> sink_speed(h),
                     src_bpf |-> src_bpf(h)]
      /\ sync' = NotOpen
      /\ UNCHANGED cfg

\* The worker's tuning, configureFormat(), and Gate 3's rebuffer target.
OpenSync ==
  LET bpf    == scalars.ch * (scalars.bits \div 8)
      gateMs == gate_ms(sync_prefill(scalars.kind), cfg[scalars.kind].ring)
  IN  /\ queue # NotOpen /\ sync = NotOpen
      /\ sync' = [bpf |-> bpf,
                  prefill |-> WholeFrames(Spanning(scalars.rate * bpf, gateMs), bpf),
                  rebuffer |-> (queue.capacity \div 100) * cfg.rebuffer
                                 + ((queue.capacity % 100) * cfg.rebuffer) \div 100]
      /\ UNCHANGED <<cfg, queue, scalars>>

Accepted == {h \in Headers : validate_format(h)}
Next == (\E h \in Accepted : reconfigure(h)) \/ OpenSync
Spec == Init /\ [][Next]_vars
-----------------------------------------------------------------------------
Queued == queue # NotOpen
Opened == sync # NotOpen

Scalars == [kind : {"pcm", "dsd"}, rate : Nat, ch : channel_ids, bits : pcm_sizes,
            speed : Nat, src_bpf : 1..PARTIAL_FRAME_MAX]

\* Type invariant; a wire frame fits the carry buffer and a queued one is no
\* larger, and the ring is a power of two that holds a frame and is no
\* smaller than was asked for, which the 256 MiB cap would break
\* (diretta.cpp:1500-1509).
TypeOK ==
  /\ cfg \in Configs
  /\ Queued => /\ scalars \in Scalars
               /\ queue.bpf \in 1..scalars.src_bpf /\ queue.bpf < queue.capacity
               /\ queue.asked \in 1..queue.capacity
               /\ queue.capacity \in {2^k : k \in 1..28}
               /\ queue.threshold \in Nat
  /\ Opened => Queued /\ sync.bpf \in Nat /\ sync.prefill \in Nat /\ sync.rebuffer \in Nat

\* The most whole frames the ring can hold: one byte is never used.
Holdable == WholeFrames(queue.capacity - 1, queue.bpf)

\* No gate waits for more than the ring can hold.  An open gate out of reach
\* costs its 3 s fallback; a prefill or rebuffer gate out of reach is silence
\* for good, with the ring full and packets dropped (diretta.cpp:1518,
\* diretta_sync.cpp:149, diretta_sync.cpp:409).
GatesReachable == /\ Queued => queue.threshold <= Holdable
                  /\ Opened => sync.prefill <= Holdable /\ sync.rebuffer <= Holdable

\* The sink plays a second of the queue in a second: the rate, channel, size
\* and DSD speed identifiers describe what reconfigure() put in the queue.
PlaysAtWireSpeed == Queued => scalars.speed = scalars.rate * queue.bpf

\* The queue and the Sync are sized from the header and from the bit depth,
\* by two functions, and agree on the bytes of a frame and, with a prefill
\* configured, on the fill that lets the Sync be opened and then play: "same
\* threshold as the Sync's own prefill gate".  With --pcm-prefill-ms 0 the
\* open gate is 0 ms and the Sync takes 500 (diretta.cpp:1492, 2283).
SizedAlike ==
  Opened => /\ sync.bpf = queue.bpf
            /\ cfg[scalars.kind].prefill > 0 => queue.threshold = sync.prefill
=============================================================================
