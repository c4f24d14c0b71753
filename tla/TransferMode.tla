---------------------------- MODULE TransferMode ----------------------------
(***************************************************************************)
(* What the open worker settles between setSink() and connectPrepare(): the *)
(* MTU packets are sent at, the protocol overhead (loaded from a file kept *)
(* per MTU, else measured), the transfer mode and its cycle time, and then *)
(* the cycle CycleSize makes of the size the SDK answers.                  *)
(*                                                                         *)
(* Times are microseconds, sizes bytes, sample rates hundreds of hertz.    *)
(***************************************************************************)
EXTENDS CycleSize, FiniteSetsExt

CONSTANTS
  Mtus,           \* MTUs of the path and of the sink
  Sdks,           \* [overhead, rounding, probes]: bytes of a packet that are not
                  \*   payload, how a cycle is rounded to bytes, the bit depths
                  \*   of calibration formats the sink supports
  Formats,        \* [rate, ch, bits, dsd]: what is played
  Options,        \* [mode, cycle, hz, limit] of a process: --transfer-mode,
                  \*   --cycle-time, --cycle-hz, --target-profile-limit
  SetSinkMayFail  \* whether the second setSink() may fail

ASSUME TransferAssumption ==
  /\ \A m \in Mtus : m \in Nat /\ m >= 64
  /\ SetSinkMayFail \in BOOLEAN
  /\ \A s \in Sdks : /\ s.overhead \in Nat /\ 0 < s.overhead /\ s.overhead < 64
                     /\ s.rounding \in {"bytes", "down", "nearest", "up"}
                     /\ s.probes \subseteq {16, 24, 32}
  /\ \A f \in Formats : /\ f.rate \in Nat /\ 441 <= f.rate /\ f.rate <= 7680
                         /\ f.ch \in 1..16 /\ f.bits \in {16, 24, 32}
  /\ \A o \in Options : o.cycle \in Nat /\ o.hz \in Nat /\ o.limit \in Nat
  /\ \A o \in Options : o.cycle = 0 \/ (333 <= o.cycle /\ o.cycle <= 10000)

VARIABLES
  sdk,        \* the SDK and the sink, for good
  cache,      \* the overhead file of each MTU, 0 when missing or empty
  opts,       \* g_st.cfg
  path,       \* g_st.path_mtu
  mtu,        \* g_st.mtu
  wire,       \* history: the MTU of the last setSink() that succeeded
  overhead,   \* g_st.inferred_overhead, 0 for -1
  stage,      \* where the process or its worker is
  applied     \* [f, us, size, packets]: the format and what the SDK answers

process == <<opts, path>>
link    == <<mtu, wire>>
sizing  == <<config, acc, want, cycles, given>>
modeVars == <<sdk, cache, process, link, overhead, stage, applied>>
allVars == <<modeVars, vars>>

NoFormat == [rate |-> 0, ch |-> 0, bits |-> 0, dsd |-> FALSE]
Nothing == [f |-> NoFormat, us |-> 0, size |-> 0, packets |-> 0]

-----------------------------------------------------------------------------
(* Arithmetic of a cycle. *)

CeilDiv(a, b) == (a + b - 1) \div b
Clamp(us) == Max({100, Min({us, 50000})})
frame(f) == f.ch * (f.bits \div 8)

\* std::round(bytes / bytesPerSecond * 1e6), clamped; bytes need not be
\* whole frames.
cycle_for(bytes, f) ==
  LET whole == (bytes \div frame(f)) * 20000
      part  == ((bytes % frame(f)) * 20000) \div frame(f)
  IN  Clamp((whole + part + f.rate) \div (2 * f.rate))

default_overhead_guess(m) == IF m > 2000 THEN 6 ELSE 22

payload_for(m, oh, f) ==
  Max({frame(f), WholeFrames(IF m > oh THEN m - oh ELSE 1476, frame(f))})

calculateCycleTime(f, m, oh) ==
  cycle_for(payload_for(m, IF oh \in 1..199 THEN oh ELSE default_overhead_guess(m), f), f)

-----------------------------------------------------------------------------
(* The SDK, external: getCycleSize() and getCyclePackets() once a cycle of *)
(* us microseconds is configured for format f at the MTU it was given.     *)
CycleBytes(us, f) ==
  LET whole == ((us * f.rate) \div 10000) * frame(f)
  IN
  CASE sdk.rounding = "bytes" -> whole + (((us * f.rate) % 10000) * frame(f)) \div 10000
    [] sdk.rounding = "down"  -> whole
    [] sdk.rounding = "nearest" -> ((2 * us * f.rate + 10000) \div 20000) * frame(f)
    [] sdk.rounding = "up"    -> CeilDiv(us * f.rate, 10000) * frame(f)
CyclePackets(us, f) == CeilDiv(CycleBytes(us, f), wire - sdk.overhead)

Configured(us, f) ==
  [f |-> f, us |-> us, size |-> CycleBytes(us, f), packets |-> CyclePackets(us, f)]

-----------------------------------------------------------------------------
(* config_transfer_varmax_one_packet(): at most 8 times, one frame less as *)
(* long as the SDK answers with more than one packet.                      *)
Shrunk(us, f) ==
  LET cs   == CycleBytes(us, f)
      next == WholeFrames(cs - frame(f), frame(f))
      t    == cycle_for(next, f)
  IN  IF CyclePackets(us, f) <= 1 \/ cs <= frame(f) \/ next < frame(f) \/ (t >= us /\ us <= 100)
      THEN us ELSE IF t >= us THEN us - 1 ELSE t

varmax_as_asked(us, f) == us          \* mutant: no retry
Shrunk2(us, f) == Shrunk(Shrunk(us, f), f)
Shrunk4(us, f) == Shrunk2(Shrunk2(us, f), f)
varmax_one_packet(us, f) == Shrunk4(Shrunk4(us, f), f)

\* probe_max_one_packet_payload(): from the default guess, a frame more
\* while the SDK takes it and still answers with one packet.
GrownUnreverted(p, f) ==              \* mutant: the frame that splits is kept
  LET next == p.best + frame(f)
  IN  IF p.done \/ next >= mtu THEN [p EXCEPT !.done = TRUE]
      ELSE [best |-> next, done |-> CyclePackets(cycle_for(next, f), f) # 1]
Grown(p, f) ==
  LET next == p.best + frame(f)
      us   == cycle_for(next, f)
  IN  IF p.done \/ next >= mtu \/ CyclePackets(us, f) # 1 THEN [p EXCEPT !.done = TRUE]
      ELSE [best |-> CycleBytes(us, f), done |-> CycleBytes(us, f) < next]
Grown4(p, f) == Grown(Grown(Grown(Grown(p, f), f), f), f)

\* At most 16 times.
probe_max_one_packet_payload(f) ==
  LET us == varmax_one_packet(cycle_for(payload_for(mtu, default_overhead_guess(mtu), f), f), f)
  IN  IF CyclePackets(us, f) # 1 THEN 0
      ELSE LET start == [best |-> CycleBytes(us, f), done |-> FALSE]
           IN  Grown4(Grown4(Grown4(Grown4(start, f), f), f), f).best

\* calibrate_overhead_if_missing(): 44.1 kHz stereo at each supported depth;
\* the smallest remainder of the MTU is the overhead.
ProbeFormat(bits) == [rate |-> 441, ch |-> 2, bits |-> bits, dsd |-> FALSE]
Payloads == {probe_max_one_packet_payload(ProbeFormat(b)) : b \in sdk.probes} \ {0}
Leftovers == {mtu - p : p \in Payloads} \cap 1..199
calibrated == IF Leftovers = {} THEN 0 ELSE Min(Leftovers)

-----------------------------------------------------------------------------
(* apply_transfer_mode(). *)

LowBitrate(f) == f.bits <= 16 /\ f.rate <= 480
varmax_cycle(f) == calculateCycleTime(f, mtu, overhead)
asked_cycle(f) == IF opts.cycle > 0 THEN opts.cycle ELSE varmax_cycle(f)

safe_max_loose(f) == 2 * varmax_cycle(f)     \* mutant: any cycle passes for safe
safe_max(f) == (varmax_cycle(f) * 97) \div 100

\* Auto and autofix: a cycle of the user's is taken when a packet holds it.
auto_cycle(f) ==
  IF opts.cycle > 0
  THEN IF opts.cycle <= safe_max(f) THEN opts.cycle ELSE varmax_one_packet(varmax_cycle(f), f)
  ELSE IF LowBitrate(f) \/ f.dsd THEN varmax_cycle(f) ELSE varmax_one_packet(varmax_cycle(f), f)

effective_cycle(f) ==
  CASE opts.mode = "varprio" /\ opts.hz > 0 -> 1000000 \div opts.hz
    [] opts.limit > 0                      -> asked_cycle(f)      \* ProfileMaker
    [] opts.mode = "varmax"                -> varmax_one_packet(asked_cycle(f), f)
    [] opts.mode \in {"auto", "autofix"}   -> auto_cycle(f)
    [] OTHER                               -> asked_cycle(f)

-----------------------------------------------------------------------------
ModeInit ==
  /\ sdk \in Sdks /\ cache = [m \in Mtus |-> 0]
  /\ opts \in Options /\ path \in Mtus
  /\ mtu = path /\ wire = path /\ overhead = 0
  /\ stage = "ready" /\ applied = Nothing
  /\ Init

load_inferred_overhead(m) == cache[m]

\* diretta_output_init() of a new process, with other options or another
\* path; the files are what the last one left.
Start ==
  /\ stage = "down"
  /\ opts' \in Options /\ path' \in Mtus
  /\ mtu' = path' /\ wire' = path'
  /\ overhead' = load_inferred_overhead(path')
  /\ stage' = "ready" /\ applied' = Nothing
  /\ UNCHANGED <<sdk, cache, vars>>

resolve_active_mtu(sink) == IF sink = 0 THEN path ELSE Min({path, sink})

\* setSink(), the inquiry (0: the sink advertises no MTU), setSink() again
\* when the sink asks for less than the path can do, and the cache lookup.
overhead_stale(m) == IF overhead > 0 THEN overhead ELSE cache[m]   \* mutant: kept across MTUs
overhead_for(m) == load_inferred_overhead(m)

Resolve ==
  /\ stage = "ready"
  /\ \E sink \in Mtus \cup {0}, ok \in BOOLEAN :
       LET active == resolve_active_mtu(sink)
       IN  /\ ok \/ (SetSinkMayFail /\ active # path)
           /\ wire' = IF ok THEN active ELSE path
           /\ mtu' = active
           /\ overhead' = overhead_for(active)
  /\ stage' = "resolved" /\ applied' = Nothing
  /\ UNCHANGED <<sdk, cache, process, vars>>

\* The file is truncated when it is opened and written after: a process
\* that dies in between, or a full disk, leaves it empty, which load takes
\* for missing; a file that cannot be opened stays as it is.
Truncated(m) == [cache EXCEPT ![m] = 0]
Saved == [cache EXCEPT ![mtu] = overhead]

Calibrate ==
  LET oh == calibrated
  IN  /\ stage = "resolved" /\ overhead = 0
      /\ overhead' = oh
      /\ \/ oh > 0 /\ cache' = Truncated(mtu) /\ stage' = "savingCalibration"
         \/ UNCHANGED cache /\ stage' = "calibrated"
      /\ UNCHANGED <<sdk, process, link, applied, vars>>

SaveCalibration ==
  /\ stage = "savingCalibration"
  /\ cache' \in {Saved, cache}
  /\ stage' = "calibrated"
  /\ UNCHANGED <<sdk, process, link, overhead, applied, vars>>

Calibrated == stage = "calibrated" \/ (stage = "resolved" /\ overhead > 0)

\* The sink takes the format: the mode is applied and, when it makes one
\* packet, what the packet left of the MTU tightens the overhead.
tightens_any(a) == mtu - a.size \in 1..199                     \* mutant: split cycles count
tightens(a) ==
  /\ a.packets = 1
  /\ mtu - a.size \in 1..199
  /\ overhead = 0 \/ mtu - a.size < overhead

Apply(f) ==
  LET a == Configured(effective_cycle(f), f)
  IN  /\ Calibrated
      /\ applied' = a
      /\ overhead' = IF tightens(a) THEN mtu - a.size ELSE overhead
      /\ \/ tightens(a) /\ cache' = Truncated(mtu) /\ stage' = "savingTightened"
         \/ UNCHANGED cache /\ stage' = "applied"
      /\ UNCHANGED <<sdk, process, link, vars>>

SaveTightened ==
  /\ stage = "savingTightened"
  /\ cache' \in {Saved, cache}
  /\ stage' = "applied"
  /\ UNCHANGED <<sdk, process, link, overhead, applied, vars>>

\* configureFormat() with the size the SDK answers.
Configure ==
  /\ stage = "applied"
  /\ configureFormat(frame(applied.f), applied.size, applied.f.rate * 100 * frame(applied.f))
  /\ stage' = "open"
  /\ UNCHANGED <<sdk, cache, process, link, overhead, applied>>

Cycle == stage = "open" /\ getNewStream /\ UNCHANGED modeVars

SyncGone ==
  /\ bpf' = 0 /\ intended' = 0 /\ streamBytes' = 0 /\ remainder' = 0 /\ room' = 0
  /\ acc' = 0 /\ want' = 0 /\ cycles' = 0 /\ given' = 0

\* The sink refuses the format, a later step of the open fails, or the Sync
\* is torn down or released.
Close ==
  /\ Calibrated \/ stage \in {"applied", "open"}
  /\ stage' = "ready" /\ applied' = Nothing
  /\ SyncGone
  /\ UNCHANGED <<sdk, cache, process, link, overhead>>

\* The process ends at any point.
Die ==
  /\ stage # "down"
  /\ stage' = "down" /\ applied' = Nothing
  /\ SyncGone
  /\ UNCHANGED <<sdk, cache, process, link, overhead>>

ModeNext ==
  \/ Start \/ Resolve \/ Calibrate \/ SaveCalibration
  \/ \E f \in Formats : Apply(f)
  \/ SaveTightened \/ Configure \/ Cycle \/ Close \/ Die

ModeSpec == ModeInit /\ [][ModeNext]_allVars

-----------------------------------------------------------------------------
(* Properties. *)

\* Type invariant: what is kept as an overhead is one.
ModeTypeOK ==
  /\ sdk \in Sdks /\ opts \in Options /\ path \in Mtus /\ mtu \in Mtus /\ wire \in Mtus
  /\ cache \in [Mtus -> 0..199] /\ overhead \in 0..199
  /\ applied.f \in Formats \cup {NoFormat} /\ applied.us \in Nat /\ applied.packets \in Nat
  /\ stage \in {"down", "ready", "resolved", "savingCalibration", "calibrated",
                "savingTightened", "applied", "open"}
  /\ TypeOK

\* Whatever was probed, played, loaded or cut short by a crash, an overhead
\* on file is never less than the bytes a packet really loses: no later
\* format is sized past its packet ("Never store a 2-packet leftover", and
\* "a jumbo NIC with the Target still at 1500 calibrates against 1500").
OverheadSafe == \A m \in Mtus : cache[m] > 0 => cache[m] >= sdk.overhead

\* A file that holds an overhead is opened for writing only to make it
\* smaller: neither what was measured at another MTU nor a longer leftover
\* of this format replaces it.
CacheOnlyTightens ==
  [][\A m \in Mtus : cache[m] > 0 /\ cache'[m] # cache[m] => m = mtu /\ overhead' < cache[m]]_allVars

\* Modes auto and autofix play one packet per cycle, whether or not the user
\* gave a cycle time, as soon as the shortest cycle fits a packet.  The VarMax
\* branches retry, so that without a known overhead an SDK that does not round
\* up may lose 7 frames more than the guess.  The VarAuto branches need an
\* overhead that is known or no more than the guess and, with a cycle of the
\* program's own, an SDK whose cycle of whole frames is no longer for having
\* been rounded to a microsecond.
FitsAtAll(f) == CyclePackets(100, f) <= 1
Retried(f) == IF opts.cycle > 0 THEN opts.cycle > safe_max(f) ELSE ~LowBitrate(f) /\ ~f.dsd
OverheadCovered == overhead > 0 \/ sdk.overhead <= default_overhead_guess(mtu)
Exact(f) ==
  \/ sdk.rounding \in {"down", "nearest"}
  \/ sdk.rounding = "bytes" /\ f.rate * frame(f) < 20000
RetriesSuffice(f) ==
  \/ OverheadCovered
  \/ sdk.rounding # "up" /\ sdk.overhead <= default_overhead_guess(mtu) + 7 * frame(f)
OneShotSuffices(f) == OverheadCovered /\ (opts.cycle > 0 \/ Exact(f))

OnePacketPerCycle ==
  (/\ applied # Nothing /\ opts.mode \in {"auto", "autofix"} /\ opts.limit = 0
   /\ FitsAtAll(applied.f)
   /\ IF Retried(applied.f) THEN RetriesSuffice(applied.f) ELSE OneShotSuffices(applied.f))
    => applied.packets = 1
=============================================================================
