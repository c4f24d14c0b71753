# TLA+ models of scream2diretta

scream2diretta receives Scream audio packets over UDP and plays them on a
Diretta target. This directory holds TLA+ modules of the program's own logic,
TLC runs that check them on small instances, and TLAPS proofs of the results
that matter most. Source references are to `src/src/` (`diretta.cpp` and so
on) unless a longer path is given.

`PROJECT.json` is the index: components, runs, one mutant per property (a
plausible bug that the property catches), the source lines of every modelled
definition, findings, hazards and theorems.

## 1. The system

Three kinds of thread share one queue:

    sender --UDP--> receiver thread --PcmRing--> SDK send thread --> Diretta target
                    main(), rcv_network()        getNewStream()
                    diretta_output_send/tick
                        |  starts and joins
                        v
                    open worker (one)  ----  cleanup threads (detached, many)
                        |
                        v
                    overhead files, one per MTU

| Component | State | Operations | What makes it correct |
|---|---|---|---|
| Receive loop: `network.c`, `main()` | `g_shutdown_pending`, the datagram in hand | `rcv_network`, `on_term_signal`, the main loop | a signal always ends the program; only audio of the allowed sender is played; silence keeps the heartbeat going |
| Format construction and sizing: `build_format`, `configure_unified_queue`, `configureFormat` | format scalars, queue size, three thresholds | validate a header, size the ring, tune the Sync | a ring is never clamped below its thresholds; two computations of the same number agree |
| Ingress: end of `diretta_output_send` | `partial_frame`, DSD transform flags | complete a carried frame, convert, push, carry the tail | the queue sees whole frames, each byte on its channel, with the transform that the last open negotiated |
| Queue: `PcmRing` | buffer, two atomic indices, counters | `pushFrames`, `popOrSilence`, `clear`, `resize` | no copy overlaps the other side's; a bounded FIFO of whole frames |
| Pull callback: `ScreamDirettaSync` | `m_active`, `m_ringUsers`, gate flags, thresholds, cycle remainder | `getNewStream`, `activate`, `deactivate`, `resetGate`, `configureFormat` | nobody is in the ring while its owner rebuilds it; full blocks are real audio; audio flows; the average rate is the SDK's |
| Sync lifecycle: `diretta_output_send`, `diretta_output_tick`, async open | installed and pending Sync, open state, flags, deadlines | open, install, lose, retry, pause, resume, release, change format, shut down | never two Syncs, never one of the wrong format, none leaked, always a way back to sound |
| Underrun observer | the last counter value seen, the episode flag | `poll_underrun_events`, `dbg_reset_open_flags` | an underrun is logged, whatever the Sync before left behind |
| Transfer mode, cycle time, overhead calibration: `open_sync_worker_blocking`, `apply_transfer_mode` | `mtu`, `inferred_overhead`, a file per MTU | resolve the MTU, load, calibrate, save, apply a mode, tighten | no overhead on file is smaller than the real one, whenever the process dies; one packet per cycle where the mode promises it |
| Start-up, logging, statistics, diagnostics, raw output, options | - | - | - |

Interaction is by direct calls on the receiver thread, by the ring and the
atomics of the Sync between receiver and send thread, by `async_open_state`
and `async_open_pending_sync` between worker and receiver, by
`g_inflight_cleanups` between cleanup threads and receiver, and by the
overhead files between one process and the next.

The hard behaviours: the two sides of the lock-free ring; the owner's
`deactivate()` against a cycle that has just passed the gate; a format change
while an open is in flight; failed opens, lost sinks and retries with
backoff; deadlines that move; counters that are zeroed under their observer;
frames that straddle packets; a signal between a test and a blocking call; a
process that dies between truncating a file and writing it.

## 2. Modules

| Module | Models | State to code |
|---|---|---|
| `FrameQueue` | the abstract queue: a bounded FIFO that accepts whole frames or drops them, and gives out blocks | none: it is what `PcmRing` promises |
| `PcmRing` | `diretta_ring.h` | `wp`, `rp`, `buf` are the members; `ppc`/`data` and `cpc`/`want`/`take` are the operation in progress on each side, cut into load, copy and publish |
| `SyncPull` | `getNewStream()` against its owner | `pc` is the place in `getNewStream()`, `owner` the place of the receiver thread; each step has at most one access to a shared variable; the ring is its fill in frames |
| `RingPull` | the same on a ring whose operations take time | extends `SyncPull`; `block` is a push between load and store of its index, `popping`/`granted` a pop |
| `UnderrunWatch` | `poll_underrun_events()` against the send thread | extends `SyncPull`; `underruns` is `m_underrunEvents`, `due` the place in the poll, which reads the counter and the flag in two steps |
| `CycleSize` | the cycle part of `configureFormat()` and the drift compensation | `streamBytes`, `remainder`, `acc`, `room` are members; `cycles`, `given` are history |
| `TransferMode` | what the open worker settles between `setSink()` and `connectPrepare()`, over several opens and processes | extends `CycleSize`; `mtu`, `overhead` are fields of `g_st`, `cache` the files, `stage` the place in the worker; `wire` is history: the MTU of the last `setSink()` that succeeded |
| `Session` | the abstract player: silent, playing, paused, ended | none: it is what `Backend` promises |
| `Backend` | the Sync's life | one variable per field of `DirettaState` that decides something; `pc` cuts `diretta_output_send()` where the open worker can be noticed; a deadline is the time left to it |
| `FrameCarry` | bytes of packets to frames of the queue | `carry` is `partial_frame[0..partial_frame_len)`; a byte is its position in the stream, a transform is a tag; `flags` are the two DSD flags, `sink` what the last open negotiated, any transform each time; `torn`, `lost`, `stale` are history |
| `ReceiverLoop` | `rcv_network()` inside `main()` | `pc` is the next call; a datagram is its sender and its size |
| `FormatSizing` | headers to sizes and thresholds, in real units | `queue` is what `configure_unified_queue()` leaves, `scalars` what the worker reads, `sync` what `configureFormat()` computes |
| `*Proofs` | theorems about the module of that name; `SyncPullProofs` also about `RingPull` and `UnderrunWatch` | |
| `MC*` | values of the constants | |

How they fit together.

- `PcmRing` has the copies of the ring and implements `FrameQueue`, a queue
  with one step per operation and side. `SyncPull` uses the ring as a counter
  that changes in one step. `RingPull` joins the two: pushes and pops are cut
  between the load of the other side's index and the store of their own, and
  it implements `SyncPull` (proved).
- `UnderrunWatch` composes `SyncPull` with the observer; it implements
  `SyncPull` (proved), so nothing of it has to be checked again.
- `TransferMode` hands the size the SDK answers to `CycleSize`'s
  `configureFormat()` and lets cycles run on it.
- `Backend` implements `Session` under the mapping `phase` <- what is
  installed and let in, `plays` <- `sync`, `wanted` <- `fmt`. It leaves the
  inside of a pull to `SyncPull` and keeps `m_active` and whether cycles have
  been seen.
- `FrameCarry` takes from `Backend` the events that touch the carry and the
  queue, in any order, a superset of the orders `Backend` allows.
- `SyncPull` and `CycleSize` both have the drift accumulator: the first for
  the size of the cycle being served, the second for the sum over all cycles.

The SDK is external. `TransferMode` has it as a function from cycle time to
bytes and packets with four ways of rounding (up to a frame, down, to the
nearest, to bytes) and a real overhead the program does not know; the modes'
profile calls other than VarMax's retry differ only in which function the SDK
is asked for, and share `Configured`. A save may fail to open its file, which
then stays as it is, or to write it, which leaves it empty; the code logs both
and goes on.

Sequential consistency is assumed for the atomics. In `PcmRing` each index is
written by one side with release and read by the other with acquire, which
makes a copy visible before its publication; the two-phase guard of
`RingUserGuard` and `deactivate()` (`diretta_sync.cpp:36-61`, `:89-104`) is a
store followed by a load of the other variable on both sides, and that needs
the sequentially consistent order the model has.

## 3. Runs

| Run | What it asks | Bounds |
|---|---|---|
| `pcm_ring` | no data race, whole frames, accounting, refinement of `FrameQueue` | ring of 8 bytes; frames of 2 and 3 bytes, so that a frame meets every wrap position and the free byte leaves odd room; bursts up to 3 frames (more than fit); 15 bytes offered, two turns of the ring |
| `sync_pull` | ownership, full pops are covered, the head of a track survives, `deactivate()` returns, audio flows, an underrun is logged | 4 frames; prefill 0, 2 and 4 (the whole ring), rebuffer below and above it; a cycle of one frame plus an extra one every third; two underruns told apart; unbounded sequences of pause, resume, resize, reopen |
| `underrun_missed` | violation: no underrun is missed after a resume | same |
| `sync_pull_drain` | violation: the account of an underrun cycle, on `RingPull` | 5 frames; prefill 0, 3 and 5 |
| `backend` | one Sync, right format, way back, never deaf, no leak, refinement of `Session`, audio returns, idle release | two formats and spurious packets; every timer of one to three units in the code's order of magnitude; three cleanup threads; shutdown at any point |
| `backend_idle` | violation: idle release of any installed Sync | one format |
| `backend_hang` | violation: a format change opens although a cleanup hangs | two formats, two cleanups, no fairness of `CleanupEnds` |
| `frame_carry` | reassembly, channels after loss, DSD transform | formats 4 to 3, 3 to 3 and 4 (DSD) bytes; packets of 1 to 6 bytes against frames of 3 or 4; 12 bytes, three or four frames, in a queue of two; each DSD open ends in either of two transforms |
| `receiver_loop` | what is played, end on a signal, heartbeat in silence | two datagrams in the socket; sizes one below, at and one above the header; two unexpected errors |
| `format_sizing` | sizes and thresholds | real rates, channels and units: extremes of both and refused values next to them; ring 50 to 5000 ms, prefill 0 to 5000 ms; rebuffer 0 and 95 % |
| `transfer_mode` | overhead never too small, files only tightened, one packet per cycle, average rate, buffer | real units; path and sink at 1500 or 3824; seven SDKs with overheads around the code's guesses (6, 22), each way of rounding, with and without calibration formats; seven formats on both sides of every rule, up to DSD512; 18 option sets; 6 cycles after each configuration |
| `transfer_wire` | violation: overhead never too small, when `setSink()` may fail | same |

Why the bounds are enough: the ring is symmetric in its positions, so what
can happen depends on fill, frame size and the parity of size and frame; every
such case occurs in two turns. The pull protocol has one cycle in progress and
one owner, both unbounded in time; the observer only compares its value with
the counter, and two values above zero give smaller, equal and larger. The
backend's timers only matter by their order of expiry, which small values
enumerate. Frames of the carry longer than four bytes only add positions
between first and last. The transfer mode's arithmetic is not scaled: its
numbers are those of real links, and the number of opens and processes is
unbounded.

`CHECK_DEADLOCK FALSE` is set for `ReceiverLoop` because `main()` returns.
`Backend` ends in a stuttering `Terminated`.

### Fairness

- `SyncPull`: weak fairness of `getNewStream()` (the SDK calls it each cycle),
  of the steps inside `deactivate()`, and of `Push` for `PlaybackFlows`, which
  is about a stream whose packets keep coming. `UnderrunWatch` has the same and
  weak fairness of the two reads of a poll: a packet in hand is handled to its
  end.
- `Backend`: weak fairness of each thread with work in hand, and strong
  fairness of `Elapse`: time passes whatever the receiver does, but in the
  model only between packets, so a weak form would let packets without end
  stop the clock. `CleanupEnds` is fair except in `backend_hang`. Nothing is
  assumed of packets, of opens succeeding or of the connection; the liveness
  properties state those as hypotheses.
- `ReceiverLoop`: weak fairness of the thread. A `select()` on an empty socket
  ends; datagrams may come or stop at will.
- `TransferMode` has none: its properties are of safety, and the process may
  die at any point.

## 4. What is proved

For every value of the constants, checked by TLAPS:

| Theorem | Statement |
|---|---|
| `PcmRingProofs!TypeCorrect`, `ReservationsHold`, `BytesAccounted`, `RaceFree`, `RingImplementsFrameQueue`, `FramesStayWhole` | the ring's types; what is being written fits and what is being taken is there; no byte of the statistics lost or doubled; the two copies touch disjoint slots; the ring implements `FrameQueue`; it holds whole frames in their order |
| `SyncPullProofs!TypeCorrect`, `RingIsOwned`, `FullPopsAreCovered`, `HeadsSurvive` | the protocol's types; after `deactivate()` no cycle is inside the ring; a full pop has prefill passed, no rebuffering, and the block in the ring; nothing is taken before the ring has been primed |
| `SyncPullProofs!RingPullImplementsSyncPull`, `RingClearedAtRest`, `FullPopsAreWhole`, `RingKeepsSafety`, `RingKeepsHeads` | on a ring whose pushes and pops overlap the protocol is still `SyncPull`; no pop is under way in a ring that its owner clears; a full pop takes its whole block; the three properties above hold of the ring's own indices |
| `SyncPullProofs!WatchImplementsSyncPull`, `WatchTypeCorrect` | with the observer the receiver still implements `SyncPull`; the types of the composition |
| `CycleSizeProofs!TypeCorrect`, `AverageHolds`, `CyclesFit` | less than a frame is ever owed; the bytes given are within one frame of what the SDK asked for after any number of cycles; each cycle is whole frames and fits its buffer |
| `TransferModeProofs!ModeTypeCorrect`, `OverheadSafeHolds`, `CacheTightens`, `OnePacketHolds`, `ModeAverageHolds`, `ModeCyclesFit` | an overhead kept is one the code accepts; if `setSink()` does not fail, none on file is smaller than the real one; a file is rewritten only to a smaller value and only for the MTU in use; auto and autofix play one packet per cycle wherever `OnePacketPerCycle` says so; the cycle arithmetic holds through any sequence of opens |
| `BackendProofs!TypeCorrect`, `OneSyncHolds`, `RightFormatHolds`, `WayBackHolds`, `NeverDeafHolds`, `NothingDropped`, `BackendImplementsSession` | the lifecycle's safety properties; no step drops a Sync without handing it to a cleanup; the lifecycle implements `Session` |
| `FrameCarryProofs!TypeCorrect`, `LosslessHolds`, `InPlaceHolds`, `RightTransformHolds` | less than a frame is carried; without loss the queue is the stream's frames in order; after loss of whole frames every byte is on its channel; whatever each open negotiates, queued frames have the transform of the open in place, except exactly those that an open kept when it went back to none |
| `FormatSizingProofs!TypeCorrect`, `GatesWithinReach`, `SinkAtWireSpeed`, `TwoSizingsAgree` | for every header and every setting of the command line: the worker's scalars are in range, a wire frame fits the carry buffer, a queued frame is no larger, and the ring is a power of two up to 256 MiB that holds a frame and what was asked for; every threshold within reach of a ring that is never clamped; the sink consumes what the wire carries; the two sizings agree |
| `ReceiverLoopProofs!TypeCorrect`, `OnlyAllowedHolds`, `NothingPlayedLate` | the loop's types; only a whole datagram of the allowed sender is played; nothing read after the stop signal is played |

Assumptions are those named in the modules: a ring has at least two bytes, a
frame at least one, thresholds and bounds are natural numbers, the formats are
not the values that stand for none and for a spurious packet, an MTU is at
least 64 and a packet's real overhead below it. Two modules need the ranges
the program enforces: `TransferMode` wire rates from 44.1 to 768 kHz, 1 to 16
channels and a user cycle of 333 to 10000 us or none, `FormatSizing` a ring of
50 to 5000 ms, a prefill up to 5000 ms and a rebuffer target up to 95 %; which
headers are accepted it takes from `validate_format()`. `OverheadSafeHolds`
and `OnePacketHolds` also assume `~SetSinkMayFail`; `transfer_wire` shows that
the first has to.

Inductive invariants.

- `PcmRing`: `TypeOK`, `Reserved` and `EveryByteAccounted`. Disjointness of
  the copies is not inductive alone: it follows from the reservation that
  `available + Len(data) <= size - 1` and `take <= available`, which says
  that an index moved by the other side since it was loaded only makes more
  room. The lemmas about `%` on a ring are in the proof module. The refinement
  adds `CopiesHold` (between the memcpy and the store of its index a copy
  stays what it was, because the other side's slots are disjoint from it). The
  load of the indices is the queue's `Offer` or `Ask`, the store its `Commit`
  or `Answer`, and the memcpy a stutter. `FramesFlow` is an invariant of
  `FrameQueue`'s own steps, reached through the refinement: the queue is cut
  at frame boundaries and what is on its way to it comes later in the stream.
- `SyncPull`: `TypeOK`, `OwnerAlone`, `RealPopCovered`, and three parts that
  carry them. `UsersCounted` ties `m_ringUsers` to the place in
  `getNewStream()`, `ActiveWhilePlaying` ties `m_active` to the owner,
  `GatesAlongPath` says what each label knows of the gate flags, in
  particular that a set fast-path flag implies both gates passed.
  `HeadSurvives` is an action property and takes `HeadInv` with it: a cycle
  that has passed the prefill gate belongs to a ring that has been primed.
- `RingPull`: `SyncPull`'s invariant holds of it unchanged, because a push
  that publishes is a push of `SyncPull`, and so is the end of a pop whose
  block is covered. Only the pop of an underrun cycle is not: frames that come
  while it copies would have been taken by a pop that happened at its end.
  `UnderWay` says what is in progress: the room a push found is still there,
  the frames a pop found still are, and a full pop found its whole block. The
  refinement lets a pop take effect at its load and a push at its store, so
  that `fill - granted` is `SyncPull`'s fill. The owner's `clear()` is a step
  of `SyncPull` only because `OwnerAlone` excludes a pop in progress, and a
  push that publishes during a pop agrees with it on `primed` only because
  that pop passed the prefill gate.
- `UnderrunWatch`: each of its steps is a step of `SyncPull` or leaves its
  variables alone; the counters' types need nothing else.
- `CycleSize`: `TypeOK` with `Accounts`: what the truncation took is either
  owed (`acc`) or given. `AverageKept` is that equation with `acc < bpf`.
- `TransferMode`: `FileFollows` says that until a mode is applied the worker's
  overhead is not above what the file of its MTU holds, if it holds anything,
  and that the file is empty while it is being saved; `CacheOnlyTightens` needs
  it, because the test before a save compares with the field and not with the
  file, and a save may have failed. `Safe` extends
  `OverheadSafe` to the field. Both rest on `OnePacketFits` (what the SDK
  sends as one packet is at most the MTU less its overhead) carried through
  the retries (`VarMaxTypes`) and the probe (`ProbeFits`).
  `OnePacketPerCycle` is about the rounding to frames, to microseconds and by
  the SDK, which together cost less than a frame (`BytesRounded`). An SDK that
  does not round up takes one frame less after each retry, so that the eight
  of VarMax make up for a guess seven frames short (`OneFrameLess`,
  `EightFramesLess`); one that rounds up is asked for a microsecond less by
  the first retry, which fits (`RoundedUpRetry`). What carries it across steps
  is `Below` (no overhead kept is as large as its MTU) and `Unapplied` (no
  format outlives its open).
- `Backend`: the properties are inductive only together and with the place in
  a packet: `PacketAlongPath` (what a label knows of packet and queue),
  `GateFollowsPause` (the gate is open for an installed Sync that is not
  paused), `ChangeOwnsTheOpen` (a pending change is never left to an open in
  flight), `OpeningFormat`, and `WayBackAlongPath`, the form of
  `AlwaysAWayBack` and `NeverDeaf` that also holds inside a packet. The
  refinement maps a step of the receiver that installs, pauses, resumes,
  drops or rebuilds to the action of that name and every other to a stutter.
- `FrameCarry`: `Tagged` (every queued frame went through the transform in
  force, except exactly the `stale` ones at the head of the queue, which exist
  only while that transform is none; an installed Sync's sink expects the one
  in force), `Aligned` (carry and stream position are at the same place of a
  frame, and so is every byte of the queue, unless part of a frame was lost)
  and `Exact` (without loss the carry ends where the stream is and the queue
  holds earlier frames in order). `Exact` does not follow from `Aligned`, nor
  the other way: after a loss of whole frames only the latter is left.
- `ReceiverLoop`: `TypeOK`, `SizeAlongPath` and `LateAlongPath`. `n` and
  `audio_size` outlive their iteration, so what is played is right only because
  of what each label knows of them: inside `rcv_network()` no size has been
  given out yet, and one that is given out is that of an accepted datagram.
  `late` implies the flag, which every test before `send` looks at.

- `FormatSizing`: the queue is what some accepted header gives, and so are
  the scalars and the Sync (`IInv`). The rest is arithmetic over all of them.
  A container rate is a table rate times a power of two (`RateOfHeader`); the
  32-bit multiplications and divisions by parts are exact (`SpanningExact`);
  5 s of the fastest format stay below the cap on the ring, which is thus never
  clamped (`Asked`, `Capacity`). A ring of power-of-two size holds one byte
  less than its size, so a prefill as long as the ring is in reach only if it
  does not fill it: no whole number of milliseconds of a table rate is a power
  of two of bytes (`NeverFull`), except where the frame does not divide the
  ring and the last byte is spare anyway (`LastByteSpare`). The rebuffer
  target is at most 95 % of it (`RebufferReach`).

Only model-checked: liveness (`DeactivateReturns`, `PlaybackFlows`,
`UnderrunReported`, `AudioReturns`, `StartedSyncReleased`, `ShutdownObserved`,
`TickWhenSilent`), which is out of the prover's reach. Every other property of
a passing run is proved. The properties of the five violation runs are, of
course, not.

## 5. Findings

Each is a run that TLC finds violated; `PROJECT.json` quotes the line it
contradicts.

1. `sync_pull_drain`: the underrun branch reads the fill three times. A push
   in between makes `avail_before` larger than the cycle, and the diagnostics
   are handed more bytes than the buffer holds (`diretta_sync.cpp:412`).
2. `backend_idle`: only a packet can promote `stream_started`, so a Sync
   installed by the last packet of a short sound is never paused or released.
3. `backend_hang`: deferring an open moves the time stamp from which its own
   deadline is counted; a hung cleanup blocks a format change for as long as
   packets come.
4. `underrun_missed`: the resume of a paused Sync zeroes its underrun counter
   but not the observer's copy; the next underruns, up to as many as were seen
   before the pause, are neither logged nor counted (`diretta.cpp:4182`).
5. `transfer_wire`: when the second `setSink()` fails, packets go on at the
   path MTU but calibration and cycle time are computed for the MTU the sink
   asked for, and an overhead that is too small is stored under it
   (`diretta.cpp:1979`).

Observations met while modelling, which no run is about:

- A teardown in mid-frame drops the carried bytes (`diretta.cpp:2783`), so
  that every later frame is shifted until the next format change, against the
  comment at `:217-219`. It needs a sender whose packets are not whole frames.
- Refused or short datagrams restart the 500 ms of `select()`
  (`network.c:205`, `:254`); while they keep coming the heartbeat, which
  `src/CHANGELOG.md:272-274` relies on, does not run.
- `--pcm-prefill-ms 0` is accepted. The open gate then waits for nothing
  (`diretta.cpp:1492`) but the worker gives the Sync 500 ms (`:2283`), against
  the comment at `:1514-1515`. `SizedAlike` holds for every other value.
- `src/README.md:282-288` says that every mode keeps a single packet per
  cycle. Only auto and autofix do: varmax with its retries unless they run
  out, the others with `--cycle-time` not at all, and the VarAuto branches,
  which do not retry, not on an SDK that rounds a cycle up, nor at the rates
  of DSD256 and above on one that rounds it to bytes, where a microsecond is
  worth more than what is lost to whole frames (`OnePacketPerCycle` says when).
- An overhead that calibration could not measure and a first format left far
  too large is kept until another format leaves less: it makes the cycle
  short, and a short cycle leaves as much again.
- A resume while an underrun episode is being logged ends it with an
  `underrun_recover` line whose `silent_cycles_delta` has wrapped
  (`diretta.cpp:3169-3172`), because `resetGate()` has zeroed the counter.
- An underrun that is followed by a pause before the next packet's poll is
  never reported.
- A cycle in flight can set `m_steadyState` again after `deactivate()` cleared
  it (`diretta_sync.cpp:93`, `:457`). It does no harm because every way back
  to play goes through `resetGate()`, which is what `RealPopCovered` shows.
- Every open negotiates the DSD mode anew and may end in another one
  (`diretta.cpp:2008-2029`: a `setSinkConfigure()` that fails goes to the next
  mode, and `FMT_DSD1` is the last resort), but installing it empties the queue
  only if the new transform does something (`:2419`). A reopen that goes back
  to none keeps frames the old flags transformed, and they are played with the
  wrong bit or byte order; the comment at `:2409-2413` takes what is queued to
  be untransformed. `RightTransform` excepts exactly these frames, the `stale`
  ones; TLC reaches them in five states (open with a transform, a packet, sink
  lost, reopen without).
- A DSD sink that negotiates a transform loses the queue kept for it on each
  reconnect (`diretta.cpp:2420`), although those bytes were already converted.
- `conn_lost_logged` is always clear when a Sync is installed, so the
  immediate reopen that tests it on a lost sink is never taken.
- The comment at `diretta.cpp:2874` says the worker activates the Sync; the
  receiver does, on installation.
- `reconfigure()` joins the open worker on the receiver thread: packets wait,
  and so does the heartbeat, for as long as the SDK's connect takes.
- 8 bit PCM has a format identifier but no wire size, and is refused.
- The catch of `diretta_output_send()` speaks of "this cycle", but its return
  value ends the main loop (`diretta.cpp:4657-4663`, `scream.c:1214`).
- The ingress-tap comparator captures the raw side of a packet
  (`diretta.cpp:4055-4066`) before `reconfigure()` rearms both sides
  (`:2945`), so the first packet of each format is only on the ingress side
  and the two windows are a packet apart: it does not answer what
  `diretta.h:173-179` says it does.
- A dumper that has closed its file at the cap opens another for the next
  packet of the same format (`pcm_dump.cpp:109-125`), where `pcm_dump.h:31-33`
  says that the cap re-arms on a format change.
- The payload and raw taps do not look at the wire layout: a change between
  S24_LE and S24_3LE does not rearm them.

## 6. Not modelled

- The Diretta SDK: `is_connect()`, connect and close are external choices,
  `getCycleSize()` and `getCyclePackets()` an external function.
- Start-up (`diretta_output_init`, discovery, target selection): one pass of
  argument checks and blocking SDK calls before any packet, with nothing to
  interleave. What it leaves behind is in the initial states of `Backend`,
  `FormatSizing` and `TransferMode`.
- Option parsing, thread priorities, logging, statistics, raw output: no state
  that later steps depend on. The option ranges appear as the assumption of
  `FormatSizing` and the option sets of `TransferMode`.
- Diagnostics (dumpers, analyser, fader, taps, comparators): observers, off by
  default and compiled out in production builds; no decision of the playback
  path reads them. What reading them showed is among the observations above.
- The byte rearrangement of legacy DSD in `rcv_network()` and the NIC time
  stamp: data that no modelled decision reads.
- The figures in the underrun log lines, and the reasons of the transfer-mode
  log lines.
- Writing an overhead file in parts: the text is a number of at most three
  digits, written by one call.
- Weak memory beyond the argument in section 2.

## 7. Plan

Done, in this order: `FrameQueue`, `PcmRing` and its proofs; `SyncPull` and
its proofs; `Backend`; `FrameCarry`; `ReceiverLoop` and its proofs;
`FormatSizing`; `CycleSize` and its proofs; `UnderrunWatch` and its proofs;
`Session`, `TransferMode`; the proofs of `Backend`, `FrameCarry` and
`TransferMode`; the proofs that `PcmRing` implements `FrameQueue` and keeps
frames whole; the proofs of `FormatSizing` and of `OnePacketPerCycle`;
`RingPull` and the proof that it implements `SyncPull`.

Left, in order:

1. Shutdown with both threads: `Backend`'s `CloseAtShutdown` against
   `SyncPull`'s cycle in flight.
2. Legacy DSD rearrangement and the converters as operators against a
   reference permutation, with frames of other than two channels.
3. The comparators and dumpers, as a module of windows and rotations.
