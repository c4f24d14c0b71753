----------------------------- MODULE FrameCarry -----------------------------
(***************************************************************************)
(* Ingress of diretta_output_send(): from the bytes of a packet to whole   *)
(* frames in the queue.                                                    *)
(*                                                                         *)
(* A packet need not end on a frame boundary: its tail is carried into the *)
(* next one.  Frames are converted on the way, S24_LE packed into S24_3LE, *)
(* DSD words rearranged as the sink has negotiated.  Around it the Sync is *)
(* torn down, reopened, paused and resumed (module Backend says when), and *)
(* the network loses packets.                                              *)
(*                                                                         *)
(* A byte is its position in the sender's stream since the format change.  *)
(* PcmRing shows the queue to be a bounded FIFO that drops the newest.     *)
(***************************************************************************)
EXTENDS Integers, Sequences

CONSTANTS Formats,      \* records [src, dst, dsd]: bytes per frame from the
                        \*   sender and in the queue, is_dsd
          Transforms,   \* what a sink may ask of DSD words
          Plain,        \* neither bit reversal nor byte swap
          Cap,          \* frames the queue holds
          MaxPacket,    \* bound: bytes of a packet
          MaxStream     \* bound: bytes sent in one format

ASSUME FormatAssumption ==
  \A f \in Formats : /\ f.src \in Nat \ {0} /\ f.dst \in Nat \ {0} /\ f.dsd \in BOOLEAN
                     /\ f.src = f.dst \/ (~f.dsd /\ 3 * f.src = 4 * f.dst)
ASSUME BoundAssumption ==
  Plain \in Transforms /\ Cap \in Nat /\ MaxPacket \in Nat /\ MaxStream \in Nat

VARIABLES fmt,          \* the current format's record
          carry,        \* partial_frame, partial_frame_len
          queue,        \* frames, each [bytes, by]: what it holds and the
                        \*   transform it went through
          flags,        \* dsd_needs_bit_reverse, dsd_needs_byte_swap
          sync,         \* no Sync, one that plays, one that is paused
          sink,         \* the transform its sink has negotiated
          pos,          \* bytes sent since the format change
          lost,         \* history: what the network has lost of them
          torn,         \* history: a teardown has dropped a carried tail
          stale         \* history: frames at the head of the queue that a
                        \*   reopen has kept though it changed the transform

vars == <<fmt, carry, queue, flags, sync, sink, pos, lost, torn, stale>>

Least(a, b) == IF a < b THEN a ELSE b
packs == fmt.src # fmt.dst          \* pcm_needs_pack_24

Init ==
  /\ fmt \in Formats
  /\ carry = <<>> /\ queue = <<>> /\ flags = Plain
  /\ sync = "none" /\ sink = Plain
  /\ pos = 0 /\ lost = "nothing" /\ torn = FALSE /\ stale = 0

-----------------------------------------------------------------------------
(* Conversion. *)

(* pcm_pack_24le: the low three bytes of each four. *)
PackedHigh(f) ==                    \* mutant: the high three
  [i \in 1..fmt.dst |-> f[4 * ((i - 1) \div 3) + ((i - 1) % 3) + 2]]
Packed(f) ==
  [i \in 1..fmt.dst |-> f[4 * ((i - 1) \div 3) + ((i - 1) % 3) + 1]]

(* queue_push_frames_converted on one frame; dsd_transform is its tag. *)
Converted(f) ==
  [bytes |-> IF packs THEN Packed(f) ELSE f,
   by    |-> IF fmt.dsd THEN flags ELSE Plain]

Frames(bs) ==
  [k \in 1..(Len(bs) \div fmt.src) |->
     Converted(SubSeq(bs, (k - 1) * fmt.src + 1, k * fmt.src))]

Pushed(fs) == queue \o SubSeq(fs, 1, Least(Len(fs), Cap - Len(queue)))

-----------------------------------------------------------------------------
(* A packet. *)

neededOfQueue == fmt.dst - Len(carry)      \* mutant: the queue's frame size
needed == fmt.src - Len(carry)

NextBytes(n) == [i \in 1..n |-> pos + i - 1]
Sent(n) == pos + n <= MaxStream /\ pos' = pos + n

(* Not even enough to complete the carried frame. *)
StillPartial(n) ==
  /\ carry # <<>> /\ n < needed
  /\ carry' = carry \o NextBytes(n)
  /\ UNCHANGED queue

(* The carried frame completed, the whole frames after it, the new tail. *)
WholeFramesAndTail(n) ==
  LET bs    == NextBytes(n)
      used  == IF carry = <<>> THEN 0 ELSE needed
      first == IF carry = <<>> THEN <<>> ELSE carry \o SubSeq(bs, 1, used)
      whole == ((n - used) \div fmt.src) * fmt.src
  IN  /\ n >= used
      /\ queue' = Pushed(Frames(first \o SubSeq(bs, used + 1, used + whole)))
      /\ carry' = SubSeq(bs, used + whole + 1, n)

Packet(n) ==
  /\ Sent(n)
  /\ StillPartial(n) \/ WholeFramesAndTail(n)
  /\ UNCHANGED <<fmt, flags, sync, sink, lost, torn, stale>>

(* The network loses it. *)
LosePacket(n) ==
  /\ Sent(n)
  /\ lost' = IF lost = "bytes" \/ n % fmt.src # 0 THEN "bytes" ELSE "frames"
  /\ UNCHANGED <<fmt, carry, queue, flags, sync, sink, torn, stale>>

-----------------------------------------------------------------------------
(* Around it. *)

(* reconfigure(), and diretta_output_send() after it. *)
FormatChangeKeepingTail == UNCHANGED carry         \* mutant
FormatChangeDropsTail == carry' = <<>>

FormatChange(f) ==
  /\ f # fmt /\ fmt' = f
  /\ FormatChangeDropsTail
  /\ queue' = <<>> /\ flags' = Plain
  /\ sync' = "none" /\ sink' = Plain
  /\ pos' = 0 /\ lost' = "nothing" /\ torn' = FALSE /\ stale' = 0

(* What an open may end in: each negotiates anew, and takes the first mode *)
(* the sink accepts this time.                                             *)
Negotiable == {s \in Transforms : fmt.dsd \/ s = Plain}

(* finalize_sync_open_on_receiver(): the queue is emptied if the new       *)
(* transform does something, and kept if it is Plain, whatever the queued  *)
(* frames went through.                                                    *)
KeptAlways(s) == queue                             \* mutant
Kept(s) == IF fmt.dsd /\ s # Plain THEN <<>> ELSE queue

Install(s) ==
  /\ sync = "none" /\ sync' = "open"
  /\ s \in Negotiable /\ sink' = s
  /\ flags' = IF fmt.dsd THEN s ELSE flags
  /\ queue' = Kept(s)
  /\ stale' = IF s # Plain THEN 0 ELSE IF flags # Plain THEN Len(queue) ELSE stale
  /\ UNCHANGED <<fmt, carry, pos, lost, torn>>

(* teardown_sync_for_runtime() with the format scalars put back: sink      *)
(* lost, idle release, open grace exhausted.                               *)
Teardown ==
  /\ sync # "none" /\ sync' = "none"
  /\ carry' = <<>>
  /\ torn' = (torn \/ carry # <<>>)
  /\ UNCHANGED <<fmt, queue, flags, sink, pos, lost, stale>>

Pause ==
  /\ sync = "open" /\ sync' = "paused"
  /\ UNCHANGED <<fmt, carry, queue, flags, sink, pos, lost, torn, stale>>

(* The queue is emptied, the carried tail is not: the packet at hand goes  *)
(* on where the last one ended.                                            *)
Resume ==
  /\ sync = "paused" /\ sync' = "open"
  /\ queue' = <<>> /\ stale' = 0
  /\ UNCHANGED <<fmt, carry, flags, sink, pos, lost, torn>>

(* The SDK takes frames; the gates that hold them back are in SyncPull. *)
Drain ==
  /\ sync = "open" /\ queue # <<>>
  /\ queue' = Tail(queue)
  /\ stale' = IF stale = 0 THEN 0 ELSE stale - 1
  /\ UNCHANGED <<fmt, carry, flags, sync, sink, pos, lost, torn>>

Next ==
  \/ \E n \in 1..MaxPacket : Packet(n) \/ LosePacket(n)
  \/ \E f \in Formats : FormatChange(f)
  \/ \E s \in Transforms : Install(s)
  \/ Teardown \/ Pause \/ Resume \/ Drain

Spec == Init /\ [][Next]_vars

-----------------------------------------------------------------------------
(* Properties. *)

(* Type invariant: less than a frame is carried, also after the frame size *)
(* has changed.                                                            *)
TypeOK ==
  /\ fmt \in Formats
  /\ carry \in Seq(Nat) /\ Len(carry) < fmt.src
  /\ queue \in Seq([bytes : Seq(Nat), by : Transforms]) /\ Len(queue) <= Cap
  /\ flags \in Transforms /\ sink \in Transforms
  /\ sync \in {"none", "open", "paused"}
  /\ pos \in Nat /\ lost \in {"nothing", "frames", "bytes"} /\ torn \in BOOLEAN
  /\ stale \in 0..Len(queue)

(* The place in the sender's frame of the j-th byte of a queued one: one   *)
(* padding byte is left out after every three.  The k-th frame so.         *)
Place(j) == (j - 1) + (IF packs THEN (j - 1) \div 3 ELSE 0)
StreamFrame(k) == [j \in 1..fmt.dst |-> k * fmt.src + Place(j)]
FrameNumber(f) == f.bytes[1] \div fmt.src

(* Reassembly is exact: as long as nothing is lost on the way, the queue   *)
(* holds frames of the stream, complete and in order, and the carry is     *)
(* what the stream has sent of the next one, however the packets were cut. *)
Lossless ==
  lost = "nothing" /\ ~torn =>
    /\ \A i \in DOMAIN queue : queue[i].bytes = StreamFrame(FrameNumber(queue[i]))
    /\ \A i \in 2..Len(queue) : FrameNumber(queue[i]) > FrameNumber(queue[i - 1])
    /\ carry = [i \in 1..(pos % fmt.src) |-> pos - (pos % fmt.src) + i - 1]

(* Each byte in the queue is at the place in its frame, so on the channel, *)
(* that the sender gave it.                                                *)
InPlace ==
  \A i \in DOMAIN queue :
    [j \in 1..fmt.dst |-> queue[i].bytes[j] % fmt.src] = StreamFrame(0)

(* A lost packet of whole frames does not move the channels for the rest   *)
(* of the track, even when a tail is being carried.                        *)
InPlaceAfterLoss == lost # "bytes" /\ ~torn => InPlace

(* What the sink in place expects of a queued frame. *)
Expected == IF fmt.dsd THEN sink ELSE Plain

(* A Sync that plays finds each queued frame with the transform its sink   *)
(* has negotiated, those queued before it was known being gone, but for    *)
(* the stale ones: a reopen that goes back to Plain keeps what earlier     *)
(* flags transformed (diretta.cpp:2419), at the head of the queue, and all *)
(* of them are wrong.                                                      *)
RightTransform ==
  sync = "open" => \A i \in DOMAIN queue : queue[i].by = Expected <=> i > stale
=============================================================================
