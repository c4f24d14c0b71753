------------------------------ MODULE PcmRing ------------------------------
(***************************************************************************)
(* The lock-free byte ring of diretta_ring.h between the receiver thread   *)
(* (pushFrames) and the SDK send thread (popOrSilence).                    *)
(*                                                                         *)
(* Each operation is cut where the other thread can come in between: the   *)
(* load of the other side's index, the memcpy, and the store of the own    *)
(* index.  clear() and resize() run on the receiver thread while the send  *)
(* thread is kept out of the ring; module SyncPull shows that it is.       *)
(*                                                                         *)
(* A byte is its position in the stream offered since the last clear().    *)
(***************************************************************************)
EXTENDS Integers, Sequences

CONSTANTS Geometries,    \* records [size, bpf]: ring bytes, bytes per frame
          MaxBurst,      \* frames of one pushFrames call
          MaxAsk,        \* frames of one popOrSilence call
          MaxOffered,    \* bound: bytes offered between two clears
          MaxUnderruns,  \* bound: underruns between two clears
          Silence        \* m_silence

ASSUME GeometryAssumption ==
  \A g \in Geometries : /\ g.size \in Nat /\ g.size >= 2
                        /\ g.bpf \in Nat /\ g.bpf >= 1
ASSUME BoundAssumption ==
  /\ MaxBurst \in Nat /\ MaxAsk \in Nat
  /\ MaxOffered \in Nat /\ MaxUnderruns \in Nat
  /\ Silence \notin Nat

VARIABLES geometry,      \* m_size with the format's bytes per frame
          buf,           \* m_buffer
          wp, rp,        \* m_writePos, m_readPos
          pushedBytes, dropBytes, underrunCount,
          ppc, data,     \* producer: where it is, the bytes it is writing
          cpc,           \* consumer: where it is,
          want, take,    \*   bytes requested, bytes it will take
          dest,          \*   the SDK's buffer
          offered        \* history: bytes offered since the last clear

indexVars == <<geometry, wp, rp>>
prodVars  == <<ppc, data, pushedBytes, dropBytes, offered>>
consVars  == <<cpc, want, take, dest, underrunCount>>
vars      == <<indexVars, buf, prodVars, consVars>>

size == geometry.size
Slot == 0..(size - 1)
Byte == Nat \cup {Silence}

(* Indices are masked with size - 1; for a power of two that is % size. *)
available == (wp - rp) % size
freeSpaceOverwriting == size - 1    \* mutant: a full ring takes any frame
freeSpace == (rp - wp - 1) % size

AdvanceUnmasked(p, n) == p + n      \* mutant: no wrap
Advance(p, n) == (p + n) % size

(* buf after memcpy of bs to position p, in one or two pieces. *)
Written(p, bs) ==
  [s \in Slot |-> LET off == (s - p) % size
                  IN  IF off < Len(bs) THEN bs[off + 1] ELSE buf[s]]
(* n bytes read from position p on. *)
Reading(p, n) == [i \in 1..n |-> buf[(p + i - 1) % size]]

Init ==
  /\ geometry \in Geometries
  /\ buf = [s \in Slot |-> Silence]
  /\ wp = 0 /\ rp = 0
  /\ pushedBytes = 0 /\ dropBytes = 0 /\ underrunCount = 0 /\ offered = 0
  /\ ppc = "idle" /\ data = <<>>
  /\ cpc = "idle" /\ want = 0 /\ take = 0 /\ dest = <<>>

-----------------------------------------------------------------------------
(* Producer. *)

(* What pushFrames accepts of len bytes, fewer when the ring is too full,  *)
(* and what it counts as dropped.                                          *)
FitTorn(len) == IF len > freeSpace THEN freeSpace ELSE len   \* mutant: as push()
Fit(len) == IF len > freeSpace
            THEN (freeSpace \div geometry.bpf) * geometry.bpf ELSE len
DroppedWhole(len) == IF len > freeSpace THEN len ELSE 0      \* mutant
Dropped(len) == len - Fit(len)

(* pushFrames: the load of m_readPos, the truncation to whole frames, the  *)
(* drop counter.  Nothing left to write ends the call.                     *)
PushStart(k) ==
  LET len == k * geometry.bpf
      fit == Fit(len)
  IN  /\ ppc = "idle"
      /\ offered + len <= MaxOffered
      /\ offered' = offered + len
      /\ dropBytes' = dropBytes + Dropped(len)
      /\ data' = [i \in 1..fit |-> offered + i - 1]
      /\ ppc' = IF fit = 0 THEN "idle" ELSE "copy"
      /\ UNCHANGED <<indexVars, buf, pushedBytes, consVars>>

PushCopy ==
  /\ ppc = "copy"
  /\ buf' = Written(wp, data)
  /\ ppc' = "publish"
  /\ UNCHANGED <<indexVars, data, pushedBytes, dropBytes, offered, consVars>>

PushPublish ==
  /\ ppc = "publish"
  /\ wp' = Advance(wp, Len(data))
  /\ pushedBytes' = pushedBytes + Len(data)
  /\ data' = <<>> /\ ppc' = "idle"
  /\ UNCHANGED <<geometry, rp, buf, dropBytes, offered, consVars>>

-----------------------------------------------------------------------------
(* Consumer. *)

(* popOrSilence: the load of m_writePos fixes how much will be taken. *)
PopStart(k) ==
  /\ cpc = "idle"
  /\ underrunCount < MaxUnderruns
  /\ want' = k * geometry.bpf
  /\ take' = IF available < want' THEN available ELSE want'
  /\ cpc' = "copy"
  /\ UNCHANGED <<indexVars, buf, prodVars, dest, underrunCount>>

PopCopy ==
  /\ cpc = "copy"
  /\ dest' = Reading(rp, take)
  /\ cpc' = "publish"
  /\ UNCHANGED <<indexVars, buf, prodVars, want, take, underrunCount>>

PopPublish ==
  /\ cpc = "publish"
  /\ rp' = Advance(rp, take)
  /\ dest' = dest \o [i \in 1..(want - take) |-> Silence]
  /\ underrunCount' = IF take < want THEN underrunCount + 1 ELSE underrunCount
  /\ want' = 0 /\ take' = 0 /\ cpc' = "idle"
  /\ UNCHANGED <<geometry, wp, buf, prodVars>>

-----------------------------------------------------------------------------
(* Control path, on the receiver thread. *)

clear ==
  /\ ppc = "idle" /\ cpc = "idle"
  /\ wp' = 0 /\ rp' = 0
  /\ pushedBytes' = 0 /\ dropBytes' = 0 /\ underrunCount' = 0
  /\ offered' = 0
  /\ UNCHANGED <<ppc, data, cpc, want, take, dest>>

ClearRing == clear /\ UNCHANGED <<geometry, buf>>

resize(g) ==
  /\ clear
  /\ geometry' = g
  /\ buf' = [s \in 0..(g.size - 1) |-> Silence]

Next ==
  \/ \E k \in 1..MaxBurst : PushStart(k)
  \/ PushCopy
  \/ PushPublish
  \/ \E k \in 1..MaxAsk : PopStart(k)
  \/ PopCopy
  \/ PopPublish
  \/ ClearRing
  \/ \E g \in Geometries : resize(g)

Spec == Init /\ [][Next]_vars

-----------------------------------------------------------------------------
(* Properties. *)

(* Type invariant: indices stay inside the ring. *)
TypeOK ==
  /\ geometry \in Geometries
  /\ buf \in [Slot -> Byte]
  /\ wp \in Slot /\ rp \in Slot
  /\ pushedBytes \in Nat /\ dropBytes \in Nat /\ underrunCount \in Nat
  /\ offered \in Nat
  /\ ppc \in {"idle", "copy", "publish"} /\ data \in Seq(Nat)
  /\ cpc \in {"idle", "copy", "publish"}
  /\ want \in Nat /\ take \in Nat /\ dest \in Seq(Byte)

(* No slot is written by the producer's memcpy while the consumer's memcpy *)
(* may read it, although each side works from an index the other side has  *)
(* moved since it was loaded (pushFrames, popOrSilence).                   *)
Writing == {(wp + i) % size : i \in 0..(Len(data) - 1)}
ReadingSlots == {(rp + i) % size : i \in 0..(take - 1)}
NoDataRace == Writing \cap ReadingSlots = {}

(* "This keeps the ring's contents frame-aligned at all times": whatever   *)
(* was dropped and wherever the indices wrapped, the bytes the consumer    *)
(* would read next are whole frames in stream order.                       *)
WholeFrames ==
  LET q == Reading(rp, available)
      b == geometry.bpf
  IN  /\ Len(q) % b = 0
      /\ \A i \in DOMAIN q :
           /\ q[i] % b = (i - 1) % b
           /\ i > 1 => IF (i - 1) % b = 0 THEN q[i] > q[i - 1] ELSE q[i] = q[i - 1] + 1

(* Every byte offered since the last clear is pushed, dropped or being     *)
(* written: the statistics never lose or double one.                       *)
EveryByteAccounted == pushedBytes + dropBytes + Len(data) = offered

(* Strengthening that makes the above inductive: what the producer is      *)
(* writing fits in the free space, what the consumer is taking is there,   *)
(* and both stay so while the other side moves.                            *)
Reserved ==
  /\ available + Len(data) <= size - 1
  /\ take <= available /\ take <= want
  /\ ppc = "idle" => data = <<>>
  /\ cpc = "idle" => want = 0 /\ take = 0

(* The ring implements the abstract queue: the dequeued bytes are exactly  *)
(* the accepted ones, in order, and a drop happens only for want of room.  *)
Queue == INSTANCE FrameQueue WITH
           queue   <- Reading(rp, available),
           block   <- data,
           asked   <- want,
           granted <- take,
           out     <- IF cpc = "idle" THEN dest ELSE <<>>
ImplementsFrameQueue == Queue!Spec
=============================================================================
