---------------------------- MODULE PcmRingProofs ----------------------------
(***************************************************************************)
(* For every geometry, burst and request size: the ring's types, the       *)
(* absence of a data race between the two memcpys, the byte accounts, that *)
(* the ring implements FrameQueue, and that it holds whole frames only.    *)
(***************************************************************************)
EXTENDS PcmRing, SequenceTheorems, TLAPS

-----------------------------------------------------------------------------
(* Index arithmetic: what masking does to the values the ring computes. *)

(* An index that has not reached the end is left alone. *)
LEMMA ModIn == ASSUME NEW N \in Nat, N > 0, NEW x \in 0..(N - 1)
               PROVE  x % N = x
OBVIOUS

(* An index past the end comes back by one lap. *)
LEMMA ModOver == ASSUME NEW N \in Nat, N > 0, NEW x \in N..(2 * N - 1)
                 PROVE  x % N = x - N
OBVIOUS

(* A negative distance (unsigned underflow in the code) gains one lap. *)
LEMMA ModUnder == ASSUME NEW N \in Nat, N > 0, NEW x \in (-N)..(-1)
                  PROVE  x % N = x + N
OBVIOUS

(* A masked value is an index. *)
LEMMA ModRange == ASSUME NEW N \in Nat, N > 0, NEW x \in Int
                  PROVE  x % N \in 0..(N - 1)
OBVIOUS

(* Rounding down to whole frames never exceeds what was rounded. *)
LEMMA RoundDown == ASSUME NEW b \in Nat, b > 0, NEW x \in Nat
                   PROVE  /\ (x \div b) * b \in Nat
                          /\ (x \div b) * b <= x
OBVIOUS

(* Moving the write index by n adds n to the fill. *)
LEMMA FillGrows ==
  ASSUME NEW N \in Nat, N > 0, NEW w \in 0..(N - 1), NEW r \in 0..(N - 1),
         NEW n \in Nat, ((w - r) % N) + n <= N - 1
  PROVE  ((((w + n) % N) - r) % N) = ((w - r) % N) + n
<1> DEFINE w2 == ((w + n) % N)
<1>1. CASE w >= r
  <2>1. (w - r) % N = w - r
    BY <1>1, ModIn
  <2>2. CASE w + n < N
    <3>1. w2 = w + n
      BY <2>2, ModIn
    <3> QED
      BY <3>1, <2>1, <1>1, ModIn
  <2>3. CASE w + n >= N
    <3>1. w2 = w + n - N
      BY <2>3, <2>1, ModOver
    <3>2. w2 - r \in (-N)..(-1)
      BY <3>1, <2>1, <2>3, <1>1
    <3>3. (w2 - r) % N = w2 - r + N
      BY <3>2, ModUnder
    <3> QED
      BY <3>1, <3>3, <2>1
  <2> QED
    BY <2>2, <2>3
<1>2. CASE w < r
  <2>1. (w - r) % N = w - r + N
    BY <1>2, ModUnder
  <2>2. w2 = w + n
    BY <2>1, ModIn
  <2>3. (w2 - r) % N = w2 - r + N
    BY <2>1, <2>2, ModUnder
  <2> QED
    BY <2>1, <2>2, <2>3
<1> QED
  BY <1>1, <1>2

(* Moving the read index by n takes n from the fill. *)
LEMMA FillShrinks ==
  ASSUME NEW N \in Nat, N > 0, NEW w \in 0..(N - 1), NEW r \in 0..(N - 1),
         NEW n \in Nat, n <= ((w - r) % N)
  PROVE  ((w - ((r + n) % N)) % N) = ((w - r) % N) - n
<1> DEFINE r2 == ((r + n) % N)
<1>1. CASE w >= r
  <2>1. (w - r) % N = w - r
    BY <1>1, ModIn
  <2>2. r2 = r + n
    BY <2>1, ModIn
  <2> QED
    BY <2>1, <2>2, ModIn
<1>2. CASE w < r
  <2>1. (w - r) % N = w - r + N
    BY <1>2, ModUnder
  <2>2. CASE r + n < N
    <3>1. r2 = r + n
      BY <2>2, ModIn
    <3>2. (w - r2) % N = w - r2 + N
      BY <3>1, <1>2, <2>2, ModUnder
    <3> QED
      BY <3>1, <3>2, <2>1
  <2>3. CASE r + n >= N
    <3>1. r2 = r + n - N
      BY <2>3, <2>1, <1>2, ModOver
    <3>2. (w - r2) % N = w - r2
      BY <3>1, <2>1, <2>3, <1>2, ModIn
    <3> QED
      BY <3>1, <3>2, <2>1
  <2> QED
    BY <2>2, <2>3
<1> QED
  BY <1>1, <1>2

(* One slot always stays free: fill and free space are complementary. *)
LEMMA FreeIsRest ==
  ASSUME NEW N \in Nat, N > 0, NEW w \in 0..(N - 1), NEW r \in 0..(N - 1)
  PROVE  (r - w - 1) % N = N - 1 - ((w - r) % N)
<1>1. CASE w >= r
  BY <1>1, ModIn, ModUnder
<1>2. CASE w < r
  BY <1>2, ModIn, ModUnder
<1> QED
  BY <1>1, <1>2

(* Slots ahead of the write index and slots from the read index on meet    *)
(* only if together they exceed the ring.                                  *)
LEMMA RegionsApart ==
  ASSUME NEW N \in Nat, N > 0, NEW w \in 0..(N - 1), NEW r \in 0..(N - 1),
         NEW i \in Nat, NEW j \in Nat,
         ((w - r) % N) + i < N, j < ((w - r) % N)
  PROVE  (w + i) % N # ((r + j) % N)
<1>1. CASE w >= r
  <2>1. (w - r) % N = w - r
    BY <1>1, ModIn
  <2>2. (r + j) % N = r + j
    BY <2>1, ModIn
  <2>3. CASE w + i < N
    BY <2>1, <2>2, <2>3, ModIn
  <2>4. CASE w + i >= N
    <3>1. (w + i) % N = w + i - N
      BY <2>1, <2>4, ModOver
    <3> QED
      BY <3>1, <2>1, <2>2
  <2> QED
    BY <2>3, <2>4
<1>2. CASE w < r
  <2>1. (w - r) % N = w - r + N
    BY <1>2, ModUnder
  <2>2. (w + i) % N = w + i
    BY <2>1, ModIn
  <2>3. CASE r + j < N
    BY <2>1, <2>2, <2>3, ModIn
  <2>4. CASE r + j >= N
    <3>1. (r + j) % N = r + j - N
      BY <2>1, <2>4, <1>2, ModOver
    <3> QED
      BY <3>1, <2>1, <2>2
  <2> QED
    BY <2>3, <2>4
<1> QED
  BY <1>1, <1>2

-----------------------------------------------------------------------------
(* The inductive invariant: types, reservations and accounts together. *)

IInv == TypeOK /\ Reserved /\ EveryByteAccounted

(* What the types say of the quantities the steps compute with. *)
LEMMA Sizes ==
  ASSUME TypeOK
  PROVE  /\ size \in Nat /\ size >= 2
         /\ geometry.bpf \in Nat /\ geometry.bpf >= 1
         /\ available \in 0..(size - 1)
         /\ freeSpace = size - 1 - available
<1>1. size \in Nat /\ size >= 2 /\ geometry.bpf \in Nat /\ geometry.bpf >= 1
  BY GeometryAssumption DEF TypeOK, size
<1>2. wp \in 0..(size - 1) /\ rp \in 0..(size - 1)
  BY DEF TypeOK, Slot
<1>3. available \in 0..(size - 1)
  BY <1>1, <1>2, ModRange DEF available
<1>4. freeSpace = size - 1 - available
  BY <1>1, <1>2, FreeIsRest DEF available, freeSpace
<1> QED
  BY <1>1, <1>3, <1>4

LEMMA InitInvariant == Init => IInv
<1> SUFFICES ASSUME Init PROVE IInv
  OBVIOUS
<1>1. size \in Nat /\ size >= 2
  BY GeometryAssumption DEF Init, size
<1>2. TypeOK
  BY <1>1 DEF Init, TypeOK, Slot, Byte
<1>3. available = 0
  BY <1>1, ModIn DEF Init, available
<1>4. Reserved
  BY <1>1, <1>3 DEF Init, Reserved
<1>5. EveryByteAccounted
  BY DEF Init, EveryByteAccounted
<1> QED
  BY <1>2, <1>4, <1>5 DEF IInv

(* pushFrames reserves no more than the free space it saw, and the frames  *)
(* it turns away are counted.                                              *)
LEMMA PushStartInvariant ==
  ASSUME IInv, NEW k \in 1..MaxBurst, PushStart(k)
  PROVE  IInv'
<1> DEFINE len == k * geometry.bpf
           fit == IF len > freeSpace
                  THEN (freeSpace \div geometry.bpf) * geometry.bpf ELSE len
<1>1. /\ size \in Nat /\ size >= 2
      /\ geometry.bpf \in Nat /\ geometry.bpf >= 1
      /\ available \in 0..(size - 1)
      /\ freeSpace = size - 1 - available
  BY Sizes DEF IInv
<1>2. len \in Nat
  BY <1>1, BoundAssumption
<1>3. fit \in Nat /\ fit <= len /\ fit <= freeSpace
  <2>1. freeSpace \in Nat
    BY <1>1
  <2>2. /\ (freeSpace \div geometry.bpf) * geometry.bpf \in Nat
        /\ (freeSpace \div geometry.bpf) * geometry.bpf <= freeSpace
    BY <1>1, <2>1, RoundDown
  <2> HIDE DEF len
  <2> QED
    BY <1>2, <2>1, <2>2
<1> HIDE DEF len, fit
<1>4. /\ ppc = "idle" /\ data = <<>>
      /\ offered' = offered + len
      /\ dropBytes' = dropBytes + (len - fit)
      /\ data' = [i \in 1..fit |-> offered + i - 1]
      /\ ppc' = IF fit = 0 THEN "idle" ELSE "copy"
      /\ UNCHANGED <<indexVars, buf, pushedBytes, consVars>>
  BY DEF PushStart, Fit, Dropped, len, fit, IInv, Reserved
<1>5. offered \in Nat /\ dropBytes \in Nat /\ pushedBytes \in Nat
  BY DEF IInv, TypeOK
<1>6. data' \in Seq(Nat) /\ Len(data') = fit
  BY <1>3, <1>4, <1>5
<1>7. TypeOK'
  <2>1. offered' \in Nat /\ dropBytes' \in Nat
    BY <1>2, <1>3, <1>4, <1>5
  <2> QED
    BY <1>4, <1>6, <2>1 DEF IInv, TypeOK, indexVars, consVars, Slot, size
<1>8. Reserved'
  <2>1. available' = available /\ size' = size
    BY <1>4 DEF indexVars, available, size
  <2>2. ppc' = "idle" => data' = <<>>
    BY <1>3, <1>4
  <2> QED
    BY <1>1, <1>3, <1>4, <1>6, <2>1, <2>2 DEF IInv, Reserved, consVars
<1>9. EveryByteAccounted'
  BY <1>2, <1>3, <1>4, <1>5, <1>6 DEF IInv, EveryByteAccounted
<1> QED
  BY <1>7, <1>8, <1>9 DEF IInv

(* The memcpys move neither index. *)
LEMMA CopyInvariant ==
  ASSUME IInv, PushCopy \/ PopCopy
  PROVE  IInv'
<1>1. size \in Nat /\ size >= 2
  BY Sizes DEF IInv
<1>2. /\ buf \in [Slot -> Byte]
      /\ wp \in Slot /\ rp \in Slot /\ take \in Nat /\ data \in Seq(Nat)
  BY DEF IInv, TypeOK
<1>3. CASE PushCopy
  <2>1. buf' \in [Slot -> Byte]
    <3>1. ASSUME NEW s \in Slot
          PROVE  (IF ((s - wp) % size) < Len(data)
                  THEN data[((s - wp) % size) + 1] ELSE buf[s]) \in Byte
      <4>1. (s - wp) % size \in Nat
        BY <1>1, <1>2, ModRange DEF Slot
      <4> QED
        BY <1>2, <4>1 DEF Byte
    <3> QED
      BY <1>3, <3>1 DEF PushCopy, Written
  <2>2. TypeOK'
    BY <1>3, <2>1 DEF PushCopy, IInv, TypeOK, indexVars, consVars, Slot, size
  <2> QED
    BY <1>3, <2>2 DEF PushCopy, IInv, Reserved, EveryByteAccounted, available,
                      size, indexVars, consVars
<1>4. CASE PopCopy
  <2>1. dest' \in Seq(Byte)
    <3>1. ASSUME NEW i \in 1..take PROVE buf[((rp + i - 1) % size)] \in Byte
      BY <1>1, <1>2, ModRange DEF Slot
    <3> QED
      BY <1>2, <1>4, <3>1 DEF PopCopy, Reading
  <2>2. TypeOK'
    BY <1>4, <2>1 DEF PopCopy, IInv, TypeOK, indexVars, prodVars, Slot, size
  <2> QED
    BY <1>4, <2>2 DEF PopCopy, IInv, Reserved, EveryByteAccounted, available,
                      size, indexVars, prodVars
<1> QED
  BY <1>3, <1>4

(* The store of m_writePos turns the reservation into fill. *)
LEMMA PushPublishInvariant ==
  ASSUME IInv, PushPublish
  PROVE  IInv'
<1>1. /\ size \in Nat /\ size >= 2 /\ available \in 0..(size - 1)
      /\ wp \in 0..(size - 1) /\ rp \in 0..(size - 1) /\ Len(data) \in Nat
      /\ pushedBytes \in Nat
  BY Sizes DEF IInv, TypeOK, Slot
<1>2. size' = size /\ rp' = rp /\ data' = <<>>
  BY DEF PushPublish, Advance, size
<1>3. wp' \in Slot
  BY <1>1, ModRange DEF PushPublish, Advance, Slot
<1>4. available' = available + Len(data)
  <2>1. ((wp - rp) % size) + Len(data) <= size - 1
    BY DEF IInv, Reserved, available
  <2>2. ((((wp + Len(data)) % size) - rp) % size) = ((wp - rp) % size) + Len(data)
    BY <1>1, <2>1, FillGrows
  <2>3. available' = ((((wp + Len(data)) % size) - rp) % size)
    BY <1>2 DEF PushPublish, Advance, available
  <2> QED
    BY <2>2, <2>3 DEF available
<1>5. TypeOK'
  BY <1>1, <1>2, <1>3 DEF PushPublish, Advance, IInv, TypeOK, consVars, Slot
<1>6. Reserved'
  BY <1>1, <1>2, <1>4 DEF PushPublish, Advance, IInv, Reserved, TypeOK, consVars
<1>7. EveryByteAccounted'
  BY <1>1, <1>2 DEF PushPublish, Advance, IInv, EveryByteAccounted, TypeOK
<1> QED
  BY <1>5, <1>6, <1>7 DEF IInv

(* The load of m_writePos: what will be taken is there. *)
LEMMA PopStartInvariant ==
  ASSUME IInv, NEW k \in 1..MaxAsk, PopStart(k)
  PROVE  IInv'
<1>1. /\ size \in Nat /\ available \in Nat
      /\ geometry.bpf \in Nat
  BY Sizes DEF IInv
<1>2. want' \in Nat
  BY <1>1, BoundAssumption DEF PopStart
<1>3. take' \in Nat /\ take' <= available /\ take' <= want'
  BY <1>1, <1>2 DEF PopStart
<1>4. /\ UNCHANGED <<indexVars, buf, prodVars, dest, underrunCount>>
      /\ cpc' = "copy"
  BY DEF PopStart
<1>5. available' = available /\ size' = size
  BY <1>4 DEF indexVars, available, size
<1>6. TypeOK'
  BY <1>2, <1>3, <1>4 DEF IInv, TypeOK, indexVars, prodVars, Slot, size
<1>7. Reserved'
  BY <1>3, <1>4, <1>5 DEF IInv, Reserved, prodVars
<1>8. EveryByteAccounted'
  BY <1>4 DEF IInv, EveryByteAccounted, prodVars
<1> QED
  BY <1>6, <1>7, <1>8 DEF IInv

(* The store of m_readPos gives the slots back. *)
LEMMA PopPublishInvariant ==
  ASSUME IInv, PopPublish
  PROVE  IInv'
<1>1. /\ size \in Nat /\ size >= 2 /\ available \in 0..(size - 1)
      /\ wp \in 0..(size - 1) /\ rp \in 0..(size - 1)
      /\ take \in Nat /\ want \in Nat /\ take <= available /\ take <= want
      /\ underrunCount \in Nat /\ dest \in Seq(Byte) /\ Len(data) \in Nat
  BY Sizes DEF IInv, TypeOK, Slot, Reserved
<1>2. /\ size' = size /\ wp' = wp /\ UNCHANGED <<geometry, buf, prodVars>>
      /\ want' = 0 /\ take' = 0 /\ cpc' = "idle"
  BY DEF PopPublish, Advance, size
<1>3. rp' \in Slot
  BY <1>1, ModRange DEF PopPublish, Advance, Slot
<1>4. available' = available - take
  <2>1. ((wp - ((rp + take) % size)) % size) = ((wp - rp) % size) - take
    BY <1>1, FillShrinks, SMTT(30) DEF available
  <2>2. available' = ((wp - ((rp + take) % size)) % size)
    BY <1>2 DEF PopPublish, Advance, available
  <2> QED
    BY <2>1, <2>2 DEF available
<1>5. dest' \in Seq(Byte)
  <2>1. [i \in 1..(want - take) |-> Silence] \in Seq(Byte)
    BY <1>1 DEF Byte
  <2> QED
    BY <1>1, <2>1 DEF PopPublish, Advance
<1>6. underrunCount' \in Nat
  BY <1>1 DEF PopPublish, Advance
<1>7. TypeOK'
  BY <1>2, <1>3, <1>5, <1>6 DEF IInv, TypeOK, prodVars, Slot, size
<1>8. Reserved'
  BY <1>1, <1>2, <1>4 DEF IInv, Reserved, prodVars
<1>9. EveryByteAccounted'
  BY <1>2 DEF IInv, EveryByteAccounted, prodVars
<1> QED
  BY <1>7, <1>8, <1>9 DEF IInv

(* clear() and resize(): the indices restart together. *)
LEMMA ClearInvariant ==
  ASSUME IInv, ClearRing \/ \E g \in Geometries : resize(g)
  PROVE  IInv'
<1>1. /\ clear /\ geometry' \in Geometries
      /\ buf' \in [Slot' -> Byte]
  <2>1. CASE ClearRing
    BY <2>1 DEF ClearRing, IInv, TypeOK, Slot, size
  <2>2. CASE \E g \in Geometries : resize(g)
    BY <2>2 DEF resize, Slot, size, Byte
  <2> QED
    BY <2>1, <2>2
<1>2. PICK N \in Nat : N >= 2 /\ N = geometry'.size
  BY <1>1, GeometryAssumption
<1>3. wp' = 0 /\ rp' = 0 /\ available' = 0
  <2>1. wp' = 0 /\ rp' = 0
    BY <1>1 DEF clear
  <2>2. (0 - 0) % N = 0
    BY <1>2, ModIn
  <2> QED
    BY <1>2, <2>1, <2>2 DEF available, size
<1>4. data = <<>> /\ want = 0 /\ take = 0
  BY <1>1 DEF clear, IInv, Reserved
<1>5. UNCHANGED <<ppc, data, cpc, want, take, dest>>
  BY <1>1 DEF clear
<1>6. TypeOK'
  <2>1. wp' \in Slot' /\ rp' \in Slot'
    BY <1>2, <1>3 DEF Slot, size
  <2> QED
    BY <1>1, <1>5, <2>1 DEF clear, IInv, TypeOK
<1>7. Reserved'
  <2>1. available' + Len(data') <= N - 1
    BY <1>2, <1>3, <1>4, <1>5
  <2> QED
    BY <1>2, <1>3, <1>4, <1>5, <2>1 DEF Reserved, size
<1>8. EveryByteAccounted'
  BY <1>1, <1>4, <1>5 DEF clear, EveryByteAccounted
<1> QED
  BY <1>6, <1>7, <1>8 DEF IInv

LEMMA NextInvariant == IInv /\ [Next]_vars => IInv'
<1> SUFFICES ASSUME IInv, [Next]_vars PROVE IInv'
  OBVIOUS
<1>1. ASSUME NEW k \in 1..MaxBurst, PushStart(k) PROVE IInv'
  BY <1>1, PushStartInvariant
<1>2. CASE PushCopy \/ PopCopy
  BY <1>2, CopyInvariant
<1>3. CASE PushPublish
  BY <1>3, PushPublishInvariant
<1>4. ASSUME NEW k \in 1..MaxAsk, PopStart(k) PROVE IInv'
  BY <1>4, PopStartInvariant
<1>5. CASE PopPublish
  BY <1>5, PopPublishInvariant
<1>6. CASE ClearRing \/ \E g \in Geometries : resize(g)
  BY <1>6, ClearInvariant
<1>7. CASE UNCHANGED vars
  BY <1>7 DEF vars, indexVars, prodVars, consVars, IInv, TypeOK, Reserved,
              EveryByteAccounted, available, size, Slot
<1> QED
  BY <1>1, <1>2, <1>3, <1>4, <1>5, <1>6, <1>7 DEF Next

THEOREM InvariantHolds == Spec => []IInv
<1> QED
  BY InitInvariant, NextInvariant, PTL DEF Spec

(* Every variable of the ring keeps its type: indices stay inside the      *)
(* buffer, whatever the interleaving of pushFrames and popOrSilence.       *)
THEOREM TypeCorrect == Spec => []TypeOK
<1>1. IInv => TypeOK
  BY DEF IInv
<1> QED
  BY <1>1, InvariantHolds, PTL

(* The statistics account for every byte handed to pushFrames. *)
THEOREM BytesAccounted == Spec => []EveryByteAccounted
<1>1. IInv => EveryByteAccounted
  BY DEF IInv
<1> QED
  BY <1>1, InvariantHolds, PTL

(* What a side has settled on after loading the other's index stays true   *)
(* until it publishes: the room for the block being written, the bytes     *)
(* about to be taken.                                                      *)
THEOREM ReservationsHold == Spec => []Reserved
<1>1. IInv => Reserved
  BY DEF IInv
<1> QED
  BY <1>1, InvariantHolds, PTL

(* The producer's memcpy and the consumer's never touch the same slot. *)
THEOREM RaceFree == Spec => []NoDataRace
<1>1. IInv => NoDataRace
  <2> SUFFICES ASSUME IInv,
                      NEW i \in 0..(Len(data) - 1), NEW j \in 0..(take - 1)
               PROVE  (wp + i) % size # ((rp + j) % size)
    BY DEF NoDataRace, Writing, ReadingSlots
  <2>1. /\ size \in Nat /\ size >= 2
        /\ wp \in 0..(size - 1) /\ rp \in 0..(size - 1)
        /\ available \in 0..(size - 1) /\ take \in Nat /\ Len(data) \in Nat
    BY Sizes DEF IInv, TypeOK, Slot
  <2>2. available + i < size /\ j < available
    BY <2>1 DEF IInv, Reserved
  <2> QED
    BY <2>1, <2>2, RegionsApart DEF available
<1> QED
  BY <1>1, InvariantHolds, PTL

-----------------------------------------------------------------------------
(* The ring implements FrameQueue. *)

Q == Reading(rp, available)

(* Between the memcpy and the store of an index the copy stays what it was. *)
CopiesHold ==
  /\ ppc = "publish" => \A i \in 1..Len(data) : buf[(wp + i - 1) % size] = data[i]
  /\ ppc # "idle" => data # <<>>
  /\ cpc = "publish" => dest = Reading(rp, take)
  /\ cpc # "idle" => want > 0

(* A slot is as far from an index as one has walked. *)
LEMMA SlotOffset ==
  ASSUME NEW N \in Nat, N > 0, NEW w \in 0..(N - 1), NEW i \in 0..(N - 1)
  PROVE  (((w + i) % N) - w) % N = i
<1>1. CASE w + i < N
  BY <1>1, ModIn
<1>2. CASE w + i >= N
  <2>1. (w + i) % N = w + i - N
    BY <1>2, ModOver
  <2>2. i = 0 \/ w + i - N - w \in (-N)..(-1)
    OBVIOUS
  <2>3. CASE i = 0
    BY <1>2, <2>3
  <2>4. CASE w + i - N - w \in (-N)..(-1)
    <3>1. (w + i - N - w) % N = w + i - N - w + N
      BY <2>4, ModUnder
    <3> QED
      BY <2>1, <3>1
  <2> QED
    BY <2>2, <2>3, <2>4
<1> QED
  BY <1>1, <1>2

LEMMA OffsetSlot ==
  ASSUME NEW N \in Nat, N > 0, NEW w \in 0..(N - 1), NEW s \in 0..(N - 1)
  PROVE  (w + ((s - w) % N)) % N = s
<1>1. CASE s >= w
  BY <1>1, ModIn
<1>2. CASE s < w
  <2>1. (s - w) % N = s - w + N
    BY <1>2, ModUnder
  <2>2. (s + N) % N = s
    BY ModOver
  <2> QED
    BY <2>1, <2>2
<1> QED
  BY <1>1, <1>2

(* Walking on from a masked index. *)
LEMMA WalkOn ==
  ASSUME NEW N \in Nat, N > 0, NEW r \in 0..(N - 1), NEW a \in Nat, NEW j \in Nat, a + j <= N - 1
  PROVE  (((r + a) % N) + j) % N = (r + a + j) % N
<1>1. CASE r + a < N
  BY <1>1, ModIn
<1>2. CASE r + a >= N
  <2>1. (r + a) % N = r + a - N
    BY <1>2, ModOver
  <2>2. (r + a - N + j) % N = r + a - N + j
    BY <1>2, ModIn
  <2>3. (r + a + j) % N = r + a + j - N
    BY <1>2, ModOver
  <2> QED
    BY <2>1, <2>2, <2>3
<1> QED
  BY <1>1, <1>2

(* Adding the fill to the read index gives the write index. *)
LEMMA FillReaches ==
  ASSUME NEW N \in Nat, N > 0, NEW w \in 0..(N - 1), NEW r \in 0..(N - 1), NEW j \in Nat,
         ((w - r) % N) + j <= N - 1
  PROVE  (r + ((w - r) % N) + j) % N = (w + j) % N
<1> DEFINE a == (w - r) % N
<1>1. a \in Nat
  BY ModRange
<1>2. (((r + a) % N) + j) % N = (r + a + j) % N
  <2> HIDE DEF a
  <2> QED
    BY <1>1, WalkOn DEF a
<1>3. (r + a) % N = w
  BY OffsetSlot
<1> QED
  BY <1>2, <1>3

LEMMA Geometry ==
  ASSUME IInv
  PROVE  /\ size \in Nat /\ size > 0 /\ wp \in 0..(size - 1) /\ rp \in 0..(size - 1)
         /\ available \in 0..(size - 1) /\ Len(data) \in Nat /\ data \in Seq(Nat)
         /\ available + Len(data) <= size - 1
         /\ take \in Nat /\ want \in Nat /\ take <= available /\ take <= want
         /\ buf \in [0..(size - 1) -> Byte]
BY Sizes, SMTT(30) DEF IInv, TypeOK, Reserved, Slot

LEMMA QueueLength ==
  ASSUME IInv
  PROVE  /\ Len(Q) = available
         /\ \A i \in 1..available : Q[i] = buf[(rp + i - 1) % size]
BY Geometry DEF Q, Reading

(* What the producer copies in is where nobody reads. *)
LEMMA CopyKeepsReads ==
  ASSUME IInv, PushCopy, NEW n \in Nat, n <= available
  PROVE  Reading(rp, n)' = Reading(rp, n)
<1>1. ASSUME NEW i \in 1..n
      PROVE  buf'[(rp + i - 1) % size] = buf[(rp + i - 1) % size]
  <2> DEFINE N == size
             L == Len(data)
             s == (rp + i - 1) % N
             off == (s - wp) % N
             j == i - 1
  <2>1. /\ N \in Nat /\ N > 0 /\ wp \in 0..(N - 1) /\ rp \in 0..(N - 1) /\ L \in Nat
        /\ available \in 0..(N - 1) /\ available + L <= N - 1
        /\ j \in Nat /\ j < available
    BY Geometry
  <2>2. s = (rp + j) % N
    BY <2>1
  <2>3. s \in 0..(N - 1)
    BY <2>1, <2>2, ModRange
  <2>4. off \in 0..(N - 1) /\ (wp + off) % N = s
    BY <2>1, <2>3, ModRange, OffsetSlot
  <2>5. ~(off < L)
    <3> SUFFICES ASSUME off < L PROVE FALSE
      OBVIOUS
    <3>1. ((wp - rp) % N) + off < N /\ j < ((wp - rp) % N)
      <4> DEFINE a == available
      <4> HIDE DEF off, L, N, a
      <4>1. a + off < N /\ j < a
        BY <2>1, <2>4 DEF a
      <4> QED
        BY <4>1 DEF a, available, N
    <3> HIDE DEF off, L, N, s, j
    <3> QED
      BY <2>1, <2>2, <2>4, <3>1, RegionsApart
  <2>6. buf' = [t \in 0..(N - 1) |-> IF ((t - wp) % N) < L
                                      THEN data[((t - wp) % N) + 1] ELSE buf[t]]
    BY DEF PushCopy, Written, Slot
  <2> HIDE DEF s, N, L
  <2>7. buf'[s] = buf[s]
    BY <2>3, <2>5, <2>6
  <2> QED
    BY <2>7 DEF s, N
<1>2. rp' = rp /\ size' = size
  BY DEF PushCopy, indexVars, size
<1> QED
  BY <1>1, <1>2 DEF Reading

LEMMA CopyArrives ==
  ASSUME IInv, PushCopy, NEW i \in 1..Len(data)
  PROVE  buf'[(wp + i - 1) % size] = data[i]
<1> DEFINE N == size
           L == Len(data)
           j == i - 1
           s == (wp + j) % N
<1>1. /\ N \in Nat /\ N > 0 /\ wp \in 0..(N - 1) /\ L \in Nat
      /\ j \in 0..(N - 1) /\ j < L /\ j + 1 = i
  BY Geometry
<1>2. s \in 0..(N - 1) /\ (s - wp) % N = j
  BY <1>1, ModRange, SlotOffset
<1>3. buf' = [t \in 0..(N - 1) |-> IF ((t - wp) % N) < L
                                    THEN data[((t - wp) % N) + 1] ELSE buf[t]]
  BY DEF PushCopy, Written, Slot
<1>4. s = (wp + i - 1) % size
  BY <1>1
<1> HIDE DEF N, L, j, s
<1>5. buf'[s] = data[j + 1]
  BY <1>1, <1>2, <1>3
<1> QED
  BY <1>1, <1>4, <1>5


LEMMA PushFits ==
  ASSUME IInv, NEW k \in 1..MaxBurst
  PROVE  /\ Fit(k * geometry.bpf) \in Nat
         /\ k * geometry.bpf \in Nat
<1> DEFINE b == geometry.bpf
           free == freeSpace
           len == k * b
<1>1. b \in Nat /\ b > 0 /\ free \in Nat /\ k \in Nat
  BY Sizes, BoundAssumption DEF IInv
<1> HIDE DEF b, free
<1>2. len \in Nat /\ (free \div b) * b \in Nat
  BY <1>1, RoundDown
<1> HIDE DEF len
<1>3. Fit(len) = IF len > free THEN (free \div b) * b ELSE len
  BY DEF Fit, free, b
<1> QED
  BY <1>2, <1>3 DEF len, b

LEMMA AskPositive ==
  ASSUME IInv, NEW k \in 1..MaxAsk, PopStart(k)
  PROVE  want' > 0
<1> DEFINE b == geometry.bpf
<1>1. b \in Nat /\ b > 0 /\ want' = k * b /\ k \in Nat /\ k > 0
  BY Sizes, BoundAssumption DEF IInv, PopStart
<1> HIDE DEF b
<1> QED
  BY <1>1

LEMMA CopiesNext == IInv /\ CopiesHold /\ [Next]_vars => CopiesHold'
<1> SUFFICES ASSUME IInv, CopiesHold, [Next]_vars PROVE CopiesHold'
  OBVIOUS
<1>1. ASSUME NEW k \in 1..MaxBurst, PushStart(k) PROVE CopiesHold'
  <2>1. /\ ppc' # "publish" /\ (ppc' # "idle" => data' # <<>>)
    <3> DEFINE fit == Fit(k * geometry.bpf)
    <3>1. fit \in Nat
      BY PushFits
    <3>2. data' = [i \in 1..fit |-> offered + i - 1] /\ ppc' = IF fit = 0 THEN "idle" ELSE "copy"
      BY <1>1 DEF PushStart
    <3> HIDE DEF fit
    <3>3. fit # 0 => Len(data') = fit
      BY <3>1, <3>2
    <3> QED
      BY <3>1, <3>2, <3>3
  <2>2. UNCHANGED <<cpc, dest, want, take, rp, buf, size>>
    BY <1>1 DEF PushStart, indexVars, consVars, size
  <2> QED
    BY <2>1, <2>2 DEF CopiesHold, Reading
<1>2. CASE PushCopy
  <2>1. \A i \in 1..Len(data) : buf'[(wp + i - 1) % size] = data[i]
    BY <1>2, CopyArrives
  <2>2. Reading(rp, take)' = Reading(rp, take)
    <3>1. Reading(rp, take)' = [i \in 1..take |-> buf'[(rp + i - 1) % size]]
      BY <1>2 DEF PushCopy, indexVars, consVars, Reading, size
    <3>2. ASSUME NEW n \in Nat, n = take
          PROVE  Reading(rp, n)' = [i \in 1..n |-> buf'[(rp + i - 1) % size]]
      BY <1>2 DEF PushCopy, indexVars, Reading, size
    <3>3. ASSUME NEW n \in Nat, n = take PROVE Reading(rp, n)' = Reading(rp, n)
      BY <1>2, <3>3, Geometry, CopyKeepsReads
    <3> QED
      BY <3>1, <3>2, <3>3, Geometry
  <2>3. ppc = "copy" /\ UNCHANGED <<data, wp, size, cpc, dest, want>>
    BY <1>2 DEF PushCopy, indexVars, consVars, size
  <2> QED
    BY <2>1, <2>2, <2>3 DEF CopiesHold
<1>3. CASE PushPublish
  <2>1. ppc' = "idle" /\ UNCHANGED <<cpc, dest, want, take, rp, buf, size>>
    BY <1>3 DEF PushPublish, consVars, size
  <2> QED
    BY <2>1 DEF CopiesHold, Reading
<1>4. ASSUME NEW k \in 1..MaxAsk, PopStart(k) PROVE CopiesHold'
  <2>1. cpc' = "copy" /\ UNCHANGED <<ppc, data, wp, buf, size>>
    BY <1>4 DEF PopStart, indexVars, prodVars, size
  <2>2. want' > 0
    BY <1>4, AskPositive
  <2> QED
    BY <2>1, <2>2 DEF CopiesHold
<1>5. CASE PopCopy
  <2>1. /\ cpc = "copy" /\ dest' = Reading(rp, take)
        /\ UNCHANGED <<ppc, data, wp, rp, buf, size, want, take>>
    BY <1>5 DEF PopCopy, indexVars, prodVars, size
  <2> QED
    BY <2>1 DEF CopiesHold, Reading
<1>6. CASE PopPublish
  <2>1. cpc' = "idle" /\ UNCHANGED <<ppc, data, wp, buf, size>>
    BY <1>6 DEF PopPublish, prodVars, size
  <2> QED
    BY <2>1 DEF CopiesHold
<1>7. CASE ClearRing \/ \E g \in Geometries : resize(g)
  BY <1>7 DEF ClearRing, resize, clear, CopiesHold
<1>8. CASE UNCHANGED vars
  BY <1>8 DEF vars, indexVars, prodVars, consVars, CopiesHold, Reading, size
<1> QED
  BY <1>1, <1>2, <1>3, <1>4, <1>5, <1>6, <1>7, <1>8 DEF Next

(* What is accepted of k frames, as FrameQueue counts it. *)
LEMMA RoomForFrames ==
  ASSUME NEW b \in Nat, b > 0, NEW x \in Nat, NEW k \in Nat
  PROVE  (IF k * b > x THEN (x \div b) * b ELSE k * b) = Queue!Least(k, x \div b) * b
<1> DEFINE q == x \div b
<1>1. q \in Nat /\ q * b <= x /\ x < q * b + b
  OBVIOUS
<1> HIDE DEF q
<1>2. CASE k * b > x
  <2>1. ~(k < q)
    <3> SUFFICES ASSUME k < q PROVE FALSE
      OBVIOUS
    <3>1. PICK d \in Nat : q = k + d
      <4>1. q = k + (q - k) /\ q - k \in Nat
        BY <1>1
      <4> QED
        BY <4>1
    <3>2. q * b = k * b + d * b
      BY <1>1, <3>1
    <3>3. d * b \in Nat
      OBVIOUS
    <3> DEFINE m == k * b
               l == q * b
               e == d * b
    <3>4. m \in Int /\ l \in Int /\ e \in Nat /\ l = m + e /\ l <= x /\ m > x
      BY <1>1, <1>2, <3>2, <3>3
    <3> HIDE DEF m, l, e
    <3> QED
      BY <3>4
  <2> QED
    BY <1>2, <2>1 DEF Queue!Least, q
<1>3. CASE ~(k * b > x)
  <2>1. ~(k > q)
    <3> SUFFICES ASSUME k > q PROVE FALSE
      OBVIOUS
    <3>1. PICK d \in Nat : k = q + 1 + d
      <4>1. k = q + 1 + (k - q - 1) /\ k - q - 1 \in Nat
        BY <1>1
      <4> QED
        BY <4>1
    <3>2. k * b = q * b + b + d * b
      BY <1>1, <3>1
    <3>3. d * b \in Nat
      OBVIOUS
    <3> DEFINE m == k * b
               l == q * b
               e == d * b
    <3>4. m \in Int /\ l \in Int /\ e \in Nat /\ m = l + b + e /\ m <= x /\ x < l + b
      BY <1>1, <1>3, <3>2, <3>3
    <3> HIDE DEF m, l, e
    <3> QED
      BY <3>4
  <2>2. k < q \/ k = q
    BY <1>1, <2>1
  <2> QED
    BY <1>3, <2>2 DEF Queue!Least, q
<1> QED
  BY <1>2, <1>3

-----------------------------------------------------------------------------
(* Every step is a step of FrameQueue or a stutter. *)

LEMMA InitMaps == Init => Queue!Init
<1> SUFFICES ASSUME Init PROVE Queue!Init
  OBVIOUS
<1>1. IInv
  BY InitInvariant
<1>2. available = 0
  BY <1>1, Sizes, ModIn DEF Init, available, IInv
<1>3. Q = <<>>
  BY <1>2 DEF Q, Reading
<1> QED
  BY <1>3 DEF Init, Queue!Init, Q

LEMMA PushStartMaps ==
  ASSUME IInv, NEW k \in 1..MaxBurst, PushStart(k)
  PROVE  Queue!Offer(k)
<1> DEFINE b == geometry.bpf
           free == freeSpace
           len == k * b
<1>1. b \in Nat /\ b > 0 /\ free \in Nat /\ k \in Nat
  BY Sizes, BoundAssumption DEF IInv
<1>2. free = geometry.size - 1 - Len(Q)
  BY Sizes, QueueLength DEF IInv, size
<1>3. Fit(len) = Queue!Least(k, free \div b) * b
  <2> HIDE DEF b, free
  <2>1. (IF k * b > free THEN (free \div b) * b ELSE k * b) = Queue!Least(k, free \div b) * b
    BY <1>1, RoomForFrames
  <2> QED
    BY <2>1 DEF Fit, free, b
<1>4. data = <<>>
  BY DEF PushStart, IInv, Reserved
<1>5. /\ offered' = offered + len
      /\ data' = [i \in 1..Fit(len) |-> offered + i - 1]
      /\ UNCHANGED <<geometry, rp, wp, buf, want, take, cpc, dest>>
  BY DEF PushStart, indexVars, consVars
<1>6. Q' = Q
  BY <1>5 DEF Q, Reading, available, size
<1> QED
  BY <1>2, <1>3, <1>4, <1>5, <1>6 DEF Queue!Offer, Queue!room, Q

LEMMA PushCopyMaps ==
  ASSUME IInv, PushCopy
  PROVE  UNCHANGED Queue!vars
<1>1. available' = available
  BY DEF PushCopy, indexVars, available, size
<1>2. Q' = Q
  <2>1. ASSUME NEW n \in Nat, n = available PROVE Reading(rp, n)' = Reading(rp, n)
    BY <2>1, CopyKeepsReads
  <2>2. ASSUME NEW n \in Nat, n = available
        PROVE  Q' = Reading(rp, n)' /\ Q = Reading(rp, n)
    BY <1>1, <2>2 DEF Q, Reading
  <2> QED
    BY <2>1, <2>2, Geometry
<1> QED
  BY <1>2 DEF PushCopy, indexVars, consVars, Queue!vars, Q

LEMMA Concatenated ==
  ASSUME NEW S, NEW q \in Seq(S), NEW d \in Seq(S)
  PROVE  q \o d = [i \in 1..(Len(q) + Len(d)) |-> IF i <= Len(q) THEN q[i] ELSE d[i - Len(q)]]
<1> DEFINE f == [i \in 1..(Len(q) + Len(d)) |-> IF i <= Len(q) THEN q[i] ELSE d[i - Len(q)]]
           h == q \o d
<1>1. h \in Seq(S) /\ Len(h) = Len(q) + Len(d) /\ Len(q) \in Nat /\ Len(d) \in Nat
  OBVIOUS
<1>2. \A i \in 1..(Len(q) + Len(d)) : h[i] = IF i <= Len(q) THEN q[i] ELSE d[i - Len(q)]
  BY ConcatProperties
<1> HIDE DEF h
<1>3. h = [i \in 1..(Len(q) + Len(d)) |-> h[i]]
  BY <1>1
<1>4. h = f
  BY <1>2, <1>3
<1> QED
  BY <1>4 DEF h

LEMMA QueueBytes == ASSUME IInv PROVE Q \in Seq(Byte) /\ data \in Seq(Byte)
<1>1. \A i \in 1..available : buf[(rp + i - 1) % size] \in Byte
  <2> SUFFICES ASSUME NEW i \in 1..available PROVE buf[(rp + i - 1) % size] \in Byte
    OBVIOUS
  <2> DEFINE s == (rp + i - 1) % size
  <2>1. s \in 0..(size - 1)
    BY Geometry, ModRange, SMTT(30)
  <2> HIDE DEF s
  <2>2. buf[s] \in Byte
    BY <2>1, Geometry
  <2> QED
    BY <2>2 DEF s
<1> DEFINE a == available
           at(i) == buf[(rp + i - 1) % size]
<1>2. a \in Nat /\ \A i \in 1..a : at(i) \in Byte
  BY <1>1, Geometry
<1>3. Q = [i \in 1..a |-> at(i)]
  BY DEF Q, Reading
<1> HIDE DEF a, at
<1>4. Q \in Seq(Byte)
  BY <1>2, <1>3
<1>5. data \in Seq(Byte)
  <2>1. data \in Seq(Nat)
    BY Geometry
  <2> QED
    BY <2>1 DEF Byte
<1> QED
  BY <1>4, <1>5

LEMMA PushPublishMaps ==
  ASSUME IInv, CopiesHold, PushPublish
  PROVE  Queue!Commit
<1> DEFINE N == size
           a == available
           n == Len(data)
<1>1. /\ N \in Nat /\ N > 0 /\ wp \in 0..(N - 1) /\ rp \in 0..(N - 1)
      /\ a \in Nat /\ n \in Nat /\ a + n <= N - 1
  BY Geometry
<1>2. /\ wp' = (wp + n) % N /\ UNCHANGED <<geometry, rp, buf, offered, cpc, want, take, dest>>
      /\ data' = <<>> /\ size' = N
  BY DEF PushPublish, Advance, consVars, size
<1>3. available' = a + n
  <2>1. ((((wp + n) % N) - rp) % N) = ((wp - rp) % N) + n
    <3>1. ((wp - rp) % N) + n <= N - 1
      BY <1>1 DEF available
    <3> HIDE DEF N, n
    <3> QED
      BY <1>1, <3>1, FillGrows
  <2> QED
    BY <1>2, <2>1 DEF available
<1>4. \A i \in 1..n : buf[(wp + i - 1) % N] = data[i]
  BY DEF PushPublish, CopiesHold
<1>5. Len(Q) = a /\ \A i \in 1..a : Q[i] = buf[(rp + i - 1) % N]
  BY QueueLength
<1>6. Q' = [i \in 1..(a + n) |-> buf[(rp + i - 1) % N]]
  BY <1>2, <1>3 DEF Q, Reading
<1>7. Q = [i \in 1..a |-> buf[(rp + i - 1) % N]]
  BY DEF Q, Reading
<1>8. ASSUME NEW j \in 1..n
      PROVE  buf[(rp + (a + j) - 1) % N] = data[j]
  <2> DEFINE c == j - 1
  <2>1. c \in Nat /\ a + c <= N - 1 /\ wp + c = wp + j - 1
        /\ rp + (a + j) - 1 = rp + a + c
    BY <1>1
  <2>2. (rp + a + c) % N = (wp + c) % N
    <3>1. ((wp - rp) % N) + c <= N - 1
      BY <2>1 DEF available
    <3>2. (rp + ((wp - rp) % N) + c) % N = (wp + c) % N
      <4> HIDE DEF N, c
      <4> QED
        BY <1>1, <2>1, <3>1, FillReaches
    <3> QED
      BY <3>2 DEF available
  <2> QED
    BY <1>4, <2>1, <2>2
<1>9. Q' = Q \o data
  <2> DEFINE f[i \in 1..(a + n)] == buf[(rp + i - 1) % N]
             g[i \in 1..(a + n)] == IF i <= a THEN Q[i] ELSE data[i - a]
  <2>1. Q' = f
    BY <1>6
  <2>2. Q \o data = g
    <3>1. Q \in Seq(Byte) /\ data \in Seq(Byte)
      BY QueueBytes
    <3>2. Q \o data = [i \in 1..(Len(Q) + Len(data)) |->
                          IF i <= Len(Q) THEN Q[i] ELSE data[i - Len(Q)]]
      BY <3>1, Concatenated
    <3>3. Len(Q) = a /\ Len(data) = n
      BY <1>5
    <3> HIDE DEF a, n
    <3> QED
      BY <3>2, <3>3
  <2>3. ASSUME NEW i \in 1..(a + n)
        PROVE  f[i] = g[i]
    <3>1. CASE i <= a
      BY <1>5, <3>1
    <3>2. CASE i > a
      <4>1. PICK j \in 1..n : i = a + j /\ j = i - a
        <5>1. i - a \in 1..n /\ i = a + (i - a)
          BY <1>1, <3>2
        <5> QED
          BY <5>1
      <4>2. buf[(rp + i - 1) % N] = data[j]
        <5> HIDE DEF N, a, n
        <5> QED
          BY <1>8, <4>1
      <4>3. f[i] = data[j]
        BY <4>2
      <4>4. g[i] = data[i - a]
        <5>1. ~(i <= a)
          BY <1>1, <3>2
        <5> QED
          BY <5>1
      <4> QED
        BY <4>1, <4>3, <4>4
    <3> QED
      BY <1>1, <3>1, <3>2
  <2> HIDE DEF a, n, N
  <2>4. f = g
    BY <2>3
  <2> QED
    BY <2>1, <2>2, <2>4
<1>10. data # <<>>
  BY DEF PushPublish, CopiesHold
<1> QED
  BY <1>2, <1>9, <1>10 DEF Queue!Commit, Q

LEMMA PopStartMaps ==
  ASSUME IInv, NEW k \in 1..MaxAsk, PopStart(k)
  PROVE  Queue!Ask(k)
<1>1. /\ cpc = "idle" /\ want = 0
      /\ want' = k * geometry.bpf
      /\ take' = IF available < want' THEN available ELSE want'
      /\ cpc' = "copy"
      /\ UNCHANGED <<geometry, wp, rp, buf, offered, data>>
  BY DEF PopStart, IInv, Reserved, indexVars, prodVars
<1>2. Len(Q) = available /\ available \in Nat
  BY QueueLength, Geometry
<1>3. want' \in Nat
  BY <1>1, Sizes, BoundAssumption DEF IInv
<1>4. take' = Queue!Least(want', Len(Q))
  BY <1>1, <1>2, <1>3 DEF Queue!Least
<1>5. Q' = Q
  BY <1>1 DEF Q, Reading, available, size
<1> QED
  BY <1>1, <1>4, <1>5 DEF Queue!Ask, Q

LEMMA PopCopyMaps ==
  ASSUME IInv, PopCopy
  PROVE  UNCHANGED Queue!vars
<1>1. /\ cpc = "copy" /\ cpc' = "publish"
      /\ UNCHANGED <<geometry, wp, rp, buf, offered, data, want, take>>
  BY DEF PopCopy, indexVars, prodVars
<1>2. Q' = Q
  BY <1>1 DEF Q, Reading, available, size
<1> QED
  BY <1>1, <1>2 DEF Queue!vars, Q

LEMMA PopPublishMaps ==
  ASSUME IInv, CopiesHold, PopPublish
  PROVE  Queue!Answer
<1> DEFINE N == size
           a == available
           n == take
<1>1. /\ N \in Nat /\ N > 0 /\ wp \in 0..(N - 1) /\ rp \in 0..(N - 1)
      /\ a \in 0..(N - 1) /\ n \in Nat /\ n <= a /\ want \in Nat
  BY Geometry
<1>2. /\ cpc = "publish" /\ want > 0 /\ dest = Reading(rp, n)
      /\ rp' = (rp + n) % N
      /\ dest' = dest \o [i \in 1..(want - n) |-> Silence]
      /\ want' = 0 /\ take' = 0 /\ cpc' = "idle"
      /\ UNCHANGED <<geometry, wp, buf, offered, data>> /\ size' = N
  BY DEF PopPublish, Advance, prodVars, CopiesHold, size
<1>3. available' = a - n
  <2>1. ((wp - ((rp + n) % N)) % N) = ((wp - rp) % N) - n
    <3>1. n <= ((wp - rp) % N)
      BY <1>1 DEF available
    <3> HIDE DEF N, n
    <3> QED
      BY <1>1, <3>1, FillShrinks
  <2> QED
    BY <1>2, <2>1 DEF available
<1>4. Len(Q) = a /\ \A i \in 1..a : Q[i] = buf[(rp + i - 1) % N]
  BY QueueLength
<1>5. Q = [i \in 1..a |-> buf[(rp + i - 1) % N]]
  BY DEF Q, Reading
<1>6. Q' = [i \in 1..(a - n) |-> buf[(((rp + n) % N) + i - 1) % N]]
  BY <1>2, <1>3 DEF Q, Reading
<1>7. ASSUME NEW i \in 1..(a - n)
      PROVE  buf[(((rp + n) % N) + i - 1) % N] = Q[n + i]
  <2> DEFINE c == i - 1
             r2 == (rp + n) % N
  <2>1. c \in Nat /\ n + c <= N - 1 /\ rp + n + c = rp + (n + i) - 1 /\ n + i \in 1..a
    BY <1>1
  <2>2. (((rp + n) % N) + c) % N = (rp + n + c) % N
    <3> HIDE DEF N, c, n
    <3> QED
      BY <1>1, <2>1, WalkOn
  <2>3. r2 + i - 1 = r2 + c
    <3>1. r2 \in Int
      BY <1>1, ModRange
    <3> HIDE DEF r2
    <3> QED
      BY <3>1
  <2>4. Q[n + i] = buf[(rp + (n + i) - 1) % N]
    BY <1>4, <2>1
  <2> QED
    BY <2>1, <2>2, <2>3, <2>4
<1>8. Q' = SubSeq(Q, n + 1, Len(Q))
  <2> HIDE DEF N, a, n
  <2>1. SubSeq(Q, n + 1, a) = [i \in 1..(a - n) |-> Q[n + i]]
    <3>1. SubSeq(Q, n + 1, a) = [i \in 1..(a - (n + 1) + 1) |-> Q[i + (n + 1) - 1]]
      BY <1>1
    <3>2. a - (n + 1) + 1 = a - n /\ \A i \in 1..(a - n) : i + (n + 1) - 1 = n + i
      BY <1>1
    <3> QED
      BY <3>1, <3>2
  <2> QED
    BY <1>4, <1>6, <1>7, <2>1
<1>9. dest = SubSeq(Q, 1, n)
  <2>1. dest = [i \in 1..n |-> buf[(rp + i - 1) % N]]
    BY <1>2 DEF Reading
  <2> HIDE DEF N, a, n
  <2>2. SubSeq(Q, 1, n) = [i \in 1..n |-> Q[i]]
    <3>1. SubSeq(Q, 1, n) = [i \in 1..(n - 1 + 1) |-> Q[i + 1 - 1]]
      BY <1>1
    <3>2. n - 1 + 1 = n /\ \A i \in 1..n : i + 1 - 1 = i
      BY <1>1
    <3> QED
      BY <3>1, <3>2
  <2> QED
    BY <1>1, <1>4, <2>1, <2>2
<1> QED
  BY <1>2, <1>8, <1>9 DEF Queue!Answer, Q

LEMMA ClearMaps ==
  ASSUME IInv, NEW g \in Geometries, (ClearRing /\ g = geometry) \/ resize(g)
  PROVE  Queue!Reset(g)
<1>1. /\ data = <<>> /\ want = 0
      /\ geometry' = g /\ offered' = 0 /\ rp' = 0 /\ wp' = 0
      /\ UNCHANGED <<data, want, take, cpc, dest>>
  BY DEF ClearRing, resize, clear, IInv, Reserved
<1>2. g.size \in Nat /\ g.size > 0
  BY GeometryAssumption
<1>3. available' = 0
  <2>1. (0 - 0) % g.size = 0
    BY <1>2, ModIn
  <2> QED
    BY <1>1, <2>1 DEF available, size
<1>4. Q' = <<>>
  BY <1>3 DEF Q, Reading
<1> QED
  BY <1>1, <1>4 DEF Queue!Reset, Q

LEMMA NextMaps == IInv /\ CopiesHold /\ [Next]_vars => [Queue!Next]_(Queue!vars)
<1> SUFFICES ASSUME IInv, CopiesHold, [Next]_vars PROVE [Queue!Next]_(Queue!vars)
  OBVIOUS
<1>1. ASSUME NEW k \in 1..MaxBurst, PushStart(k) PROVE Queue!Next
  BY <1>1, PushStartMaps DEF Queue!Next
<1>2. CASE PushCopy
  BY <1>2, PushCopyMaps
<1>3. CASE PushPublish
  BY <1>3, PushPublishMaps DEF Queue!Next
<1>4. ASSUME NEW k \in 1..MaxAsk, PopStart(k) PROVE Queue!Next
  BY <1>4, PopStartMaps DEF Queue!Next
<1>5. CASE PopCopy
  BY <1>5, PopCopyMaps
<1>6. CASE PopPublish
  BY <1>6, PopPublishMaps DEF Queue!Next
<1>7. CASE ClearRing
  <2>1. geometry \in Geometries
    BY DEF IInv, TypeOK
  <2> QED
    BY <1>7, <2>1, ClearMaps DEF Queue!Next
<1>8. ASSUME NEW g \in Geometries, resize(g) PROVE Queue!Next
  BY <1>8, ClearMaps DEF Queue!Next
<1>9. CASE UNCHANGED vars
  BY <1>9 DEF vars, indexVars, prodVars, consVars, Queue!vars, Reading, available, size
<1> QED
  BY <1>1, <1>2, <1>3, <1>4, <1>5, <1>6, <1>7, <1>8, <1>9 DEF Next

(* pushFrames and popOrSilence, whatever their interleaving and wherever   *)
(* the indices wrap, are a bounded FIFO: what is read is what was accepted, *)
(* in order, and a frame is dropped only for want of room.                 *)
THEOREM RingImplementsFrameQueue == Spec => ImplementsFrameQueue
<1>1. Init => CopiesHold
  BY DEF Init, CopiesHold
<1>2. IInv /\ CopiesHold /\ [Next]_vars => CopiesHold'
  BY CopiesNext
<1>3. Init => Queue!Init
  BY InitMaps
<1>4. IInv /\ CopiesHold /\ [Next]_vars => [Queue!Next]_(Queue!vars)
  BY NextMaps
<1> QED
  BY <1>1, <1>2, <1>3, <1>4, InvariantHolds, PTL DEF Spec, ImplementsFrameQueue, Queue!Spec
-----------------------------------------------------------------------------
(* Whole frames, of what the queue holds and of what is on its way there.  *)

LEMMA Division ==
  ASSUME NEW b \in Nat \ {0}, NEW x \in Nat
  PROVE  /\ x \div b \in Nat /\ x % b \in 0..(b - 1)
         /\ x = (x \div b) * b + (x % b)
         /\ (x \div b) * b \in Nat /\ (x \div b) * b <= x
OBVIOUS

\* Quotient and rest are unique.
LEMMA RestOf ==
  ASSUME NEW b \in Nat \ {0}, NEW q \in Nat, NEW r \in 0..(b - 1)
  PROVE  (q * b + r) % b = r /\ (q * b + r) \div b = q
<1> DEFINE x == q * b + r
           d == x \div b
           m == x % b
<1>1. q * b \in Nat /\ x \in Nat
  BY SMT
<1>2. d \in Nat /\ m \in 0..(b - 1) /\ x = d * b + m
  BY <1>1, Division
<1> HIDE DEF d, m
<1>3. CASE d < q
  <2>1. q - d \in Nat /\ q - d >= 1 /\ (q - d) * b = q * b - d * b
    BY <1>2, <1>3, SMT
  <2>2. (q - d) * b >= b
    BY <2>1, SMT
  <2> QED
    BY <1>1, <1>2, <2>1, <2>2, SMT
<1>4. CASE d > q
  <2>1. d - q \in Nat /\ d - q >= 1 /\ (d - q) * b = d * b - q * b
    BY <1>2, <1>4, SMT
  <2>2. (d - q) * b >= b
    BY <2>1, SMT
  <2> QED
    BY <1>1, <1>2, <2>1, <2>2, SMT
<1>5. CASE d = q
  <2>1. m = r
    BY <1>1, <1>2, <1>5, SMT
  <2> QED
    BY <1>5, <2>1 DEF d, m
<1> QED
  BY <1>2, <1>3, <1>4, <1>5

\* Whole frames before a byte do not change its place.
LEMMA SamePlace ==
  ASSUME NEW b \in Nat \ {0}, NEW q \in Nat, NEW x \in Nat
  PROVE  (q * b + x) % b = x % b
<1>1. /\ x \div b \in Nat /\ x % b \in 0..(b - 1)
      /\ x = (x \div b) * b + (x % b)
  BY Division
<1>2. q * b + x = (q + (x \div b)) * b + (x % b)
  <2> DEFINE d == x \div b
             r == x % b
  <2> HIDE DEF d, r
  <2>1. d \in Nat /\ r \in Nat /\ x = d * b + r
    BY <1>1 DEF d, r
  <2>2. (q + d) * b = q * b + d * b
    BY <2>1, SMT
  <2>3. q * b \in Nat /\ d * b \in Nat
    BY <2>1, SMT
  <2>4. q * b + x = (q + d) * b + r
    BY <2>1, <2>2, <2>3, SMT
  <2> QED
    BY <2>4 DEF d, r
<1> DEFINE e == q + (x \div b)
           m == x % b
<1>3. e \in Nat /\ m \in 0..(b - 1) /\ q * b + x = e * b + m
  BY <1>1, <1>2
<1> HIDE DEF e, m
<1>4. (q * b + x) % b = m
  BY <1>3, RestOf
<1> QED
  BY <1>4 DEF m


LEMMA Multiples ==
  ASSUME NEW b \in Nat \ {0}, NEW x \in Nat, x % b = 0
  PROVE  /\ \A y \in Nat : (x + y) % b = y % b
         /\ \A y \in Nat : y % b = 0 /\ y <= x => x - y \in Nat /\ (x - y) % b = 0
<1> DEFINE d == x \div b
<1>1. d \in Nat /\ x = d * b
  <2>1. d \in Nat /\ x = d * b + (x % b) /\ d * b \in Nat
    BY Division
  <2> HIDE DEF d
  <2> QED
    BY <2>1
<1> HIDE DEF d
<1>2. ASSUME NEW y \in Nat PROVE (x + y) % b = y % b
  <2>1. (d * b + y) % b = y % b
    BY <1>1, SamePlace
  <2> QED
    BY <1>1, <2>1
<1>3. ASSUME NEW y \in Nat, y % b = 0, y <= x PROVE x - y \in Nat /\ (x - y) % b = 0
  <2> DEFINE z == x - y
  <2>1. z \in Nat /\ x = y + z
    BY <1>3
  <2> HIDE DEF z
  <2> DEFINE e == y \div b
  <2>2. e \in Nat /\ y = e * b
    <3>1. e \in Nat /\ y = e * b + (y % b) /\ e * b \in Nat
      BY Division
    <3> HIDE DEF e
    <3> QED
      BY <1>3, <3>1
  <2> HIDE DEF e
  <2>3. (e * b + z) % b = z % b
    BY <2>1, <2>2, SamePlace
  <2>4. z % b = 0
    BY <2>1, <2>2, <2>3
  <2> QED
    BY <2>1, <2>4 DEF z
<1> QED
  BY <1>2, <1>3

LEMMA FrameMultiple ==
  ASSUME NEW b \in Nat \ {0}, NEW k \in Nat
  PROVE  k * b \in Nat /\ (k * b) % b = 0
<1>1. (k * b + 0) % b = 0
  BY RestOf
<1> DEFINE m == k * b
<1>2. m \in Nat
  OBVIOUS
<1>3. m + 0 = m
  BY <1>2
<1> QED
  BY <1>1, <1>2, <1>3

(* q is whole frames of b bytes, each made of the bytes the producer put   *)
(* into it, in the order they were offered.                                *)
Framed(q, b) ==
  /\ Len(q) % b = 0
  /\ \A i \in 1..Len(q) :
       /\ q[i] % b = (i - 1) % b
       /\ i > 1 => IF (i - 1) % b = 0 THEN q[i] > q[i - 1] ELSE q[i] = q[i - 1] + 1

LEMMA NewFrames ==
  ASSUME NEW b \in Nat \ {0}, NEW x \in Nat, x % b = 0, NEW n \in Nat, n % b = 0,
         NEW d \in Seq(Nat), Len(d) = n, \A i \in 1..n : d[i] = x + i - 1
  PROVE  Framed(d, b)
<1>1. d \in Seq(Nat) /\ Len(d) = n /\ \A i \in 1..n : d[i] = x + i - 1
  OBVIOUS
<1>2. ASSUME NEW i \in 1..n PROVE d[i] % b = (i - 1) % b
  <2> DEFINE y == i - 1
  <2>1. y \in Nat /\ x + y = x + i - 1
    OBVIOUS
  <2> HIDE DEF y
  <2>2. (x + y) % b = y % b
    BY <2>1, Multiples
  <2> QED
    BY <1>1, <2>1, <2>2 DEF y
<1>3. ASSUME NEW i \in 1..n, i > 1 PROVE d[i] = d[i - 1] + 1 /\ d[i] > d[i - 1]
  <2>1. i - 1 \in 1..n /\ d[i] = x + i - 1 /\ d[i - 1] = x + (i - 1) - 1
    BY <1>1, <1>3
  <2> QED
    BY <2>1
<1> QED
  BY <1>1, <1>2, <1>3 DEF Framed

LEMMA FramedConcat ==
  ASSUME NEW b \in Nat \ {0}, NEW q \in Seq(Nat), NEW d \in Seq(Nat), Framed(q, b), Framed(d, b),
         \A i \in 1..Len(q), j \in 1..Len(d) : q[i] < d[j]
  PROVE  q \o d \in Seq(Nat) /\ Framed(q \o d, b)
<1> DEFINE h == q \o d
           m == Len(q)
           n == Len(d)
<1>1. h \in Seq(Nat) /\ Len(h) = m + n /\ m \in Nat /\ n \in Nat
  OBVIOUS
<1>2. \A i \in 1..(m + n) : h[i] = IF i <= m THEN q[i] ELSE d[i - m]
  BY ConcatProperties
<1>3. m % b = 0 /\ n % b = 0
  BY DEF Framed
<1>4. /\ \A i \in 1..m : /\ q[i] % b = (i - 1) % b
                         /\ i > 1 => IF (i - 1) % b = 0 THEN q[i] > q[i - 1] ELSE q[i] = q[i - 1] + 1
      /\ \A i \in 1..n : /\ d[i] % b = (i - 1) % b
                         /\ i > 1 => IF (i - 1) % b = 0 THEN d[i] > d[i - 1] ELSE d[i] = d[i - 1] + 1
  BY DEF Framed
<1>5. \A i \in 1..m, j \in 1..n : q[i] < d[j] /\ q[i] \in Nat /\ d[j] \in Nat
  OBVIOUS
<1> HIDE DEF h, m, n
<1>6. (m + n) % b = 0
  BY <1>1, <1>3, Multiples
<1>7. ASSUME NEW i \in 1..(m + n)
      PROVE  /\ h[i] % b = (i - 1) % b
             /\ i > 1 => IF (i - 1) % b = 0 THEN h[i] > h[i - 1] ELSE h[i] = h[i - 1] + 1
  <2>1. CASE i <= m
    <3>1. i \in 1..m /\ h[i] = q[i] /\ (i > 1 => h[i - 1] = q[i - 1])
      BY <1>1, <1>2, <2>1
    <3> QED
      BY <1>4, <3>1
  <2>2. CASE i > m
    <3>1. PICK j \in 1..n : i = m + j /\ j = i - m
      <4>1. i - m \in 1..n /\ i = m + (i - m)
        BY <1>1, <2>2
      <4> QED
        BY <4>1
    <3>2. h[i] = d[j]
      BY <1>1, <1>2, <2>2, <3>1
    <3>3. (i - 1) % b = (j - 1) % b
      <4> DEFINE y == j - 1
      <4>1. y \in Nat /\ i - 1 = m + y
        BY <1>1, <3>1
      <4> HIDE DEF y
      <4>2. (m + y) % b = y % b
        BY <1>1, <1>3, <4>1, Multiples
      <4> QED
        BY <4>1, <4>2 DEF y
    <3>4. CASE j = 1
      <4>1. (i - 1) % b = 0
        BY <3>3, <3>4
      <4>2. i > 1 => i - 1 \in 1..m /\ h[i - 1] = q[i - 1]
        BY <1>1, <1>2, <3>1, <3>4
      <4>3. i > 1 => h[i] > h[i - 1]
        BY <1>5, <3>2, <4>2
      <4> QED
        BY <1>4, <3>2, <3>3, <4>1, <4>3
    <3>5. CASE j > 1
      <4>1. h[i - 1] = d[j - 1]
        <5>1. i - 1 \in 1..(m + n) /\ ~(i - 1 <= m) /\ (i - 1) - m = j - 1
          BY <1>1, <3>1, <3>5
        <5> QED
          BY <1>2, <5>1
      <4> QED
        BY <1>4, <3>2, <3>3, <3>5, <4>1
    <3> QED
      BY <3>4, <3>5
  <2> QED
    BY <1>1, <2>1, <2>2
<1>8. Framed(h, b)
  BY <1>1, <1>6, <1>7 DEF Framed
<1> QED
  BY <1>1, <1>8 DEF h

LEMMA FramedTail ==
  ASSUME NEW b \in Nat \ {0}, NEW q \in Seq(Nat), Framed(q, b),
         NEW t \in Nat, t <= Len(q), t % b = 0
  PROVE  /\ SubSeq(q, t + 1, Len(q)) \in Seq(Nat)
         /\ Len(SubSeq(q, t + 1, Len(q))) = Len(q) - t
         /\ \A i \in 1..(Len(q) - t) : SubSeq(q, t + 1, Len(q))[i] = q[t + i]
         /\ Framed(SubSeq(q, t + 1, Len(q)), b)
<1> DEFINE m == Len(q)
           h == SubSeq(q, t + 1, m)
           n == m - t
<1>1. m \in Nat /\ n \in Nat /\ m = t + n
  OBVIOUS
<1>2. h \in Seq(Nat) /\ Len(h) = n /\ \A i \in 1..n : h[i] = q[t + i]
  <2>1. h \in Seq(Nat) /\ Len(h) = m - (t + 1) + 1
    BY SMTT(30)
  <2>2. m - (t + 1) + 1 = n
    BY <1>1
  <2>3. ASSUME NEW i \in 1..n PROVE h[i] = q[t + i]
    <3>1. h[i] = q[(t + 1) + i - 1]
      BY <1>1, <2>2, SMTT(30)
    <3>2. (t + 1) + i - 1 = t + i
      OBVIOUS
    <3> QED
      BY <3>1, <3>2
  <2> QED
    BY <2>1, <2>2, <2>3, Zenon
<1> DEFINE Placed(j) == /\ q[j] % b = (j - 1) % b
                        /\ j > 1 => IF (j - 1) % b = 0 THEN q[j] > q[j - 1] ELSE q[j] = q[j - 1] + 1
<1>3. m % b = 0 /\ \A j \in 1..m : Placed(j)
  BY DEF Framed
<1> HIDE DEF m, n, h, Placed
<1>4. n % b = 0
  <2>1. m - t = n
    BY <1>1
  <2>2. t <= m
    BY <1>1
  <2>3. (m - t) % b = 0
    BY <1>1, <1>3, <2>2, Multiples
  <2> QED
    BY <2>1, <2>3
<1>5. ASSUME NEW i \in 1..n
      PROVE  /\ h[i] % b = (i - 1) % b
             /\ i > 1 => IF (i - 1) % b = 0 THEN h[i] > h[i - 1] ELSE h[i] = h[i - 1] + 1
  <2> DEFINE k == t + i
  <2>1. k \in 1..m /\ h[i] = q[k] /\ (i > 1 => k > 1 /\ h[i - 1] = q[k - 1])
    <3>1. k \in 1..m /\ h[i] = q[k]
      BY <1>1, <1>2
    <3>2. i > 1 => i - 1 \in 1..n /\ t + (i - 1) = k - 1 /\ k > 1
      BY <1>1
    <3> QED
      BY <1>2, <3>1, <3>2
  <2>2. (k - 1) % b = (i - 1) % b
    <3> DEFINE y == i - 1
    <3>1. y \in Nat /\ k - 1 = t + y
      OBVIOUS
    <3> HIDE DEF y, k
    <3>2. (t + y) % b = y % b
      BY <3>1, Multiples
    <3> QED
      BY <3>1, <3>2 DEF y
  <2> HIDE DEF k
  <2>3. /\ q[k] % b = (k - 1) % b
        /\ k > 1 => IF (k - 1) % b = 0 THEN q[k] > q[k - 1] ELSE q[k] = q[k - 1] + 1
    <3>1. Placed(k)
      BY <1>3, <2>1
    <3> QED
      BY <3>1 DEF Placed
  <2>4. CASE i > 1
    <3>1. k > 1 /\ h[i] = q[k] /\ h[i - 1] = q[k - 1]
      BY <2>1, <2>4
    <3>2. IF (i - 1) % b = 0 THEN h[i] > h[i - 1] ELSE h[i] = h[i - 1] + 1
      BY <2>2, <2>3, <3>1, Zenon
    <3> QED
      BY <2>2, <2>3, <3>1, <3>2, Zenon
  <2>5. CASE ~(i > 1)
    BY <2>1, <2>2, <2>3, <2>5, Zenon
  <2> QED
    BY <2>4, <2>5
<1>6. Framed(h, b)
  BY <1>2, <1>4, <1>5 DEF Framed
<1> QED
  BY <1>2, <1>6, Zenon DEF h, n, m

(* Whole frames in the queue, and after them on their way to it. *)
FramesFlow ==
  LET b == geometry.bpf
  IN  /\ offered \in Nat /\ offered % b = 0 /\ take \in Nat /\ take % b = 0
      /\ Q \in Seq(Nat) /\ Framed(Q, b)
      /\ data \in Seq(Nat) /\ Framed(data, b)
      /\ \A i \in 1..Len(Q) : Q[i] < offered /\ \A j \in 1..Len(data) : Q[i] < data[j]
      /\ \A j \in 1..Len(data) : data[j] < offered

LEMMA EmptyFramed == ASSUME NEW b \in Nat \ {0} PROVE Framed(<<>>, b) /\ 0 % b = 0
<1>1. 0 % b = 0
  OBVIOUS
<1> QED
  BY <1>1 DEF Framed

LEMMA OfferFrames ==
  ASSUME FramesFlow, NEW k \in 1..MaxBurst, Queue!Offer(k), geometry \in Geometries,
         Queue!room \in Nat
  PROVE  FramesFlow'
<1> DEFINE b == geometry.bpf
           r == Queue!room
           j == Queue!Least(k, r \div b)
           n == j * b
           len == k * b
<1>1. b \in Nat \ {0} /\ k \in Nat /\ r \in Nat
  BY GeometryAssumption, BoundAssumption
<1>2. /\ offered' = offered + len
      /\ data' = [i \in 1..n |-> offered + i - 1]
      /\ geometry' = geometry /\ Q' = Q /\ take' = take
  BY DEF Queue!Offer, Q
<1>3. /\ offered \in Nat /\ offered % b = 0 /\ take \in Nat /\ take % b = 0
      /\ Q \in Seq(Nat) /\ Framed(Q, b) /\ \A i \in 1..Len(Q) : Q[i] < offered
  BY DEF FramesFlow
<1>4. j \in Nat /\ j <= k
  <2>1. r \div b \in Nat
    <3> HIDE DEF b, r
    <3> QED
      BY <1>1, Division
  <2> QED
    BY <1>1, <2>1 DEF Queue!Least
<1> HIDE DEF b, j, r
<1>5. n \in Nat /\ n % b = 0 /\ len \in Nat /\ len % b = 0
  BY <1>1, <1>4, FrameMultiple
<1>6. n <= len
  <2>1. PICK d \in Nat : k = j + d
    <3>1. k = j + (k - j) /\ k - j \in Nat
      BY <1>1, <1>4
    <3> QED
      BY <3>1
  <2>2. len = n + d * b /\ d * b \in Nat
    BY <1>1, <1>4, <2>1
  <2> QED
    BY <1>5, <2>2
<1> HIDE DEF n, len
<1>7. /\ data' \in Seq(Nat) /\ Len(data') = n /\ Framed(data', b)
      /\ \A i \in 1..n : data'[i] = offered + i - 1
  <2> DEFINE x == offered
         e == data'
  <2>1. x \in Nat /\ x % b = 0 /\ e = [i \in 1..n |-> x + i - 1]
    BY <1>2, <1>3
  <2>2. b \in Nat \ {0} /\ n \in Nat /\ n % b = 0
    BY <1>1, <1>5
  <2> HIDE DEF x, e
  <2>3. e \in Seq(Nat) /\ Len(e) = n /\ \A i \in 1..n : e[i] = x + i - 1
    BY <2>1, <2>2
  <2>4. Framed(e, b)
    BY <2>1, <2>2, <2>3, NewFrames
  <2> QED
    BY <2>3, <2>4 DEF x, e
<1>8. offered' \in Nat /\ offered' % b = 0 /\ offered <= offered'
  <2>1. (offered + len) % b = 0
    BY <1>1, <1>3, <1>5, Multiples
  <2> QED
    BY <1>2, <1>3, <1>5, <2>1
<1>9. \A i \in 1..n : data'[i] \in Nat /\ data'[i] < offered' /\ offered <= data'[i]
  BY <1>2, <1>3, <1>5, <1>6, <1>7
<1>10. \A i \in 1..Len(Q) : Q[i] \in Nat /\ Q[i] < offered'
  BY <1>3, <1>8
<1>11. \A i \in 1..Len(Q), l \in 1..n : Q[i] < data'[l]
  BY <1>3, <1>9, <1>10
<1>12. /\ offered' \in Nat /\ offered' % b = 0 /\ take' \in Nat /\ take' % b = 0
       /\ Q' \in Seq(Nat) /\ Framed(Q', b)
       /\ data' \in Seq(Nat) /\ Framed(data', b)
       /\ \A i \in 1..Len(Q') : Q'[i] < offered' /\ \A l \in 1..Len(data') : Q'[i] < data'[l]
       /\ \A l \in 1..Len(data') : data'[l] < offered'
  BY <1>2, <1>3, <1>7, <1>8, <1>9, <1>10, <1>11
<1>13. geometry'.bpf = b
  BY <1>2 DEF b
<1> QED
  BY <1>12, <1>13 DEF FramesFlow

LEMMA CommitFrames ==
  ASSUME FramesFlow, Queue!Commit, geometry \in Geometries
  PROVE  FramesFlow'
<1> DEFINE b == geometry.bpf
           m == Len(Q)
           n == Len(data)
           h == Q \o data
<1>1. b \in Nat \ {0}
  BY GeometryAssumption
<1>2. /\ Q' = h /\ data' = <<>> /\ offered' = offered /\ take' = take
      /\ geometry' = geometry
  BY DEF Queue!Commit, Q
<1>3. /\ offered \in Nat /\ offered % b = 0 /\ take \in Nat /\ take % b = 0
      /\ Q \in Seq(Nat) /\ Framed(Q, b) /\ data \in Seq(Nat) /\ Framed(data, b)
      /\ \A i \in 1..m : Q[i] < offered
      /\ \A i \in 1..m, j \in 1..n : Q[i] < data[j]
      /\ \A j \in 1..n : data[j] < offered
  BY DEF FramesFlow
<1> HIDE DEF b
<1>4. h \in Seq(Nat) /\ Framed(h, b)
  BY <1>1, <1>3, FramedConcat
<1>5. /\ m \in Nat /\ n \in Nat /\ Len(h) = m + n
      /\ \A i \in 1..(m + n) : h[i] = IF i <= m THEN Q[i] ELSE data[i - m]
  BY <1>3, ConcatProperties
<1> HIDE DEF h, m, n
<1>6. ASSUME NEW i \in 1..Len(h) PROVE h[i] < offered
  <2>1. CASE i <= m
    <3>1. i \in 1..m /\ h[i] = Q[i]
      BY <1>5, <2>1
    <3> QED
      BY <1>3, <3>1
  <2>2. CASE i > m
    <3>1. i - m \in 1..n /\ h[i] = data[i - m]
      BY <1>5, <2>2
    <3> QED
      BY <1>3, <3>1
  <2> QED
    BY <1>5, <2>1, <2>2
<1>7. Framed(<<>>, b)
  BY <1>1, EmptyFramed
<1>8. geometry'.bpf = b
  BY <1>2 DEF b
<1> QED
  BY <1>2, <1>3, <1>4, <1>6, <1>7, <1>8 DEF FramesFlow

LEMMA AskFrames ==
  ASSUME FramesFlow, NEW k \in 1..MaxAsk, Queue!Ask(k), geometry \in Geometries
  PROVE  FramesFlow'
<1> DEFINE b == geometry.bpf
           m == Len(Q)
           len == k * b
<1>1. b \in Nat \ {0} /\ k \in Nat
  BY GeometryAssumption, BoundAssumption
<1>2. /\ Q' = Q /\ data' = data /\ offered' = offered /\ geometry' = geometry
      /\ take' = Queue!Least(len, m)
  BY DEF Queue!Ask, Q
<1>3. Q \in Seq(Nat) /\ m % b = 0
  BY DEF FramesFlow, Framed
<1>4. m \in Nat
  BY <1>3
<1> HIDE DEF b, m
<1>5. len \in Nat /\ len % b = 0
  BY <1>1, FrameMultiple
<1> HIDE DEF len
<1>6. take' \in Nat /\ take' % b = 0
  BY <1>2, <1>3, <1>4, <1>5 DEF Queue!Least
<1> QED
  BY <1>2, <1>6 DEF FramesFlow, b

LEMMA AnswerFrames ==
  ASSUME FramesFlow, Queue!Answer, geometry \in Geometries, take <= Len(Q)
  PROVE  FramesFlow'
<1> DEFINE b == geometry.bpf
           m == Len(Q)
           h == SubSeq(Q, take + 1, Len(Q))
<1>1. b \in Nat \ {0}
  BY GeometryAssumption
<1>2. /\ Q' = h /\ data' = data /\ offered' = offered /\ geometry' = geometry /\ take' = 0
  BY DEF Queue!Answer, Q
<1>3. /\ offered \in Nat /\ offered % b = 0 /\ take \in Nat /\ take % b = 0 /\ take <= m
      /\ Q \in Seq(Nat) /\ Framed(Q, b) /\ data \in Seq(Nat) /\ Framed(data, b)
      /\ \A i \in 1..m : Q[i] < offered /\ \A j \in 1..Len(data) : Q[i] < data[j]
      /\ \A j \in 1..Len(data) : data[j] < offered
  BY DEF FramesFlow
<1> HIDE DEF b
<1>4. /\ h \in Seq(Nat) /\ Framed(h, b) /\ Len(h) = m - take
      /\ \A i \in 1..(m - take) : h[i] = Q[take + i]
  BY <1>1, <1>3, FramedTail
<1>5. m \in Nat
  BY <1>3
<1>6. 0 % b = 0
  BY <1>1, EmptyFramed
<1> HIDE DEF h, m
<1>7. ASSUME NEW i \in 1..Len(h)
      PROVE  h[i] < offered /\ \A j \in 1..Len(data) : h[i] < data[j]
  <2>1. take + i \in 1..m /\ h[i] = Q[take + i]
    BY <1>3, <1>4, <1>5
  <2> QED
    BY <1>3, <2>1
<1>8. geometry'.bpf = b
  BY <1>2 DEF b
<1> QED
  BY <1>2, <1>3, <1>4, <1>6, <1>7, <1>8 DEF FramesFlow

LEMMA ResetFrames ==
  ASSUME FramesFlow, NEW g \in Geometries, Queue!Reset(g), take = 0
  PROVE  FramesFlow'
<1>1. /\ Q' = <<>> /\ data' = <<>> /\ offered' = 0 /\ geometry' = g /\ take' = 0
  BY DEF Queue!Reset, Q
<1> DEFINE b == g.bpf
<1>2. b \in Nat \ {0}
  BY GeometryAssumption
<1>4. geometry'.bpf = b
  BY <1>1
<1> HIDE DEF b
<1>3. Framed(<<>>, b) /\ 0 % b = 0
  BY <1>2, EmptyFramed
<1> QED
  BY <1>1, <1>3, <1>4 DEF FramesFlow

LEMMA FramesNext ==
  IInv /\ FramesFlow /\ [Queue!Next]_(Queue!vars) => FramesFlow'
<1> SUFFICES ASSUME IInv, FramesFlow, [Queue!Next]_(Queue!vars) PROVE FramesFlow'
  OBVIOUS
<1>1. geometry \in Geometries
  BY DEF IInv, TypeOK
<1>2. Len(Q) = available /\ take <= available /\ available \in Nat
  BY QueueLength, Geometry
<1>3. ASSUME NEW k \in 1..MaxBurst, Queue!Offer(k) PROVE FramesFlow'
  <2>1. Queue!room = geometry.size - 1 - Len(Q)
    BY DEF Queue!room, Q
  <2>2. geometry.size \in Nat /\ available <= geometry.size - 1
    BY Geometry DEF size
  <2>3. Queue!room \in Nat
    BY <1>2, <2>1, <2>2
  <2> QED
    BY <1>1, <1>3, <2>3, OfferFrames
<1>4. CASE Queue!Commit
  BY <1>1, <1>4, CommitFrames
<1>5. ASSUME NEW k \in 1..MaxAsk, Queue!Ask(k) PROVE FramesFlow'
  BY <1>1, <1>5, AskFrames
<1>6. CASE Queue!Answer
  BY <1>1, <1>2, <1>6, AnswerFrames
<1>7. ASSUME NEW g \in Geometries, Queue!Reset(g) PROVE FramesFlow'
  <2>1. want = 0 /\ take = 0
    <3>1. want = 0
      BY <1>7 DEF Queue!Reset
    <3> QED
      BY <3>1, Geometry
  <2> QED
    BY <1>7, <2>1, ResetFrames
<1>8. CASE UNCHANGED Queue!vars
  BY <1>8 DEF Queue!vars, FramesFlow, Q
<1> QED
  BY <1>3, <1>4, <1>5, <1>6, <1>7, <1>8 DEF Queue!Next

(* Whatever was dropped and wherever the indices wrapped, what the consumer *)
(* would read next is whole frames in the order they were offered.         *)
THEOREM FramesStayWhole == Spec => []WholeFrames
<1>1. Init => CopiesHold
  BY DEF Init, CopiesHold
<1>2. Init => FramesFlow
  <2> SUFFICES ASSUME Init PROVE FramesFlow
    OBVIOUS
  <2> DEFINE b == geometry.bpf
  <2>1. Q = <<>> /\ data = <<>> /\ offered = 0 /\ take = 0
    BY InitMaps DEF Queue!Init, Q
  <2>2. b \in Nat \ {0}
    BY GeometryAssumption DEF Init
  <2> HIDE DEF b
  <2>3. Framed(<<>>, b) /\ 0 % b = 0
    BY <2>2, EmptyFramed
  <2> QED
    BY <2>1, <2>3 DEF FramesFlow, b
<1>3. IInv /\ CopiesHold /\ [Next]_vars => CopiesHold'
  BY CopiesNext
<1>4. IInv /\ CopiesHold /\ FramesFlow /\ [Next]_vars => FramesFlow'
  BY NextMaps, FramesNext
<1>5. IInv /\ FramesFlow => WholeFrames
  <2> SUFFICES ASSUME FramesFlow PROVE WholeFrames
    OBVIOUS
  <2>1. Framed(Q, geometry.bpf) /\ Q \in Seq(Nat)
    BY DEF FramesFlow
  <2>2. DOMAIN Q = 1..Len(Q)
    BY <2>1
  <2> QED
    BY <2>1, <2>2 DEF WholeFrames, Framed, Q
<1> QED
  BY <1>1, <1>2, <1>3, <1>4, <1>5, InvariantHolds, PTL DEF Spec
=============================================================================
