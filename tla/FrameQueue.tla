----------------------------- MODULE FrameQueue -----------------------------
(***************************************************************************)
(* What the PCM queue promises its two users, without memory, indices or   *)
(* wrap-around: a bounded FIFO of whole frames between one producer and    *)
(* one consumer.  A full queue drops the newest frames, an empty one is    *)
(* padded with silence, and neither side ever waits.  PcmRing implements   *)
(* this specification.                                                     *)
(*                                                                         *)
(* A byte is its position in the stream offered since the last Reset.      *)
(***************************************************************************)
EXTENDS Integers, Sequences

CONSTANTS Geometries,   \* records [size, bpf]: ring bytes, bytes per frame
          MaxBurst,     \* frames of one Offer
          MaxAsk,       \* frames of one Ask
          Silence       \* the padding byte

VARIABLES geometry,     \* the current format's record
          offered,      \* bytes offered since the last Reset
          queue,        \* bytes the consumer may read
          block,        \* accepted bytes, not visible yet
          asked,        \* bytes of the request in progress, 0 when none
          granted,      \* of those, the bytes that will be real
          out           \* the last answer, empty while one is in progress

vars == <<geometry, offered, queue, block, asked, granted, out>>

room == geometry.size - 1 - Len(queue)
Least(a, b) == IF a < b THEN a ELSE b

Init ==
  /\ geometry \in Geometries
  /\ offered = 0 /\ asked = 0 /\ granted = 0
  /\ queue = <<>> /\ block = <<>> /\ out = <<>>

(* The producer offers k frames; the longest prefix of whole frames that   *)
(* fits is accepted, the rest is lost.                                     *)
Offer(k) ==
  LET fit == Least(k, room \div geometry.bpf) * geometry.bpf
  IN  /\ block = <<>>
      /\ offered' = offered + k * geometry.bpf
      /\ block' = [i \in 1..fit |-> offered + i - 1]
      /\ UNCHANGED <<geometry, queue, asked, granted, out>>

Commit ==
  /\ block # <<>>
  /\ queue' = queue \o block
  /\ block' = <<>>
  /\ UNCHANGED <<geometry, offered, asked, granted, out>>

(* What is granted is settled when the request is made: bytes committed    *)
(* later do not join this answer.                                          *)
Ask(k) ==
  /\ asked = 0
  /\ asked' = k * geometry.bpf
  /\ granted' = Least(asked', Len(queue))
  /\ out' = <<>>
  /\ UNCHANGED <<geometry, offered, queue, block>>

Answer ==
  /\ asked > 0
  /\ out' = SubSeq(queue, 1, granted) \o [i \in 1..(asked - granted) |-> Silence]
  /\ queue' = SubSeq(queue, granted + 1, Len(queue))
  /\ asked' = 0 /\ granted' = 0
  /\ UNCHANGED <<geometry, offered, block>>

(* A new track or format; nothing may be in progress on either side. *)
Reset(g) ==
  /\ block = <<>> /\ asked = 0
  /\ geometry' = g /\ offered' = 0 /\ queue' = <<>>
  /\ UNCHANGED <<block, asked, granted, out>>

Next ==
  \/ \E k \in 1..MaxBurst : Offer(k)
  \/ Commit
  \/ \E k \in 1..MaxAsk : Ask(k)
  \/ Answer
  \/ \E g \in Geometries : Reset(g)

Spec == Init /\ [][Next]_vars
=============================================================================
