------------------------- MODULE ReceiverLoopProofs -------------------------
(***************************************************************************)
(* ReceiverLoop for every header length, socket size and number of errors. *)
(***************************************************************************)
EXTENDS ReceiverLoop, TLAPS

LEMMA InitHolds == Init => IInv
<1> SUFFICES ASSUME Init PROVE IInv
  OBVIOUS
<1>1. sock \in Seq(Datagram) /\ Len(sock) <= MaxSock
  BY ReceiverAssumption DEF Init
<1>2. n < Hdr
  BY ReceiverAssumption DEF Init
<1>3. FlagTypes
  BY Zenon DEF Init, FlagTypes
<1>4. TypeOK
  BY <1>1, <1>3, ReceiverAssumption DEF Init, TypeOK, Steps
<1>5. SizeAlongPath
  BY <1>2, ReceiverAssumption DEF Init, SizeAlongPath
<1>6. LateAlongPath
  BY DEF Init, LateAlongPath, NothingPlayedAfterSignal
<1> QED
  BY <1>4, <1>5, <1>6 DEF IInv

\* What the socket holds is a datagram; reading it leaves datagrams.
LEMMA Read ==
  ASSUME TypeOK, SizeAlongPath, Receive
  PROVE  /\ Head(sock) \in Datagram
         /\ Tail(sock) \in Seq(Datagram) /\ Len(Tail(sock)) <= MaxSock
<1>1. sock \in Seq(Datagram) /\ sock # <<>> /\ Len(sock) <= MaxSock
  BY DEF TypeOK, SizeAlongPath, Receive
<1>2. MaxSock \in Nat /\ Len(sock) \in Nat /\ Len(Tail(sock)) = Len(sock) - 1
  BY <1>1, ReceiverAssumption
<1> QED
  BY <1>1, <1>2

\* The flags: a signal sets one for good, a read copies it into the other.
LEMMA FlagsHold == FlagTypes /\ [Next]_vars => FlagTypes'
<1> SUFFICES ASSUME FlagTypes, [Next]_vars PROVE FlagTypes'
  OBVIOUS
<1>1. CASE Signal
  BY <1>1, Zenon DEF FlagTypes, Signal
<1>2. CASE Receive
  BY <1>2, Zenon DEF FlagTypes, Receive
<1>3. CASE UNCHANGED <<shutdown_pending, late>>
  BY <1>3, Zenon DEF FlagTypes
<1> QED
  BY <1>1, <1>2, <1>3, Zenon
     DEF Next, Thread, Arrive, MainTest, ReceiveTest, Decode, Readable, Timeout, SelectFails,
         RecvFails, Returned, Tick, Send, Close, vars, loop

\* Everything but the flags, action by action.
LEMMA TypesHold == IInv /\ [Next]_vars => TypeOK'
<1> SUFFICES ASSUME TypeOK, SizeAlongPath, [Next]_vars PROVE TypeOK'
  BY DEF IInv
<1>0. FlagTypes'
  BY FlagsHold DEF TypeOK
<1> USE ReceiverAssumption, <1>0 DEF TypeOK, Steps
<1>1. CASE MainTest
  BY <1>1 DEF MainTest
<1>2. CASE ReceiveTest
  BY <1>2 DEF ReceiveTest
<1>3. CASE Decode
  BY <1>3 DEF Decode, Payload
<1>4. CASE Readable
  BY <1>4 DEF Readable
<1>5. CASE Timeout
  BY <1>5 DEF Timeout, AfterTimeout
<1>6. CASE SelectFails
  BY <1>6 DEF SelectFails
<1>7. CASE RecvFails
  BY <1>7 DEF RecvFails
<1>8. CASE Receive
  <2>1. Head(sock).from \in {"allowed", "other"} /\ Head(sock).size \in {Hdr - 1, Hdr, Hdr + 1}
    BY <1>8, Read DEF Datagram
  <2>2. n' \in {-1, 0, Hdr - 1, Hdr, Hdr + 1} /\ from' \in {"allowed", "other"}
    BY <1>8, <2>1 DEF Receive, AcceptedSize
  <2>3. sock' \in Seq(Datagram) /\ Len(sock') <= MaxSock
    BY <1>8, Read DEF Receive
  <2> QED
    BY <1>8, <2>2, <2>3 DEF Receive
<1>9. CASE Returned
  BY <1>9 DEF Returned, AfterReceive, AfterReceiveUnchecked
<1>10. CASE Tick
  BY <1>10 DEF Tick
<1>11. CASE Send
  BY <1>11 DEF Send
<1>12. CASE Close
  BY <1>12 DEF Close
<1>13. CASE Arrive
  <2>1. sock' \in Seq(Datagram) /\ Len(sock') <= MaxSock
    BY <1>13 DEF Arrive
  <2> QED
    BY <1>13, <2>1 DEF Arrive, loop
<1>14. CASE Signal
  BY <1>14 DEF Signal
<1>15. CASE UNCHANGED vars
  BY <1>15 DEF vars
<1> QED
  BY <1>1, <1>2, <1>3, <1>4, <1>5, <1>6, <1>7, <1>8, <1>9, <1>10, <1>11, <1>12, <1>13, <1>14, <1>15
     DEF Next, Thread

\* The sizes.  The interesting steps are a read, which gives a foreign
\* datagram the size 0, and the decoding of a whole header.
LEMMA SizesHold == IInv /\ [Next]_vars => SizeAlongPath'
<1> SUFFICES ASSUME TypeOK, SizeAlongPath, [Next]_vars PROVE SizeAlongPath'
  BY DEF IInv
<1>0. /\ n \in Int /\ audio_size \in 0..1
  BY ReceiverAssumption DEF TypeOK
<1> USE ReceiverAssumption, <1>0 DEF SizeAlongPath
<1>1. CASE MainTest
  BY <1>1 DEF MainTest
<1>2. CASE ReceiveTest
  BY <1>2 DEF ReceiveTest
<1>3. CASE Decode
  BY <1>3 DEF Decode, Payload
<1>4. CASE Readable
  BY <1>4 DEF Readable
<1>5. CASE Timeout
  BY <1>5 DEF Timeout, AfterTimeout
<1>6. CASE SelectFails
  BY <1>6 DEF SelectFails
<1>7. CASE RecvFails
  BY <1>7 DEF RecvFails
<1>8. CASE Receive
  <2>1. n' >= Hdr => from' = "allowed"
    BY <1>8 DEF Receive, AcceptedSize
  <2> QED
    BY <1>8, <2>1 DEF Receive
<1>9. CASE Returned
  BY <1>9 DEF Returned, AfterReceive, AfterReceiveUnchecked
<1>10. CASE Tick
  BY <1>10 DEF Tick
<1>11. CASE Send
  BY <1>11 DEF Send
<1>12. CASE Close
  BY <1>12 DEF Close
<1>13. CASE Arrive
  <2>1. sock' # <<>>
    BY <1>13 DEF Arrive, TypeOK
  <2> QED
    BY <1>13, <2>1 DEF Arrive, loop
<1>14. CASE Signal
  BY <1>14 DEF Signal
<1>15. CASE UNCHANGED vars
  BY <1>15 DEF vars
<1> QED
  BY <1>1, <1>2, <1>3, <1>4, <1>5, <1>6, <1>7, <1>8, <1>9, <1>10, <1>11, <1>12, <1>13, <1>14, <1>15
     DEF Next, Thread

\* The signal.  A send starts in Returned only, which looks at the flag after
\* the read that may have come too late.
LEMMA LatesHold == IInv /\ [Next]_vars => LateAlongPath'
<1> SUFFICES ASSUME LateAlongPath, [Next]_vars PROVE LateAlongPath'
  BY DEF IInv
<1> USE DEF LateAlongPath, NothingPlayedAfterSignal
<1>1. CASE Receive
  BY <1>1 DEF Receive
<1>2. CASE Returned
  BY <1>2 DEF Returned, AfterReceive, AfterReceiveUnchecked
<1>3. CASE Signal
  BY <1>3 DEF Signal
<1>4. CASE UNCHANGED <<shutdown_pending, late>> /\ (pc' # "send" \/ pc' = pc)
  BY <1>4
<1>5. MainTest \/ ReceiveTest \/ Decode \/ Readable \/ Timeout \/ SelectFails \/ RecvFails
        \/ Tick \/ Send \/ Close \/ Arrive \/ UNCHANGED vars
      => UNCHANGED <<shutdown_pending, late>> /\ (pc' # "send" \/ pc' = pc)
  BY DEF MainTest, ReceiveTest, Decode, Readable, Timeout, AfterTimeout, SelectFails, RecvFails,
         Tick, Send, Close, Arrive, loop, vars
<1> QED
  BY <1>1, <1>2, <1>3, <1>4, <1>5 DEF Next, Thread

\* The inductive invariant.
THEOREM InvariantHolds == Spec => []IInv
<1>1. IInv /\ [Next]_vars => IInv'
  BY TypesHold, SizesHold, LatesHold DEF IInv
<1> QED
  BY InitHolds, <1>1, PTL DEF Spec

\* Every variable of the receive loop keeps its type; audio_size is never
\* negative.
THEOREM TypeCorrect == Spec => []TypeOK
<1>1. IInv => TypeOK
  BY DEF IInv
<1> QED
  BY <1>1, InvariantHolds, PTL

\* Whatever other senders send, and however often the loop has refused them,
\* what is handed to the backend is audio of the allowed sender.
THEOREM OnlyAllowedHolds == Spec => []OnlyAllowedPlayed
<1>1. IInv => OnlyAllowedPlayed
  <2> SUFFICES ASSUME IInv, pc = "send"
               PROVE  from = "allowed" /\ n > Hdr /\ audio_size = n - Hdr
    BY DEF OnlyAllowedPlayed
  <2>1. n > Hdr /\ audio_size = n - Hdr
    BY DEF IInv, SizeAlongPath
  <2>2. n >= Hdr
    BY <2>1, ReceiverAssumption DEF IInv, TypeOK
  <2> QED
    BY <2>1, <2>2 DEF IInv, SizeAlongPath
<1> QED
  BY <1>1, InvariantHolds, PTL

\* No packet read after the signal is played, wherever the signal falls.
THEOREM NothingPlayedLate == Spec => []NothingPlayedAfterSignal
<1>1. IInv => NothingPlayedAfterSignal
  BY DEF IInv, LateAlongPath
<1> QED
  BY <1>1, InvariantHolds, PTL
=============================================================================
