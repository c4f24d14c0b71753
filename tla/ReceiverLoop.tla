---------------------------- MODULE ReceiverLoop ----------------------------
(***************************************************************************)
(* The receiver thread around the backend: main() of scream.c calls        *)
(* rcv_network() and hands what it returns to diretta_output_send(), or    *)
(* calls diretta_output_tick() when it returned nothing.  on_term_signal() *)
(* can run between any two steps.                                          *)
(*                                                                         *)
(* A datagram is its sender and its size; only the sizes around the header *)
(* length are told apart.                                                  *)
(***************************************************************************)
EXTENDS Integers, Sequences

CONSTANTS Hdr,         \* HEADER_SIZE or LEGACY_HEADER_SIZE, scaled down
          MaxSock,     \* bound: datagrams the socket buffer holds
          MaxErrors    \* bound: unexpected select() and recvmsg() errors

ASSUME ReceiverAssumption ==
  Hdr \in Nat \ {0} /\ MaxSock \in Nat \ {0} /\ MaxErrors \in Nat

VARIABLES pc,               \* the next call or test of the thread
          sock,             \* datagrams in the socket buffer
          n,                \* rcv_network()'s n
          from,             \* sender of the datagram in rctx_network.buf
          audio_size,       \* receiver_data.audio_size
          shutdown_pending, \* g_shutdown_pending
          rc,               \* main()'s rc
          late,             \* the datagram in buf was read after the signal
          errors            \* unexpected errors so far

loop == <<pc, n, from, audio_size, rc, late>>
vars == <<pc, sock, n, from, audio_size, shutdown_pending, rc, late, errors>>

Steps == {"main", "test", "select", "recvmsg", "returned", "send", "tick", "closing", "exited"}
Datagram == [from : {"allowed", "other"}, size : {Hdr - 1, Hdr, Hdr + 1}]

Init == /\ pc = "main" /\ sock = <<>> /\ n = 0 /\ from = "allowed" /\ audio_size = 0
        /\ shutdown_pending = FALSE /\ rc = 0 /\ late = FALSE /\ errors = 0

\* The network: the kernel discards what finds the buffer full.
Arrive == \E d \in Datagram : /\ Len(sock) < MaxSock
                              /\ sock' = Append(sock, d)
                              /\ UNCHANGED <<loop, shutdown_pending, errors>>

\* A thread blocked in select() or recvmsg() gets EINTR and returns; one that
\* was about to call it does not notice.
Signal == /\ ~shutdown_pending
          /\ shutdown_pending' = TRUE
          /\ pc' \in {pc} \cup (IF pc \in {"select", "recvmsg"} THEN {"returned"} ELSE {})
          /\ UNCHANGED <<sock, n, from, audio_size, rc, late, errors>>

\* while (!g_shutdown_pending), and the start of rcv_network().
MainTest == /\ pc = "main"
            /\ IF shutdown_pending THEN pc' = "closing" /\ UNCHANGED <<n, audio_size>>
                                   ELSE pc' = "test" /\ n' = 0 /\ audio_size' = 0
            /\ UNCHANGED <<sock, from, shutdown_pending, rc, late, errors>>

\* mutant: the receive loop only looks at the datagram size.
ReceiveTestUnchecked ==
  /\ pc = "test" /\ n < Hdr
  /\ pc' = "select"
  /\ UNCHANGED <<sock, n, from, audio_size, shutdown_pending, rc, late, errors>>

\* while (n < hdr_size) { if (g_shutdown_pending) return;
ReceiveTest ==
  /\ pc = "test" /\ n < Hdr
  /\ pc' = IF shutdown_pending THEN "returned" ELSE "select"
  /\ UNCHANGED <<sock, n, from, audio_size, shutdown_pending, rc, late, errors>>

\* mutant: the header is counted as audio.
PayloadWithHeader == n
Payload == IF n > Hdr THEN n - Hdr ELSE 0
\* A whole header: the tail of rcv_network() decodes it.
Decode == /\ pc = "test" /\ n >= Hdr
          /\ audio_size' = Payload
          /\ pc' = "returned"
          /\ UNCHANGED <<sock, n, from, shutdown_pending, rc, late, errors>>

Readable == /\ pc = "select" /\ sock # <<>>
            /\ pc' = "recvmsg"
            /\ UNCHANGED <<sock, n, from, audio_size, shutdown_pending, rc, late, errors>>

\* mutant: a timeout only retries.
AfterTimeoutRetry == "test"
\* 500 ms without a datagram.
AfterTimeout == "returned"
Timeout == /\ pc = "select" /\ sock = <<>>
           /\ pc' = AfterTimeout
           /\ UNCHANGED <<sock, n, from, audio_size, shutdown_pending, rc, late, errors>>

\* Any other error is retried; recvmsg() leaves n = -1 then.
SelectFails == /\ pc = "select" /\ errors < MaxErrors
               /\ errors' = errors + 1 /\ pc' = "test"
               /\ UNCHANGED <<sock, n, from, audio_size, shutdown_pending, rc, late>>
RecvFails == /\ pc = "recvmsg" /\ errors < MaxErrors
             /\ errors' = errors + 1 /\ pc' = "test" /\ n' = -1
             /\ UNCHANGED <<sock, from, audio_size, shutdown_pending, rc, late>>

\* mutant: the n of a refused datagram is kept.
AcceptedSizeKept(d) == d.size
\* n after recvmsg(): a datagram of another sender is as if nothing came.
AcceptedSize(d) == IF d.from = "allowed" THEN d.size ELSE 0
Receive == /\ pc = "recvmsg"
           /\ n' = AcceptedSize(Head(sock)) /\ from' = Head(sock).from
           /\ sock' = Tail(sock) /\ late' = shutdown_pending
           /\ pc' = "test"
           /\ UNCHANGED <<audio_size, shutdown_pending, rc, errors>>

\* mutant: the flag is looked at by the loop condition only.
AfterReceiveUnchecked == IF audio_size = 0 THEN "tick" ELSE "send"
\* main() after receiver_rcv_fn().
AfterReceive == IF shutdown_pending THEN "closing" ELSE AfterReceiveUnchecked
Returned == /\ pc = "returned"
            /\ pc' = AfterReceive
            /\ UNCHANGED <<sock, n, from, audio_size, shutdown_pending, rc, late, errors>>

Tick == /\ pc = "tick"
        /\ pc' = "main"
        /\ UNCHANGED <<sock, n, from, audio_size, shutdown_pending, rc, late, errors>>

\* diretta_output_send() returns 1 only for what it cannot go on after.
Send == /\ pc = "send"
        /\ \/ pc' = "main" /\ rc' = rc
           \/ pc' = "closing" /\ rc' = 1
        /\ UNCHANGED <<sock, n, from, audio_size, shutdown_pending, late, errors>>

\* diretta_output_shutdown() and the return of main().
Close == /\ pc = "closing"
         /\ pc' = "exited"
         /\ UNCHANGED <<sock, n, from, audio_size, shutdown_pending, rc, late, errors>>

Thread == \/ MainTest \/ ReceiveTest \/ Decode \/ Readable \/ Timeout
          \/ SelectFails \/ RecvFails \/ Receive \/ Returned \/ Tick \/ Send \/ Close
Next == Thread \/ Arrive \/ Signal

\* The thread is scheduled and select() times out on an empty socket.
Spec == Init /\ [][Next]_vars
FairSpec == Spec /\ WF_vars(Thread)
-----------------------------------------------------------------------------
FlagTypes == shutdown_pending \in BOOLEAN /\ late \in BOOLEAN
\* Type invariant: audio_size is what follows the header, and never negative
\* (network.c:298, network.c:323).
TypeOK == /\ pc \in Steps
          /\ sock \in Seq(Datagram) /\ Len(sock) <= MaxSock
          /\ n \in {-1, 0, Hdr - 1, Hdr, Hdr + 1}
          /\ from \in {"allowed", "other"}
          /\ audio_size \in 0..1
          /\ FlagTypes
          /\ rc \in 0..1 /\ errors \in 0..MaxErrors

\* Nothing but audio of the allowed sender reaches the backend, whatever was
\* refused in the same call of rcv_network() before (network.c:251-257).
OnlyAllowedPlayed == pc = "send" => from = "allowed" /\ n > Hdr /\ audio_size = n - Hdr

\* A packet that was read after the signal is not played: the thread does not
\* start a send, which can block on an open, on its way out (scream.c:1180).
NothingPlayedAfterSignal == pc = "send" => ~late

\* What makes the two so.  In the loop of rcv_network() no size has been given
\* out yet, and a size that is given out is that of an accepted datagram.
SizeAlongPath ==
  /\ n >= Hdr => from = "allowed"
  /\ pc \in {"test", "select", "recvmsg"} => audio_size = 0
  /\ pc \in {"returned", "send"} /\ audio_size > 0 => n > Hdr /\ audio_size = n - Hdr
  /\ pc = "send" => audio_size > 0
  /\ pc = "recvmsg" => sock # <<>>
LateAlongPath == (late => shutdown_pending) /\ NothingPlayedAfterSignal
IInv == TypeOK /\ SizeAlongPath /\ LateAlongPath

\* A signal ends the program, at whatever step it comes and whoever keeps
\* sending: a missed EINTR costs at most one timeout (network.c:193-199).
ShutdownObserved == shutdown_pending ~> pc = "exited"

\* Full silence keeps the heartbeat running (scream.c:1181-1190).  Datagrams
\* that are refused are not silence: each restarts the wait of select().
TickWhenSilent == <>[](sock = <<>>) => []<>(pc \in {"tick", "exited"})
=============================================================================
