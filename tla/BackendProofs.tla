--------------------------- MODULE BackendProofs ---------------------------
(***************************************************************************)
(* For every set of formats and every value of the timers: there is one    *)
(* Sync, of the right format, always a way back to sound, and the backend  *)
(* implements Session.                                                     *)
(***************************************************************************)
EXTENDS Backend, TLAPS

USE FormatAssumption, TimeAssumption

(* The packet in hand: join waits for an open of the old format with no    *)
(* Sync left, and past the format checks the queue is built for a format.  *)
PacketAlongPath ==
  /\ pc = "format" => pkt \in Formats \cup {Spurious}
  /\ pc = "join" => pkt \in Formats /\ pkt # fmt
  /\ pc \in {"gate", "watch", "ingress"} => fmt \in Formats

(* The send thread is let into the ring by the installed Sync, unless it   *)
(* is paused; a format change rebuilds the queue with no Sync installed.   *)
GateFollowsPause ==
  /\ active <=> sync # None /\ ~paused
  /\ sync = None => ~paused
  /\ reconfigure_pending \/ pc = "join" => sync = None

(* A pending format change is never left to an open already in flight, for *)
(* which try_reconnect_same_format() would leave the flag set.             *)
ChangeOwnsTheOpen == reconfigure_pending /\ pc # "join" => open_state = "Idle"

OpeningFormat == open_state = "InProgress" => opening \in Formats

(* AlwaysAWayBack and NeverDeaf, wherever the receiver is in a packet. *)
WayBackAlongPath ==
  pc \in {"recv", "format", "gate", "watch", "ingress"} /\ fmt # None =>
    /\ \/ sync # None \/ open_state # "Idle"
       \/ reconnect_pending \/ reconfigure_pending
    /\ scalars

IInv ==
  /\ TypeOK /\ PacketAlongPath /\ OneSync /\ RightFormat /\ GateFollowsPause
  /\ ChangeOwnsTheOpen /\ OpeningFormat /\ WayBackAlongPath

(* The steps of the receiver, and those of the others. *)
LEMMA NextCases ==
  ASSUME [Next]_vars
  PROVE  \/ \E p \in Formats \cup {Spurious} : Receive(p)
         \/ IgnoreSpurious \/ SameFormat \/ FormatChange \/ Rearm
         \/ NoChangePending \/ HoldOpen \/ DeferOpen \/ OpenForFormat
         \/ WaitForSync \/ Reconnect \/ KeepSync \/ ExtendGrace \/ GiveUpOpen
         \/ SinkLost \/ Ingress \/ Pause \/ Release
         \/ BeginShutdown \/ CloseAtShutdown \/ Exit
         \/ WorkerConnects \/ WorkerFails \/ CleanupEnds \/ Cycle
         \/ (\E up \in BOOLEAN : Connection(up)) \/ Elapse \/ UNCHANGED vars
BY DEF Next, Packet, send, tick, worker, Terminated

-----------------------------------------------------------------------------
(* Types. *)

LEMMA FlagStep ==
  ASSUME Flags, [Next]_vars
  PROVE  Flags'
<1> USE DEF Flags, stream, current, external, intent, opener, timers, receiver
<1>1. ASSUME NEW p \in Formats \cup {Spurious}, Receive(p) PROVE Flags'
  <2>1. CASE Install
    BY <2>1, Zenon DEF Install
  <2>2. CASE OpenFailed
    BY <2>2, Zenon DEF OpenFailed
  <2>3. CASE UNCHANGED <<stream, current, intent>>
    BY <2>3, Zenon
  <2> QED
    BY <1>1, <2>1, <2>2, <2>3 DEF Receive, poll_async_sync_open
<1>2. CASE IgnoreSpurious \/ NoChangePending \/ HoldOpen \/ DeferOpen \/ WaitForSync
  <2>1. UNCHANGED <<stream, current, intent>>
    BY <1>2 DEF IgnoreSpurious, NoChangePending, HoldOpen, DeferOpen, WaitForSync
  <2> QED
    BY <2>1, Zenon
<1>3. CASE SameFormat
  BY <1>3, Zenon DEF SameFormat, Resume
<1>4. CASE FormatChange \/ Rearm
  BY <1>4, Zenon DEF FormatChange, Detach, Rearm
<1>5. CASE OpenForFormat
  BY <1>5, Zenon DEF OpenForFormat, TryReconnect, Detach
<1>6. CASE Reconnect
  BY <1>6, Zenon DEF Reconnect, TryReconnect, Detach
<1>7. CASE KeepSync \/ ExtendGrace
  BY <1>7, Zenon DEF KeepSync, ExtendGrace, EverConnected, StreamStarted
<1>8. CASE GiveUpOpen \/ Release
  BY <1>8, Zenon DEF GiveUpOpen, Release, DetachKeepingScalars, Detach
<1>9. CASE SinkLost
  BY <1>9, Zenon DEF SinkLost, DetachKeepingScalars, Detach
<1>10. CASE Ingress \/ Pause
  BY <1>10, Zenon DEF Ingress, Pause
<1>11. CASE BeginShutdown \/ CloseAtShutdown \/ Exit
  BY <1>11, Zenon DEF BeginShutdown, CloseAtShutdown, Exit, Detach
<1>12. CASE WorkerConnects \/ WorkerFails \/ CleanupEnds \/ Elapse \/ Cycle
  <2>1. UNCHANGED <<scalars, active, paused, link, ever_connected, stream_started, intent>>
        /\ cycled' \in {cycled, TRUE}
    BY <1>12 DEF WorkerConnects, WorkerFails, CleanupEnds, Elapse, Cycle
  <2> QED
    BY <2>1, Zenon
<1>13. ASSUME NEW up \in BOOLEAN, Connection(up) PROVE Flags'
  BY <1>13, Zenon DEF Connection
<1>14. CASE UNCHANGED vars
  BY <1>14, Zenon DEF vars
<1> HIDE DEF Flags, stream, current, external, intent, opener, timers, receiver
<1>15. ASSUME \E p \in Formats \cup {Spurious} : Receive(p) PROVE Flags'
  BY <1>1, <1>15, Zenon
<1>16. ASSUME \E up \in BOOLEAN : Connection(up) PROVE Flags'
  BY <1>13, <1>16, Zenon
<1> QED
  BY NextCases, <1>15, <1>16, <1>1, <1>2, <1>3, <1>4, <1>5, <1>6, <1>7, <1>8, <1>9, <1>10, <1>11,
     <1>12, <1>13, <1>14

Ranges ==
  /\ pc \in {"recv", "format", "join", "gate", "watch", "ingress",
            "stopping", "waiting", "exited"}
  /\ pkt \in Formats \cup {Spurious, None} /\ fmt \in Formats \cup {None}
  /\ fill \in 0..GateFill
  /\ sync \in Formats \cup {None}
  /\ open_state \in {"Idle", "InProgress", "DoneOk", "DoneFail"}
  /\ opening \in Formats \cup {None} /\ pending_sync \in Formats \cup {None}
  /\ cleanups \in 0..MaxCleanups
  /\ backoff \in BackoffFirst..BackoffMax
  /\ ready \in Int /\ ready >= -CleanupBudget
  /\ gate \in Nat /\ next \in Nat /\ grace \in Nat
  /\ waited \in 0..GraceTotal /\ idle \in 0..MaxIdle

LEMMA Counted == \A x : One(x) \in Nat
BY DEF One

LEMMA MaxIdleNat == MaxIdle \in Nat
BY DEF MaxIdle, Greatest

LEMMA ReconnectRanges ==
  ASSUME Ranges, fmt \in Formats, TryReconnect
  PROVE  /\ sync' \in Formats \cup {None}
         /\ open_state' \in {"Idle", "InProgress", "DoneOk", "DoneFail"}
         /\ opening' \in Formats \cup {None} /\ pending_sync' \in Formats \cup {None}
         /\ cleanups' \in 0..MaxCleanups
<1>1. CASE UNCHANGED <<current, opener, cleanups>>
  BY <1>1 DEF Ranges, current, opener
<1>2. CASE Discard(Superseded) /\ Detach /\ StartOpen
  BY <1>2, Counted DEF Ranges, Discard, Detach, StartOpen, Superseded
<1> QED
  BY <1>1, <1>2 DEF TryReconnect

LEMMA RangeStep ==
  ASSUME Ranges, PacketAlongPath, [Next]_vars
  PROVE  Ranges'
<1> USE DEF Ranges, PacketAlongPath, Goto, stream, current, external, intent, opener,
            timers, receiver
<1>1. ASSUME NEW p \in Formats \cup {Spurious}, Receive(p) PROVE Ranges'
  <2>1. 0 \in 0..MaxIdle
    BY MaxIdleNat
  <2>2. pc' = "format" /\ pkt' = p /\ idle' = 0 /\ cleanups' = cleanups
    BY <1>1 DEF Receive
  <2>3. CASE Install /\ open_state' = "Idle" /\ pending_sync' = None /\ opening' = opening
    BY <2>1, <2>2, <2>3 DEF Install
  <2>4. CASE OpenFailed /\ open_state' = "Idle" /\ pending_sync' = None /\ opening' = opening
    BY <2>1, <2>2, <2>4 DEF OpenFailed, Doubled, Least
  <2>5. CASE UNCHANGED <<stream, current, opener, intent, ready, gate, next, grace, waited>>
    BY <2>1, <2>2, <2>5
  <2> QED
    BY <1>1, <2>3, <2>4, <2>5 DEF Receive, poll_async_sync_open
<1>2. CASE IgnoreSpurious \/ NoChangePending \/ HoldOpen \/ DeferOpen \/ WaitForSync
  BY <1>2 DEF IgnoreSpurious, NoChangePending, HoldOpen, DeferOpen, WaitForSync
<1>3. CASE SameFormat
  BY <1>3 DEF SameFormat
<1>4. CASE FormatChange
  BY <1>4, Counted DEF FormatChange, Detach, Discard
<1>5. CASE Rearm
  BY <1>5, Counted DEF Rearm, Join, Discard
<1>6. CASE OpenForFormat
  BY <1>6, ReconnectRanges DEF OpenForFormat
<1>7. CASE Reconnect
  BY <1>7, ReconnectRanges DEF Reconnect
<1>8. CASE KeepSync \/ ExtendGrace
  BY <1>8 DEF KeepSync, ExtendGrace
<1>9. CASE GiveUpOpen \/ Release
  BY <1>9, Counted DEF GiveUpOpen, Release, DetachKeepingScalars, Detach, Discard
<1>10. CASE SinkLost
  BY <1>10, Counted DEF SinkLost, DetachKeepingScalars, Detach, Discard, StartOpen
<1>11. CASE Ingress
  BY <1>11 DEF Ingress, Least
<1>12. CASE Pause
  BY <1>12 DEF Pause
<1>13. CASE BeginShutdown \/ CloseAtShutdown \/ Exit
  BY <1>13 DEF BeginShutdown, CloseAtShutdown, Exit, Detach
<1>14. CASE WorkerConnects \/ WorkerFails \/ CleanupEnds
  BY <1>14 DEF WorkerConnects, WorkerFails, CleanupEnds
<1>15. CASE Cycle
  BY <1>15 DEF Cycle
<1>16. ASSUME \E up \in BOOLEAN : Connection(up) PROVE Ranges'
  BY <1>16 DEF Connection
<1>17. CASE Elapse
  <2>1. UNCHANGED <<receiver, stream, current, opener, cleanups, intent>>
    BY <1>17 DEF Elapse
  <2>2. /\ ready' \in Int /\ ready' >= -CleanupBudget
        /\ gate' \in Nat /\ next' \in Nat /\ grace' \in Nat
        /\ waited' \in 0..GraceTotal
    BY <1>17 DEF Elapse, Down, Greatest, Least
  <2>3. idle' \in 0..MaxIdle
    BY <1>17, MaxIdleNat DEF Elapse, Least
  <2> QED
    BY <2>1, <2>2, <2>3
<1>18. CASE UNCHANGED vars
  BY <1>18 DEF vars
<1> HIDE DEF Ranges, PacketAlongPath, Goto, stream, current, external, intent, opener,
             timers, receiver
<1>19. ASSUME \E p \in Formats \cup {Spurious} : Receive(p) PROVE Ranges'
  BY <1>1, <1>19
<1> QED
  BY NextCases, <1>2, <1>3, <1>4, <1>5, <1>6, <1>7, <1>8, <1>9, <1>10, <1>11, <1>12,
     <1>13, <1>14, <1>15, <1>16, <1>17, <1>18, <1>19

-----------------------------------------------------------------------------
(* Control: who owns the Sync. *)

Control ==
  /\ PacketAlongPath /\ OneSync /\ RightFormat /\ GateFollowsPause
  /\ ChangeOwnsTheOpen /\ OpeningFormat /\ WayBackAlongPath

LEMMA ControlStep ==
  ASSUME Ranges, Flags, Control, [Next]_vars
  PROVE  Control'
<1> USE DEF Control, PacketAlongPath, OneSync, RightFormat, GateFollowsPause,
            ChangeOwnsTheOpen, OpeningFormat, WayBackAlongPath, Ranges, Flags,
            Goto, stream, current, external, intent, opener, timers, receiver
<1>1. ASSUME NEW p \in Formats \cup {Spurious}, Receive(p) PROVE Control'
  <2>1. pc = "recv" /\ pc' = "format" /\ pkt' = p
    BY <1>1 DEF Receive
  <2>2. CASE open_state = "DoneOk" /\ Install /\ open_state' = "Idle" /\ pending_sync' = None /\ opening' = opening
    BY <2>1, <2>2 DEF Install
  <2>3. CASE open_state = "DoneFail" /\ OpenFailed /\ open_state' = "Idle" /\ pending_sync' = None /\ opening' = opening
    BY <2>1, <2>3 DEF OpenFailed
  <2>4. CASE UNCHANGED <<stream, current, opener, intent>>
    BY <2>1, <2>4
  <2> QED
    BY <1>1, <2>2, <2>3, <2>4 DEF Receive, poll_async_sync_open
<1>2. CASE IgnoreSpurious \/ NoChangePending \/ HoldOpen \/ DeferOpen \/ WaitForSync
  BY <1>2 DEF IgnoreSpurious, NoChangePending, HoldOpen, DeferOpen, WaitForSync
<1>3. CASE SameFormat
  BY <1>3 DEF SameFormat, Resume
<1>4. CASE FormatChange
  BY <1>4 DEF FormatChange, Detach
<1>5. CASE Rearm
  BY <1>5 DEF Rearm, Join
<1>6. CASE OpenForFormat
  BY <1>6 DEF OpenForFormat, TryReconnect, Detach, StartOpen
<1>7. CASE Reconnect
  BY <1>7 DEF Reconnect, TryReconnect, Detach, StartOpen
<1>8. CASE KeepSync \/ ExtendGrace
  BY <1>8 DEF KeepSync, ExtendGrace, NeverReached
<1>9. CASE GiveUpOpen
  BY <1>9 DEF GiveUpOpen, NeverReached, DetachKeepingScalars, Detach
<1>10. CASE Release
  BY <1>10 DEF Release, TickGuard, DetachKeepingScalars, Detach
<1>11. CASE SinkLost
  BY <1>11 DEF SinkLost, DetachKeepingScalars, Detach, StartOpen
<1>12. CASE Ingress
  BY <1>12 DEF Ingress
<1>13. CASE Pause
  BY <1>13 DEF Pause, TickGuard
<1>14. CASE BeginShutdown \/ CloseAtShutdown \/ Exit
  BY <1>14 DEF BeginShutdown, CloseAtShutdown, Exit, Detach
<1>15. CASE WorkerConnects \/ WorkerFails \/ CleanupEnds
  BY <1>15 DEF WorkerConnects, WorkerFails, CleanupEnds
<1>16. CASE Cycle \/ Elapse
  BY <1>16 DEF Cycle, Elapse
<1>17. ASSUME \E up \in BOOLEAN : Connection(up) PROVE Control'
  BY <1>17 DEF Connection
<1>18. CASE UNCHANGED vars
  BY <1>18 DEF vars
<1> HIDE DEF Control, PacketAlongPath, OneSync, RightFormat, GateFollowsPause,
            ChangeOwnsTheOpen, OpeningFormat, WayBackAlongPath, Ranges, Flags,
            Goto, stream, current, external, intent, opener, timers, receiver
<1>19. ASSUME \E p \in Formats \cup {Spurious} : Receive(p) PROVE Control'
  BY <1>1, <1>19
<1> QED
  BY NextCases, <1>2, <1>3, <1>4, <1>5, <1>6, <1>7, <1>8, <1>9, <1>10, <1>11, <1>12,
     <1>13, <1>14, <1>15, <1>16, <1>17, <1>18, <1>19

-----------------------------------------------------------------------------
(* The invariant. *)

LEMMA TypeParts == TypeOK <=> Flags /\ Ranges
BY DEF TypeOK, Ranges

LEMMA InitFlags == Init => Flags
BY Zenon DEF Init, Flags

LEMMA InitRanges == Init => Ranges
BY MaxIdleNat DEF Init, Ranges

LEMMA InitControl == Init => Control
BY DEF Init, Control, PacketAlongPath, OneSync, RightFormat, GateFollowsPause,
       ChangeOwnsTheOpen, OpeningFormat, WayBackAlongPath

(* Every reachable state: types, one Sync, its format, the way back. *)
THEOREM Invariant == Spec => []IInv
<1>1. Init => Flags /\ Ranges /\ Control
  BY InitFlags, InitRanges, InitControl, Zenon
<1>2. Flags /\ Ranges /\ Control /\ [Next]_vars => (Flags /\ Ranges /\ Control)'
  <2> SUFFICES ASSUME Flags, Ranges, Control, [Next]_vars
               PROVE  Flags' /\ Ranges' /\ Control'
    OBVIOUS
  <2>1. Flags'
    BY FlagStep
  <2>2. Ranges'
    BY RangeStep DEF Control
  <2>3. Control'
    BY ControlStep
  <2> QED
    BY <2>1, <2>2, <2>3
<1>3. Flags /\ Ranges /\ Control => IInv
  BY TypeParts, Zenon DEF IInv, Control
<1> QED
  BY <1>1, <1>2, <1>3, PTL DEF Spec

(* Every variable keeps its type: the backoff stays within its limits, the *)
(* grace of an open within its total (diretta_output_send, tick).          *)
THEOREM TypeCorrect == Spec => []TypeOK
<1>1. IInv => TypeOK
  BY DEF IInv
<1> QED
  BY <1>1, Invariant, PTL

(* finalize_sync_open_on_receiver() and teardown_sync_for_shutdown() never *)
(* overwrite an installed Sync.                                            *)
THEOREM OneSyncHolds == Spec => []OneSync
<1>1. IInv => OneSync
  BY DEF IInv
<1> QED
  BY <1>1, Invariant, PTL

(* An open overtaken by a format change is never installed. *)
THEOREM RightFormatHolds == Spec => []RightFormat
<1>1. IInv => RightFormat
  BY DEF IInv
<1> QED
  BY <1>1, Invariant, PTL

(* diretta_output_send() never returns with no Sync and nothing pending    *)
(* that brings one back.                                                   *)
THEOREM WayBackHolds == Spec => []AlwaysAWayBack
<1>1. IInv => AlwaysAWayBack
  BY DEF IInv, WayBackAlongPath, AlwaysAWayBack
<1> QED
  BY <1>1, Invariant, PTL

(* No teardown on the way leaves the packet without its format scalars. *)
THEOREM NeverDeafHolds == Spec => []NeverDeaf
<1>1. IInv => NeverDeaf
  <2> SUFFICES ASSUME IInv, pc = "ingress" PROVE scalars
    BY DEF NeverDeaf
  <2>1. pc \in {"gate", "watch", "ingress"} /\ pc \in {"recv", "format", "gate", "watch", "ingress"}
    OBVIOUS
  <2>2. fmt # None
    BY <2>1 DEF IInv, PacketAlongPath
  <2> QED
    BY <2>1, <2>2, Zenon DEF IInv, WayBackAlongPath
<1> QED
  BY <1>1, Invariant, PTL

-----------------------------------------------------------------------------
(* No Sync is dropped. *)

Syncs == One(sync) + One(pending_sync) + cleanups

(* The step neither drops a Sync nor is a cleanup thread's last. *)
Accounted ==
  \/ Syncs <= One(sync') + One(pending_sync') + cleanups'
              + (IF pc = "stopping" THEN 1 ELSE 0)
  \/ CleanupEnds

LEMMA ReconnectAccounts ==
  ASSUME Ranges, TryReconnect
  PROVE  Syncs <= One(sync') + One(pending_sync') + cleanups'
<1>1. CASE UNCHANGED <<current, opener, cleanups>>
  BY <1>1, Counted DEF Syncs, Ranges, current, opener
<1>2. CASE Discard(Superseded) /\ Detach /\ StartOpen
  BY <1>2, Counted DEF Syncs, Ranges, Discard, Detach, StartOpen, Superseded
<1> QED
  BY <1>1, <1>2 DEF TryReconnect

LEMMA AccountStep ==
  ASSUME IInv, [Next]_vars
  PROVE  Accounted
<1>0. Ranges /\ OneSync
  BY TypeParts, Zenon DEF IInv
<1>a. cleanups \in Nat /\ One(sync) \in {0, 1} /\ One(pending_sync) \in {0, 1}
  BY <1>0 DEF Ranges, One
<1>b. ASSUME sync' = sync, pending_sync' = pending_sync, cleanups' = cleanups PROVE Accounted
  BY <1>a, <1>b DEF Accounted, Syncs
<1>c. ASSUME Syncs <= One(sync') + One(pending_sync') + cleanups',
             sync' \in Formats \cup {None}, pending_sync' \in Formats \cup {None}, cleanups' \in Nat
      PROVE  Accounted
  BY <1>c, <1>a, Counted DEF Accounted, Syncs
<1>1. ASSUME NEW p \in Formats \cup {Spurious}, Receive(p) PROVE Accounted
  <2>1. CASE open_state = "DoneOk" /\ Install /\ pending_sync' = None
    <3>1. sync = None /\ sync' = pending_sync /\ pending_sync' = None /\ cleanups' = cleanups
      BY <1>0, <1>1, <2>1 DEF OneSync, Install, Receive
    <3> QED
      BY <3>1, <1>a DEF Accounted, Syncs, One
  <2>2. CASE open_state = "DoneFail" /\ OpenFailed /\ pending_sync' = None
    BY <1>0, <1>1, <1>b, <2>2 DEF OpenFailed, OneSync, Receive, current
  <2>3. CASE UNCHANGED <<current, opener>>
    BY <1>1, <1>b, <2>3 DEF Receive, current, opener
  <2> QED
    BY <1>1, <2>1, <2>2, <2>3 DEF Receive, poll_async_sync_open
<1>2. CASE IgnoreSpurious \/ NoChangePending \/ HoldOpen \/ DeferOpen \/ WaitForSync
           \/ SameFormat \/ KeepSync \/ ExtendGrace \/ Ingress \/ Pause
           \/ BeginShutdown \/ Exit \/ WorkerFails \/ Cycle \/ Elapse \/ UNCHANGED vars
  BY <1>2, <1>b DEF IgnoreSpurious, NoChangePending, HoldOpen, DeferOpen, WaitForSync, SameFormat,
     KeepSync, ExtendGrace, Ingress, Pause, BeginShutdown, Exit, WorkerFails, Cycle, Elapse,
     vars, current, opener
<1>3. ASSUME \E up \in BOOLEAN : Connection(up) PROVE Accounted
  BY <1>3, <1>b DEF Connection, opener
<1>4. CASE FormatChange \/ GiveUpOpen \/ Release
  BY <1>4, <1>a DEF FormatChange, GiveUpOpen, Release, DetachKeepingScalars, Detach, Discard,
     Accounted, Syncs, One, opener
<1>5. CASE Rearm
  BY <1>5, <1>a DEF Rearm, Join, Discard, Accounted, Syncs, One, current
<1>6. CASE SinkLost
  <2>0. sync # None /\ open_state = "Idle" /\ pending_sync = None
    BY <1>0, <1>6 DEF SinkLost, OneSync
  <2>1. sync' = None /\ cleanups' = cleanups + 1 /\ pending_sync' = None
    BY <1>6, <2>0 DEF SinkLost, DetachKeepingScalars, Detach, Discard, StartOpen, One, opener
  <2> QED
    BY <2>0, <2>1, <1>a DEF Accounted, Syncs, One
<1>7. CASE OpenForFormat \/ Reconnect
  <2>1. TryReconnect
    BY <1>7 DEF OpenForFormat, Reconnect
  <2>2. Syncs <= One(sync') + One(pending_sync') + cleanups'
    BY <1>0, <2>1, ReconnectAccounts
  <2>3. fmt \in Formats
    BY <1>7 DEF IInv, PacketAlongPath, OpenForFormat, Reconnect
  <2> QED
    BY <1>0, <1>c, <2>1, <2>2, <2>3, ReconnectRanges
<1>8. CASE CloseAtShutdown
  <2>1. sync = None \/ pending_sync = None
    BY <1>0 DEF OneSync
  <2> QED
    BY <1>8, <1>a, <2>1 DEF CloseAtShutdown, Detach, Accounted, Syncs, One
<1>9. CASE WorkerConnects
  <2>1. pending_sync = None
    BY <1>0, <1>9 DEF OneSync, WorkerConnects
  <2> QED
    BY <1>9, <1>a, <2>1 DEF WorkerConnects, Accounted, Syncs, One, current
<1>10. CASE CleanupEnds
  BY <1>10 DEF Accounted
<1>11. ASSUME \E p \in Formats \cup {Spurious} : Receive(p) PROVE Accounted
  BY <1>1, <1>11
<1> QED
  BY NextCases, <1>2, <1>3, <1>4, <1>5, <1>6, <1>7, <1>8, <1>9, <1>10, <1>11

(* A Sync that stops being installed or waiting has been installed, handed *)
(* to a cleanup thread or closed by the shutdown (cleanup_sync_async and   *)
(* its callers).                                                           *)
THEOREM NothingDropped == Spec => NoSyncLost
<1>1. IInv /\ [Next]_vars =>
        [One(sync) + One(pending_sync) + cleanups
           <= One(sync') + One(pending_sync') + cleanups' + (IF pc = "stopping" THEN 1 ELSE 0)
         \/ CleanupEnds]_vars
  BY AccountStep DEF Accounted, Syncs
<1> QED
  BY <1>1, Invariant, PTL DEF Spec, NoSyncLost

-----------------------------------------------------------------------------
(* The backend implements Session. *)

Alive == pc \notin {"waiting", "exited"}

(* After the end no Sync is left, and none is opened. *)
EndedSilent == ~Alive => sync = None

LEMMA EndStep ==
  ASSUME Ranges, Control, EndedSilent, [Next]_vars
  PROVE  EndedSilent'
<1> USE DEF EndedSilent, Alive, Goto, current, receiver
<1>1. ASSUME ~Alive PROVE sync' = sync
  BY <1>1, NextCases DEF Receive, IgnoreSpurious, SameFormat, FormatChange, Rearm,
     NoChangePending, HoldOpen, DeferOpen, OpenForFormat, WaitForSync, Reconnect,
     KeepSync, ExtendGrace, NeverReached, GiveUpOpen, SinkLost, Ingress, Pause,
     Release, TickGuard, BeginShutdown, CloseAtShutdown, Exit, WorkerConnects,
     WorkerFails, CleanupEnds, Cycle, Connection, Elapse, vars
<1>2. ASSUME Alive, ~Alive' PROVE sync' = None
  BY <1>2, NextCases DEF Receive, IgnoreSpurious, SameFormat, FormatChange, Rearm,
     NoChangePending, HoldOpen, DeferOpen, OpenForFormat, WaitForSync, Reconnect,
     KeepSync, ExtendGrace, NeverReached, GiveUpOpen, SinkLost, Ingress, Pause,
     Release, TickGuard, BeginShutdown, CloseAtShutdown, Exit, WorkerConnects,
     WorkerFails, CleanupEnds, Cycle, Connection, Elapse, vars, Detach
<1> QED
  BY <1>1, <1>2

(* The phase, from the flags. *)
LEMMA Phases ==
  ASSUME GateFollowsPause
  PROVE  phase = IF ~Alive THEN "ended"
                 ELSE IF sync = None THEN "silent"
                 ELSE IF paused THEN "paused" ELSE "playing"
<1>1. CASE ~Alive
  BY <1>1 DEF phase, ended, Alive
<1>2. CASE Alive /\ sync = None
  <2>1. ~active /\ ~paused
    BY <1>2, Zenon DEF GateFollowsPause
  <2> QED
    BY <1>2, <2>1 DEF phase, ended, Alive
<1>3. CASE Alive /\ sync # None /\ paused
  <2>1. ~active
    BY <1>3, Zenon DEF GateFollowsPause
  <2> QED
    BY <1>3, <2>1 DEF phase, ended, Alive
<1>4. CASE Alive /\ sync # None /\ ~paused
  <2>1. active
    BY <1>4, Zenon DEF GateFollowsPause
  <2> QED
    BY <1>4, <2>1 DEF phase, ended, Alive
<1> QED
  BY <1>1, <1>2, <1>3, <1>4, Zenon

(* What a step does to the phase follows from what it does to these. *)
LEMMA PhaseStep ==
  ASSUME GateFollowsPause, GateFollowsPause'
  PROVE  /\ (UNCHANGED <<Alive, sync, paused>>) => UNCHANGED phase
         /\ Alive' /\ sync' = None => phase' = "silent"
         /\ Alive' /\ sync' # None /\ paused' => phase' = "paused"
         /\ Alive' /\ sync' # None /\ ~paused' => phase' = "playing"
         /\ ~Alive' => phase' = "ended"
         /\ Alive /\ sync = None => phase = "silent"
         /\ Alive /\ sync # None => phase \in {"playing", "paused"}
         /\ Alive /\ sync # None /\ ~paused => phase = "playing"
         /\ Alive /\ sync # None /\ paused => phase = "paused"
<1>1. phase = IF ~Alive THEN "ended"
                 ELSE IF sync = None THEN "silent"
                 ELSE IF paused THEN "paused" ELSE "playing"
  BY Phases
<1>2. (phase = IF ~Alive THEN "ended"
                 ELSE IF sync = None THEN "silent"
                 ELSE IF paused THEN "paused" ELSE "playing")'
  BY Phases, PTL
<1> QED
  BY <1>1, <1>2

SStep == S!Next \/ UNCHANGED S!session

LEMMA SessionStep ==
  ASSUME IInv, IInv', EndedSilent, EndedSilent', [Next]_vars
  PROVE  SStep
<1>0. Ranges /\ Control /\ Ranges' /\ Control'
  BY TypeParts, PTL DEF IInv, Control
<1>a. GateFollowsPause /\ GateFollowsPause'
  BY <1>0 DEF Control
<1>p. /\ (UNCHANGED <<Alive, sync, paused>>) => UNCHANGED phase
      /\ Alive' /\ sync' = None => phase' = "silent"
      /\ Alive' /\ sync' # None /\ paused' => phase' = "paused"
      /\ Alive' /\ sync' # None /\ ~paused' => phase' = "playing"
      /\ ~Alive' => phase' = "ended"
      /\ Alive /\ sync = None => phase = "silent"
      /\ Alive /\ sync # None => phase \in {"playing", "paused"}
      /\ Alive /\ sync # None /\ ~paused => phase = "playing"
      /\ Alive /\ sync # None /\ paused => phase = "paused"
  BY <1>a, PhaseStep
<1> USE DEF SStep, S!Next, S!session
<1>s. ASSUME Alive' = Alive, sync' = sync, paused' = paused, fmt' = fmt PROVE SStep
  BY <1>s, <1>p
<1>d. ASSUME Alive, Alive', sync' = None, fmt' = fmt, ~paused' PROVE SStep
  <2>1. CASE sync = None
    BY <1>d, <1>p, <2>1
  <2>2. CASE sync # None
    BY <1>d, <1>p, <2>2 DEF S!Drop, S!Running
  <2> QED
    BY <2>1, <2>2
<1>1. ASSUME NEW p \in Formats \cup {Spurious}, Receive(p) PROVE SStep
  <2>1. Alive /\ Alive'
    BY <1>1 DEF Receive, Alive, Goto
  <2>2. CASE open_state = "DoneOk" /\ Install
    <3>1. sync = None /\ pending_sync # None /\ pending_sync = fmt /\ fmt' = fmt /\ sync' = fmt
      BY <1>0, <1>1, <2>2 DEF Control, OneSync, RightFormat, Install, Receive
    <3>2. ~paused'
      BY <1>0, <2>2, <3>1, Zenon DEF Control, GateFollowsPause, Install
    <3> QED
      BY <2>1, <3>1, <3>2, <1>p DEF S!Open
  <2>3. CASE OpenFailed \/ UNCHANGED <<stream, current>>
    <3>1. sync' = sync /\ paused' = paused /\ fmt' = fmt
      BY <2>3 DEF OpenFailed, stream, current
    <3> QED
      BY <1>s, <2>1, <3>1
  <2> QED
    BY <1>1, <2>2, <2>3 DEF Receive, poll_async_sync_open
<1>2. CASE IgnoreSpurious \/ NoChangePending \/ HoldOpen \/ DeferOpen \/ WaitForSync
           \/ KeepSync \/ ExtendGrace \/ Ingress \/ BeginShutdown \/ Exit
           \/ WorkerConnects \/ WorkerFails \/ CleanupEnds \/ Cycle \/ Elapse \/ UNCHANGED vars
  <2>1. UNCHANGED <<sync, paused, fmt, Alive>>
    BY <1>2 DEF IgnoreSpurious, NoChangePending, HoldOpen, DeferOpen, WaitForSync, KeepSync,
       ExtendGrace, NeverReached, Ingress, BeginShutdown, Exit, WorkerConnects, WorkerFails,
       CleanupEnds, Cycle, Elapse, vars, current, stream, receiver, Goto, Alive
  <2> QED
    BY <1>s, <2>1
<1>3. ASSUME \E up \in BOOLEAN : Connection(up) PROVE SStep
  BY <1>3, <1>s DEF Connection, stream, receiver, Alive
<1>4. CASE SameFormat
  <2>1. Alive /\ Alive' /\ sync' = sync /\ fmt' = fmt
    BY <1>4 DEF SameFormat, Goto, Alive
  <2>2. ~paused'
    BY <1>4, Zenon DEF SameFormat, Resume
  <2>3. CASE paused
    <3>1. sync # None
      BY <1>a, <2>3, Zenon DEF GateFollowsPause
    <3> QED
      BY <1>p, <2>1, <2>2, <2>3, <3>1 DEF S!Resume
  <2>4. CASE ~paused
    <3>1. UNCHANGED phase
      BY <1>a, <1>p, <2>1, <2>2, <2>4
    <3> QED
      BY <2>1, <3>1
  <2> QED
    BY <2>3, <2>4
<1>5. CASE FormatChange
  BY <1>5, <1>d DEF FormatChange, Detach, Goto, Alive
<1>6. CASE Rearm
  <2>1. Alive /\ Alive' /\ fmt' = pkt /\ pkt \in Formats /\ pkt # fmt /\ sync' = sync
    BY <1>0, <1>6 DEF Rearm, Goto, Alive, Control, PacketAlongPath, current
  <2>2. sync = None
    BY <1>a, <1>6 DEF Rearm, GateFollowsPause
  <2>3. S!Want(pkt)
    BY <1>p, <2>1, <2>2 DEF S!Want
  <2> QED
    BY <2>1, <2>3
<1>7. CASE OpenForFormat \/ Reconnect
  <2>1. Alive /\ Alive' /\ fmt' = fmt /\ TryReconnect
    BY <1>7 DEF OpenForFormat, Reconnect, Goto, Alive
  <2>2. CASE UNCHANGED current
    BY <1>s, <2>1, <2>2 DEF current
  <2>3. CASE Detach
    BY <1>d, <2>1, <2>3 DEF Detach
  <2> QED
    BY <2>1, <2>2, <2>3 DEF TryReconnect
<1>8. CASE GiveUpOpen \/ SinkLost
  BY <1>8, <1>d DEF GiveUpOpen, NeverReached, SinkLost, DetachKeepingScalars, Detach, Goto, Alive
<1>9. CASE Release
  BY <1>9, <1>d DEF Release, TickGuard, DetachKeepingScalars, Detach, receiver, Alive
<1>10. CASE Pause
  <2>1. Alive /\ Alive' /\ sync # None /\ sync' = sync /\ fmt' = fmt /\ ~paused /\ paused'
    BY <1>10 DEF Pause, TickGuard, receiver, Alive, stream
  <2> QED
    BY <2>1, <1>p DEF S!Pause
<1>11. CASE CloseAtShutdown
  <2>1. Alive /\ ~Alive' /\ sync' = None /\ fmt' = fmt
    BY <1>11 DEF CloseAtShutdown, Detach, Goto, Alive
  <2> QED
    BY <2>1, <1>p DEF S!End
<1>12. ASSUME \E p \in Formats \cup {Spurious} : Receive(p) PROVE SStep
  BY <1>1, <1>12
<1> QED
  BY NextCases, <1>2, <1>3, <1>4, <1>5, <1>6, <1>7, <1>8, <1>9, <1>10, <1>11, <1>12

(* Whatever the worker, the timers, the cleanup threads and the connection *)
(* do, the backend's Sync is the one session of Session.                   *)
THEOREM BackendImplementsSession == Spec => ImplementsSession
<1>1. Init => S!Init /\ EndedSilent
  <2> SUFFICES ASSUME Init PROVE S!Init /\ EndedSilent
    OBVIOUS
  <2>1. sync = None /\ fmt = None /\ Alive
    BY DEF Init, Alive
  <2>2. ~active /\ ~paused
    BY Zenon DEF Init
  <2>3. phase = "silent"
    BY <2>1, <2>2 DEF phase, ended, Alive
  <2> QED
    BY <2>1, <2>3 DEF S!Init, EndedSilent
<1>2. IInv /\ EndedSilent /\ [Next]_vars => EndedSilent'
  BY EndStep, TypeParts DEF IInv, Control
<1>3. IInv /\ IInv' /\ EndedSilent /\ EndedSilent' /\ [Next]_vars => [S!Next]_(S!session)
  BY SessionStep DEF SStep
<1> QED
  BY <1>1, <1>2, <1>3, Invariant, PTL DEF Spec, ImplementsSession, S!Spec
=============================================================================
