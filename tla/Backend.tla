------------------------------ MODULE Backend ------------------------------
(***************************************************************************)
(* The life of the Sync in diretta.cpp: who opens it, keeps it, pauses it, *)
(* tears it down and opens it again.                                       *)
(*                                                                         *)
(* Receiver thread: one call of diretta_output_send() per packet, cut in   *)
(* the steps between which another thread can be noticed; or, when no      *)
(* packet comes, diretta_output_tick().  Open worker: one at a time, it    *)
(* connects a new Sync and leaves it in async_open_pending_sync.  Cleanup  *)
(* threads: detached, each closes and deletes one Sync.  The SDK: the      *)
(* connection comes and goes, cycles are pulled.                           *)
(*                                                                         *)
(* Times are in one abstract unit.  A deadline is held as the time left    *)
(* until it; time passes between packets and while a thread blocks.        *)
(***************************************************************************)
EXTENDS Integers

CONSTANTS Formats,        \* stream formats validate_format() accepts
          Spurious,       \* any packet it refuses
          None,           \* no Sync, no format, no packet
          GateFill,       \* open_gate_threshold_bytes, in packets
          Cooldown,       \* effective_cooldown_ms()
          GateWait,       \* OPEN_GATE_MAX_WAIT_MS
          CleanupBudget,  \* RUNTIME_CLEANUP_BUDGET_MS
          CleanupRetry,   \* the 100 ms a deferred open waits
          BackoffFirst, BackoffAgain, BackoffMax,   \* 500, 750, 1000 ms
          Grace, GraceExtend, GraceTotal,           \* SINK_OPEN_GRACE_*
          PauseAfter, ReleaseAfter,                 \* upstream_*_timeout_sec
          MaxCleanups     \* bound: cleanup threads alive

ASSUME FormatAssumption == Spurious \notin Formats /\ None \notin Formats /\ None # Spurious
ASSUME TimeAssumption ==
  /\ GateFill \in Nat /\ Cooldown \in Nat /\ GateWait \in Nat
  /\ CleanupRetry \in Nat \ {0} /\ CleanupBudget \in Nat /\ CleanupRetry < CleanupBudget
  /\ BackoffFirst \in Nat \ {0} /\ BackoffAgain \in Nat /\ BackoffMax \in Nat
  /\ BackoffFirst <= BackoffAgain /\ BackoffAgain <= BackoffMax
  /\ Grace \in Nat /\ GraceExtend \in Nat /\ GraceTotal \in Nat
  /\ PauseAfter \in Nat /\ ReleaseAfter \in Nat /\ MaxCleanups \in Nat

VARIABLES pc, pkt,            \* receiver: where it is, the packet in hand
          fmt,                \* last_fc: the format the queue is built for
          fill,               \* packets in the queue, counted up to GateFill
          scalars,            \* bytes_per_frame and src_bytes_per_frame are set
          sync,               \* g_st.sync: the format it was opened for
          active, paused,     \* its m_active; g_st.paused
          link,               \* its is_connect()
          cycled,             \* its stream count has grown since the open
          ever_connected, stream_started,
          open_state,         \* async_open_state
          opening,            \* async_open_fc: the worker's format
          pending_sync,       \* async_open_pending_sync
          cleanups,           \* g_inflight_cleanups
          reconfigure_pending, reconnect_pending, conn_lost_logged,
          backoff,            \* reconnect_backoff_ms
          ready,              \* until reconfigure_ready_at
          gate,               \* until open_gate_deadline_at
          next,               \* until next_reconnect_at
          grace,              \* until sink_open_at + SINK_OPEN_GRACE_MS
          waited,             \* since sink_open_origin
          idle                \* since last_pcm_packet_at

receiver == <<pc, pkt>>
stream   == <<fmt, fill, scalars>>
external == <<link, cycled>>
current  == <<sync, active, paused, external, ever_connected, stream_started>>
opener   == <<open_state, opening, pending_sync>>
intent   == <<reconfigure_pending, reconnect_pending, conn_lost_logged, backoff>>
timers   == <<ready, gate, next, grace, waited, idle>>
vars     == <<receiver, stream, current, opener, cleanups, intent, timers>>

Least(a, b)    == IF a < b THEN a ELSE b
Greatest(a, b) == IF a > b THEN a ELSE b
One(s)         == IF s = None THEN 0 ELSE 1
MaxIdle        == Greatest(PauseAfter, ReleaseAfter)
Goto(l)        == pc' = l

Init ==
  /\ pc = "recv" /\ pkt = None
  /\ fmt = None /\ fill = 0 /\ scalars = FALSE
  /\ sync = None /\ active = FALSE /\ paused = FALSE
  /\ link = FALSE /\ cycled = FALSE
  /\ ever_connected = FALSE /\ stream_started = FALSE
  /\ open_state = "Idle" /\ opening = None /\ pending_sync = None
  /\ cleanups = 0
  /\ reconfigure_pending = FALSE /\ reconnect_pending = FALSE
  /\ conn_lost_logged = FALSE /\ backoff = BackoffFirst
  /\ ready = 0 /\ gate = 0 /\ next = 0 /\ grace = 0 /\ waited = 0 /\ idle = 0

-----------------------------------------------------------------------------
(* Pieces the receiver's steps share. *)

(* cleanup_sync_async(): n Syncs go to cleanup threads. *)
Discard(n) == cleanups + n <= MaxCleanups /\ cleanups' = cleanups + n

(* teardown_sync_for_runtime(), without the Sync's cleanup thread and the  *)
(* format scalars, which its callers put back or not.                      *)
Detach ==
  /\ sync' = None /\ active' = FALSE /\ paused' = FALSE
  /\ link' = FALSE /\ cycled' = FALSE
  /\ ever_connected' = FALSE /\ stream_started' = FALSE

(* As the callers that save the scalars around it and keep the queue. *)
DetachForgettingScalars == Detach /\ scalars' = FALSE        \* mutant
DetachKeepingScalars == Detach /\ UNCHANGED scalars

(* start_async_sync_open() once no open is in progress: an open that       *)
(* completed but was never installed is discarded.                         *)
StartOpenKeepingPending ==               \* mutant
  /\ open_state' = "InProgress" /\ opening' = fmt /\ UNCHANGED pending_sync
StartOpen ==
  /\ open_state' = "InProgress"
  /\ opening' = fmt
  /\ pending_sync' = None

InstalledOnly == One(sync)               \* mutant
Superseded == One(sync) + One(pending_sync)

(* try_reconnect_same_format().  It cannot fail: a format is known, and    *)
(* start_async_sync_open() refuses only an open in progress, tested here.  *)
TryReconnect ==
  \/ /\ open_state = "InProgress"
     /\ UNCHANGED <<current, opener, cleanups, scalars, reconfigure_pending,
                    conn_lost_logged>>
  \/ /\ open_state # "InProgress"
     /\ Discard(Superseded)
     /\ Detach
     /\ scalars' = (scalars /\ sync = None)
     /\ StartOpen
     /\ reconfigure_pending' = FALSE /\ conn_lost_logged' = FALSE

DoubledUncapped == 2 * backoff           \* mutant
Doubled == Least(BackoffMax, 2 * backoff)

-----------------------------------------------------------------------------
(* diretta_output_send(): the packet is stamped, poll_async_sync_open().   *)

(* finalize_sync_open_on_receiver().  A negotiated DSD transform discards  *)
(* what was queued before it was known.                                    *)
Install ==
  /\ sync' = pending_sync /\ active' = TRUE /\ UNCHANGED paused
  /\ link' \in BOOLEAN /\ cycled' = FALSE
  /\ ever_connected' = link' /\ stream_started' = FALSE
  /\ fill' \in {0, fill} /\ UNCHANGED <<fmt, scalars>>
  /\ grace' = Grace /\ waited' = 0
  /\ reconnect_pending' = FALSE /\ conn_lost_logged' = FALSE
  /\ UNCHANGED <<reconfigure_pending, backoff, ready, gate, next>>

OpenFailedForGood ==                     \* mutant
  /\ backoff' = Doubled /\ next' = Doubled
  /\ UNCHANGED <<stream, current, reconfigure_pending, reconnect_pending,
                 conn_lost_logged, ready, gate, grace, waited>>
OpenFailed ==
  /\ backoff' = Doubled /\ next' = Doubled
  /\ reconnect_pending' = TRUE
  /\ UNCHANGED <<stream, current, reconfigure_pending, conn_lost_logged,
                 ready, gate, grace, waited>>

poll_async_sync_open ==
  \/ /\ open_state \in {"Idle", "InProgress"}
     /\ UNCHANGED <<stream, current, opener, intent, ready, gate, next, grace, waited>>
  \/ /\ open_state \in {"DoneOk", "DoneFail"}
     /\ open_state' = "Idle" /\ pending_sync' = None /\ UNCHANGED opening
     /\ \/ open_state = "DoneOk" /\ Install
        \/ open_state = "DoneFail" /\ OpenFailed

Receive(p) ==
  /\ pc = "recv"
  /\ pkt' = p /\ idle' = 0
  /\ poll_async_sync_open
  /\ Goto("format")
  /\ UNCHANGED cleanups

-----------------------------------------------------------------------------
(* The packet's format. *)

IgnoreSpurious ==
  /\ pc = "format" /\ pkt = Spurious
  /\ Goto("recv") /\ pkt' = None
  /\ UNCHANGED <<stream, current, opener, cleanups, intent, timers>>

(* Packets of the same format; the first after a pause resumes the Sync. *)
ResumeUnactivated == paused' = FALSE /\ UNCHANGED active      \* mutant
Resume == paused' = FALSE /\ active' = (active \/ paused)

SameFormat ==
  /\ pc = "format" /\ pkt = fmt
  /\ Goto("gate") /\ UNCHANGED pkt
  /\ fill' = IF paused THEN 0 ELSE fill
  /\ Resume
  /\ UNCHANGED <<fmt, scalars, sync, external, ever_connected, stream_started,
                 opener, cleanups, intent, timers>>

(* reconfigure(): the old Sync goes, an open in flight is waited for and   *)
(* what it produced is discarded, the queue is built anew.                 *)
FormatChange ==
  /\ pc = "format" /\ pkt \in Formats /\ pkt # fmt
  /\ Discard(One(sync)) /\ Detach
  /\ scalars' = FALSE
  /\ Goto("join")
  /\ UNCHANGED <<pkt, fmt, fill, opener, intent, timers>>

JoinKeepingResult == UNCHANGED <<opener, cleanups>>           \* mutant
Join ==
  /\ Discard(One(pending_sync))
  /\ pending_sync' = None /\ open_state' = "Idle" /\ UNCHANGED opening

Rearm ==
  /\ pc = "join" /\ open_state # "InProgress"
  /\ Join
  /\ fmt' = pkt /\ fill' = 0 /\ scalars' = TRUE
  /\ reconfigure_pending' = TRUE
  /\ ready' = IF fmt = None THEN 0 ELSE Cooldown
  /\ gate' = ready' + GateWait
  /\ next' = ready'
  /\ backoff' = BackoffFirst /\ conn_lost_logged' = FALSE
  /\ Goto("gate")
  /\ UNCHANGED <<pkt, current, reconnect_pending, grace, waited, idle>>

-----------------------------------------------------------------------------
(* The format-change gate: cooldown, queue fill, cleanups still running.   *)

NoChangePending ==
  /\ pc = "gate" /\ ~reconfigure_pending
  /\ Goto("watch")
  /\ UNCHANGED <<pkt, stream, current, opener, cleanups, intent, timers>>

GateHolds == ready > 0 \/ (fill < GateFill /\ gate > 0)

HoldOpen ==
  /\ pc = "gate" /\ reconfigure_pending /\ GateHolds
  /\ Goto("ingress")
  /\ UNCHANGED <<pkt, stream, current, opener, cleanups, intent, timers>>

(* The extra wait for cleanups counts from reconfigure_ready_at, which     *)
(* every deferral moves.                                                   *)
Deferred == cleanups > 0 /\ ready > -CleanupBudget

DeferOpen ==
  /\ pc = "gate" /\ reconfigure_pending /\ ~GateHolds /\ Deferred
  /\ ready' = CleanupRetry
  /\ Goto("ingress")
  /\ UNCHANGED <<pkt, stream, current, opener, cleanups, intent,
                 gate, next, grace, waited, idle>>

OpenForFormat ==
  /\ pc = "gate" /\ reconfigure_pending /\ ~GateHolds /\ ~Deferred
  /\ TryReconnect
  /\ Goto("watch")
  /\ UNCHANGED <<pkt, fmt, fill, reconnect_pending, backoff, timers>>

-----------------------------------------------------------------------------
(* No Sync: reopen after a loss or a release, once the backoff is over.    *)

ReconnectDue == reconnect_pending /\ next <= 0

WaitForSync ==
  /\ pc = "watch" /\ sync = None /\ ~ReconnectDue
  /\ Goto("ingress")
  /\ UNCHANGED <<pkt, stream, current, opener, cleanups, intent, timers>>

Reconnect ==
  /\ pc = "watch" /\ sync = None /\ ReconnectDue
  /\ TryReconnect
  /\ backoff' = BackoffAgain /\ reconnect_pending' = FALSE
  /\ Goto("ingress")
  /\ UNCHANGED <<pkt, fmt, fill, timers>>

(* A Sync: what the connection and the stream have reached, and whether    *)
(* the sink is lost.                                                       *)
EverConnected == ever_connected \/ link
StreamStarted == stream_started \/ cycled

KeepSync ==
  /\ pc = "watch" /\ sync # None
  /\ link \/ grace > 0
  /\ ever_connected' = EverConnected /\ stream_started' = StreamStarted
  /\ Goto("ingress")
  /\ UNCHANGED <<pkt, stream, sync, active, paused, external, opener, cleanups,
                 intent, timers>>

NeverReached == pc = "watch" /\ sync # None /\ ~link /\ grace <= 0
                /\ ~EverConnected /\ ~StreamStarted

GraceSpentSinceOpenAt == Grace - grace >= GraceTotal          \* mutant
GraceSpent == waited >= GraceTotal

ExtendGrace ==
  /\ NeverReached /\ ~GraceSpent
  /\ grace' = GraceExtend
  /\ Goto("ingress")
  /\ UNCHANGED <<pkt, stream, current, opener, cleanups, intent,
                 ready, gate, next, waited, idle>>

GiveUpOpen ==
  /\ NeverReached /\ GraceSpent
  /\ Discard(One(sync)) /\ DetachKeepingScalars
  /\ reconnect_pending' = TRUE /\ next' = backoff
  /\ Goto("ingress")
  /\ UNCHANGED <<pkt, fmt, fill, opener, reconfigure_pending, conn_lost_logged, backoff,
                 ready, gate, grace, waited, idle>>

(* The loss is logged once, and only then starts the backoff.  The open on *)
(* the spot would need a loss logged earlier, which every open clears.     *)
SinkLost ==
  LET left == IF conn_lost_logged THEN next ELSE backoff
  IN  /\ pc = "watch" /\ sync # None /\ ~link /\ grace <= 0
      /\ EverConnected \/ StreamStarted
      /\ Discard(One(sync)) /\ DetachKeepingScalars
      /\ next' = left
      /\ reconnect_pending' = TRUE
      /\ IF left <= 0
         THEN StartOpen /\ conn_lost_logged' = FALSE /\ backoff' = BackoffAgain
         ELSE conn_lost_logged' = TRUE /\ UNCHANGED <<opener, backoff>>
      /\ Goto("ingress")
      /\ UNCHANGED <<pkt, fmt, fill, reconfigure_pending, ready, gate, grace, waited, idle>>

(* Whatever the Sync's state, the packet goes into the queue; with the     *)
(* format scalars at zero it would be passed over.                         *)
Ingress ==
  /\ pc = "ingress"
  /\ fill' = IF scalars THEN Least(fill + 1, GateFill) ELSE fill
  /\ Goto("recv") /\ pkt' = None
  /\ UNCHANGED <<fmt, scalars, current, opener, cleanups, intent, timers>>

-----------------------------------------------------------------------------
(* diretta_output_tick(): no packet for a while.                           *)

TickGuardOncePaused ==                   \* mutant: a paused Sync is left alone
  pc = "recv" /\ sync # None /\ ~reconfigure_pending /\ stream_started /\ ~paused
TickGuard == pc = "recv" /\ sync # None /\ ~reconfigure_pending /\ stream_started

Pause ==
  /\ TickGuard
  /\ PauseAfter > 0 /\ ~paused /\ idle >= PauseAfter
  /\ ReleaseAfter = 0 \/ idle < ReleaseAfter
  /\ active' = FALSE /\ paused' = TRUE
  /\ UNCHANGED <<receiver, stream, sync, external, ever_connected, stream_started,
                 opener, cleanups, intent, timers>>

Release ==
  /\ TickGuard
  /\ ReleaseAfter > 0 /\ idle >= ReleaseAfter
  /\ Discard(One(sync)) /\ DetachKeepingScalars
  /\ reconnect_pending' = TRUE
  /\ backoff' = BackoffFirst /\ next' = 0
  /\ UNCHANGED <<receiver, fmt, fill, opener, reconfigure_pending, conn_lost_logged,
                 ready, gate, grace, waited, idle>>

-----------------------------------------------------------------------------
(* diretta_output_shutdown(), when the main loop ends.                     *)

BeginShutdown ==
  /\ pc = "recv"
  /\ Goto("stopping")
  /\ UNCHANGED <<pkt, stream, current, opener, cleanups, intent, timers>>

(* teardown_sync_for_shutdown(): the worker is joined and what it produced *)
(* adopted; the Sync is closed on this thread, without deactivate().       *)
CloseAtShutdown ==
  /\ pc = "stopping" /\ open_state # "InProgress"
  /\ pending_sync' = None /\ open_state' = "Idle" /\ UNCHANGED opening
  /\ Detach /\ scalars' = FALSE
  /\ Goto("waiting")
  /\ UNCHANGED <<pkt, fmt, fill, cleanups, intent, timers>>

(* The cleanup threads are waited for, up to a deadline. *)
Exit ==
  /\ pc = "waiting"
  /\ Goto("exited")
  /\ UNCHANGED <<pkt, stream, current, opener, cleanups, intent, timers>>

-----------------------------------------------------------------------------
(* The other threads, and time. *)

(* open_sync_worker_blocking(). *)
WorkerConnects ==
  /\ open_state = "InProgress"
  /\ open_state' = "DoneOk" /\ pending_sync' = opening
  /\ UNCHANGED <<receiver, stream, current, opening, cleanups, intent, timers>>

WorkerFails ==
  /\ open_state = "InProgress"
  /\ open_state' = "DoneFail"
  /\ UNCHANGED <<receiver, stream, current, opening, pending_sync, cleanups, intent, timers>>

CleanupEnds ==
  /\ cleanups > 0 /\ cleanups' = cleanups - 1
  /\ UNCHANGED <<receiver, stream, current, opener, intent, timers>>

(* A cycle of the installed Sync; the gates of SyncPull decide what it     *)
(* takes.                                                                  *)
Cycle ==
  /\ sync # None /\ ~paused
  /\ cycled' = TRUE
  /\ fill' \in IF active THEN 0..fill ELSE {fill}
  /\ UNCHANGED <<receiver, fmt, scalars, sync, active, paused, link, ever_connected,
                 stream_started, opener, cleanups, intent, timers>>

Connection(up) ==
  /\ sync # None /\ link # up
  /\ link' = up
  /\ UNCHANGED <<receiver, stream, sync, active, paused, cycled, ever_connected,
                 stream_started, opener, cleanups, intent, timers>>

Down(t, least) == Greatest(t - 1, least)

Elapse ==
  /\ pc \in {"recv", "join", "stopping"}
  /\ ready' = Down(ready, -CleanupBudget)
  /\ gate' = Down(gate, 0) /\ next' = Down(next, 0) /\ grace' = Down(grace, 0)
  /\ waited' = Least(waited + 1, GraceTotal)
  /\ idle' = Least(idle + 1, MaxIdle)
  /\ timers' # timers
  /\ UNCHANGED <<receiver, stream, current, opener, cleanups, intent>>

Terminated == pc = "exited" /\ UNCHANGED vars

Packet == \E p \in Formats \cup {Spurious} : Receive(p)
send == \/ IgnoreSpurious \/ SameFormat \/ FormatChange \/ Rearm
        \/ NoChangePending \/ HoldOpen \/ DeferOpen \/ OpenForFormat
        \/ WaitForSync \/ Reconnect \/ KeepSync \/ ExtendGrace \/ GiveUpOpen
        \/ SinkLost \/ Ingress
tick == Pause \/ Release
worker == WorkerConnects \/ WorkerFails

Next ==
  \/ Packet \/ send \/ tick
  \/ BeginShutdown \/ CloseAtShutdown \/ Exit \/ Terminated
  \/ worker \/ CleanupEnds
  \/ Cycle \/ \E up \in BOOLEAN : Connection(up)
  \/ Elapse

Spec == Init /\ [][Next]_vars

(* The receiver gets on with the packet in hand and ticks when none comes; *)
(* the worker's SDK calls time out; cleanups are bounded; time passes,     *)
(* whatever the receiver does (Elapse waits for it to be between packets). *)
(* Nothing makes packets come, opens succeed or the connection stay.       *)
Threads == /\ WF_vars(send) /\ WF_vars(tick) /\ WF_vars(worker)
           /\ WF_vars(CloseAtShutdown \/ Exit)
           /\ SF_vars(Elapse)
FairSpec == Spec /\ Threads /\ WF_vars(CleanupEnds)
(* As above, but a cleanup thread may hang in the SDK. *)
HangSpec == Spec /\ Threads

-----------------------------------------------------------------------------
(* Properties. *)

Flags ==
  /\ scalars \in BOOLEAN /\ active \in BOOLEAN /\ paused \in BOOLEAN
  /\ link \in BOOLEAN /\ cycled \in BOOLEAN
  /\ ever_connected \in BOOLEAN /\ stream_started \in BOOLEAN
  /\ reconfigure_pending \in BOOLEAN /\ reconnect_pending \in BOOLEAN
  /\ conn_lost_logged \in BOOLEAN

(* Type invariant: the backoff stays within its limits, the open grace     *)
(* within its total.                                                       *)
TypeOK ==
  /\ Flags
  /\ pc \in {"recv", "format", "join", "gate", "watch", "ingress",
            "stopping", "waiting", "exited"}
  /\ pkt \in Formats \cup {Spurious, None} /\ fmt \in Formats \cup {None}
  /\ fill \in 0..GateFill
  /\ sync \in Formats \cup {None}
  /\ open_state \in {"Idle", "InProgress", "DoneOk", "DoneFail"}
  /\ opening \in Formats \cup {None} /\ pending_sync \in Formats \cup {None}
  /\ cleanups \in 0..MaxCleanups
  /\ backoff \in BackoffFirst..BackoffMax
  /\ ready \in Int /\ ready >= -CleanupBudget
  /\ gate \in Nat /\ next \in Nat /\ grace \in Nat
  /\ waited \in 0..GraceTotal /\ idle \in 0..MaxIdle

(* One session with the Target: while an open is in progress or its Sync   *)
(* waits to be installed, no other Sync is installed, so installing it     *)
(* (finalize_sync_open_on_receiver, teardown_sync_for_shutdown) overwrites *)
(* none; and a Sync waits exactly when the worker has said DoneOk.         *)
OneSync ==
  /\ sync # None => open_state = "Idle"
  /\ pending_sync # None <=> open_state = "DoneOk"

(* What is installed, or waits to be, was opened for the format the queue  *)
(* now holds: an open overtaken by a format change is never installed.     *)
RightFormat ==
  pc # "join" => /\ sync \in {None, fmt}
                 /\ pending_sync \in {None, fmt}
                 /\ open_state = "InProgress" => opening = fmt

(* Whenever the receiver waits for packets and has a format, something     *)
(* will bring the sound back: a Sync, an open under way, or a flag that    *)
(* makes a later packet start one.                                         *)
AlwaysAWayBack ==
  pc = "recv" /\ fmt # None =>
    \/ sync # None \/ open_state # "Idle"
    \/ reconnect_pending \/ reconfigure_pending

(* The packet in hand always finds the format scalars, although every      *)
(* teardown on the way zeroes them.                                        *)
NeverDeaf == pc = "ingress" => scalars

(* No Sync is dropped: one that stops being installed or waiting has been  *)
(* installed, handed to a cleanup thread, or closed by the shutdown.       *)
NoSyncLost ==
  [][One(sync) + One(pending_sync) + cleanups
       <= One(sync') + One(pending_sync') + cleanups' + (IF pc = "stopping" THEN 1 ELSE 0)
     \/ CleanupEnds]_vars

(* The backend implements Session.  A Sync that is installed plays when    *)
(* the send thread is let into the ring (m_active) and is paused when it   *)
(* is not and g_st.paused says so; any other combination is no phase.      *)
ended == pc \in {"waiting", "exited"}
phase ==
  IF ended THEN "ended"
  ELSE CASE sync = None /\ ~active /\ ~paused -> "silent"
         [] sync # None /\ active /\ ~paused  -> "playing"
         [] sync # None /\ ~active /\ paused  -> "paused"
         [] OTHER                             -> "torn"
S == INSTANCE Session WITH plays <- sync, wanted <- fmt
ImplementsSession == S!Spec

(* Sound returns: if from some time on one format is sent without end, the *)
(* Target takes connections and holds them, and no shutdown comes, then a  *)
(* connected Sync is playing again and again.  That an open worker ends at *)
(* all is part of the fairness: one that hangs also hangs the receiver.    *)
Disturbance ==
  \/ WorkerFails \/ BeginShutdown
  \/ link /\ ~link' /\ sync' # None
  \/ sync = None /\ sync' # None /\ ~link'
  \/ pc = "format" /\ pkt # fmt
AudioReturns ==
  <>[][~Disturbance]_vars /\ []<><<Packet>>_vars => []<>(active /\ link)

(* "When the upstream stops sending PCM for this many seconds, the backend *)
(* tears down the active Sync": it holds once the stream has been seen to  *)
(* start.                                                                  *)
StartedSyncReleased ==
  (sync # None /\ stream_started /\ idle = MaxIdle)
    ~> (sync = None \/ idle = 0 \/ pc # "recv")

(* The same promise for any installed Sync.                                *)
IdleSyncReleased ==
  (sync # None /\ idle = MaxIdle) ~> (sync = None \/ idle = 0 \/ pc # "recv")

(* "opening new Sync despite %d cleanup(s) still in flight (cleanup-extra  *)
(* deadline reached)": while packets keep coming, a format change gets its *)
(* open even if a cleanup hangs.                                           *)
OpensDespiteCleanup ==
  <>[][~Disturbance]_vars /\ []<><<Packet>>_vars => []<>~reconfigure_pending
=============================================================================
