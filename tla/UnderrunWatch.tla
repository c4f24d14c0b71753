--------------------------- MODULE UnderrunWatch ---------------------------
(***************************************************************************)
(* The receiver thread's underrun observer on top of SyncPull.             *)
(*                                                                         *)
(* The send thread counts an underrun when Gate 3 arms rebuffering; every  *)
(* packet sent to a playing Sync ends in poll_underrun_events(), which     *)
(* compares that counter with the last value it saw and logs the beginning *)
(* and the end of an episode.  Opening a Sync resets both sides, resuming  *)
(* a paused one calls resetGate(), which resets the counter only.          *)
(***************************************************************************)
EXTENDS SyncPull

CONSTANT MaxUnderruns   \* bound: later underruns of a Sync are not told apart

ASSUME WatchAssumption == MaxUnderruns \in Nat \ {0}

VARIABLES underruns,          \* m_underrunEvents
          lastObserved,       \* g_st.last_observed_underrun_events
          rebufferingLogged,  \* g_st.rebuffering_logged
          due,                \* what poll_underrun_events() has yet to read
          curEvents,          \* its cur_events
          reported,           \* history: an underrun was logged since the
                              \*   counter was last zeroed
          resumed             \* history: this Sync has been paused and resumed

observer  == <<lastObserved, rebufferingLogged, due, curEvents>>
watchVars == <<underruns, observer, reported, resumed>>
allVars   == <<vars, watchVars>>

WatchInit ==
  /\ Init
  /\ underruns = 0 /\ lastObserved = 0 /\ rebufferingLogged = FALSE
  /\ due = "none" /\ curEvents = 0
  /\ reported = FALSE /\ resumed = FALSE

-----------------------------------------------------------------------------
(* The send thread: m_underrunEvents.fetch_add() follows the store of      *)
(* m_rebuffering.                                                          *)
CountUnderrun ==
  /\ UnderrunAccount
  /\ underruns' = Least(underruns + 1, MaxUnderruns)
  /\ UNCHANGED <<observer, reported, resumed>>

OtherCycleStep == getNewStream /\ pc # "account" /\ UNCHANGED watchVars

SendThread == CountUnderrun \/ OtherCycleStep

-----------------------------------------------------------------------------
(* The receiver thread: a packet is pushed, then the counter and the flag  *)
(* are read; nothing else of the thread runs in between.                   *)
PushAndPoll(n) ==
  /\ due = "none" /\ Push(n)
  /\ due' = IF owner = "playing" THEN "events" ELSE "none"
  /\ UNCHANGED <<underruns, lastObserved, rebufferingLogged, curEvents, reported, resumed>>

PollEvents ==
  /\ due = "events"
  /\ curEvents' = underruns
  /\ due' = "flag"
  /\ UNCHANGED <<vars, underruns, lastObserved, rebufferingLogged, reported, resumed>>

PollFlag ==
  LET begin     == curEvents > lastObserved
      logged    == begin \/ rebufferingLogged
  IN  /\ due = "flag"
      /\ lastObserved' = IF begin THEN curEvents ELSE lastObserved
      /\ rebufferingLogged' = (logged /\ rebuffering)
      /\ reported' = (reported \/ begin)
      /\ curEvents' = 0 /\ due' = "none"
      /\ UNCHANGED <<vars, underruns, resumed>>

(* resetGate() of a resume zeroes the counter under the observer. *)
ResumeAndZero ==
  /\ due = "none" /\ ResumeReset
  /\ underruns' = 0
  /\ reported' = FALSE /\ resumed' = TRUE
  /\ UNCHANGED observer

(* dbg_reset_open_flags(), called by start_async_sync_open(). *)
KeepObserver == UNCHANGED <<lastObserved, rebufferingLogged>>   \* mutant: not reset
dbg_reset_open_flags == lastObserved' = 0 /\ rebufferingLogged' = FALSE

ReopenAndReset ==
  /\ due = "none" /\ Reopen
  /\ underruns' = 0
  /\ dbg_reset_open_flags
  /\ reported' = FALSE /\ resumed' = FALSE
  /\ UNCHANGED <<due, curEvents>>

OtherOwnerStep ==
  /\ due = "none"
  /\ \/ Activate
     \/ \E g \in {"paused", "closed"} : ExitSteadyState(g)
     \/ CloseGate \/ WaitForUsers \/ ResumeClear \/ Resize
  /\ UNCHANGED watchVars

WatchNext ==
  \/ SendThread
  \/ \E n \in 1..MaxBurst : PushAndPoll(n)
  \/ PollEvents \/ PollFlag
  \/ ResumeAndZero \/ ReopenAndReset \/ OtherOwnerStep

WatchSpec == WatchInit /\ [][WatchNext]_allVars

(* As in SyncPull, and a packet being handled is handled to its end. *)
WatchFairness ==
  /\ WF_allVars(SendThread)
  /\ WF_allVars(CloseGate /\ OtherOwnerStep) /\ WF_allVars(WaitForUsers /\ OtherOwnerStep)
  /\ WF_allVars(\E n \in 1..MaxBurst : PushAndPoll(n))
  /\ WF_allVars(PollEvents \/ PollFlag)
WatchFairSpec == WatchSpec /\ WatchFairness

-----------------------------------------------------------------------------
(* Properties. *)

(* Type invariant of the composition. *)
WatchTypeOK ==
  /\ TypeOK
  /\ underruns \in 0..MaxUnderruns /\ lastObserved \in 0..MaxUnderruns
  /\ curEvents \in 0..MaxUnderruns
  /\ due \in {"none", "events", "flag"}
  /\ rebufferingLogged \in BOOLEAN /\ reported \in BOOLEAN /\ resumed \in BOOLEAN

(* On a Sync that has not been resumed, an underrun during playback is     *)
(* logged by one of the next packets, unless playback ends first: the      *)
(* values an earlier Sync left in the observer do not hide it              *)
(* (diretta.cpp:540-544, 3058-3080).  It asks for one report since the     *)
(* counter was last zeroed; of further underruns it says nothing.          *)
UnderrunReported ==
  owner = "playing" /\ ~resumed /\ underruns > 0 ~> reported \/ owner # "playing"

(* "Otherwise the first underrun on the new Sync would be missed           *)
(* (cur_events would already equal the stale last_observed value)": the    *)
(* same over a resume, which zeroes the same counters.  When a poll ends   *)
(* with the counter it read above zero, an underrun of this counter has    *)
(* been logged.                                                            *)
FirstUnderrunNotMissed ==
  [][PollFlag /\ curEvents > 0 => reported']_allVars
=============================================================================
