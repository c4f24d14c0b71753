------------------------------ MODULE RingPull ------------------------------
(***************************************************************************)
(* SyncPull on a ring whose operations take time.                          *)
(*                                                                         *)
(* SyncPull lets a push or a pop change the fill at once.  In              *)
(* diretta_ring.h each loads the other side's index, copies, and then      *)
(* publishes its own, so that a push of the receiver and a pop of the send *)
(* thread overlap: what is being popped still takes up room, and what is   *)
(* being pushed is not there yet.  PcmRing has the copies; here is what    *)
(* the overlap does to the gates, the guard and the owner.                 *)
(***************************************************************************)
EXTENDS SyncPull

VARIABLES block,        \* frames the push in progress will publish, or 0
          popping,      \* the send thread is between load and publish
          granted       \* frames its pop found in the ring

ring == <<block, popping, granted>>
ringVars == <<vars, ring>>

RingInit == Init /\ block = 0 /\ popping = FALSE /\ granted = 0

Pops == {"fastpop", "pop", "underpop"}

-----------------------------------------------------------------------------
(* pushFrames(): m_readPos is loaded and the block cut down to the whole   *)
(* frames that fit; m_writePos is stored once they are in the buffer.      *)
PushStart(n) ==
  /\ owner \in {"playing", "closed", "configured"}
  /\ block = 0 /\ fill < Cap
  /\ block' = Least(n, Cap - fill)
  /\ UNCHANGED <<vars, popping, granted>>

PushPublish ==
  /\ block > 0
  /\ fill' = fill + block
  /\ primed' = (primed \/ fill' >= tuning.prefill)
  /\ block' = 0
  /\ UNCHANGED <<tuning, active, gates, receiver, sdkSide, popping, granted>>

(* popOrSilence(): m_writePos is loaded, m_readPos is stored when the      *)
(* frames are out of the buffer, and the caller counts what it popped.     *)
PopStart ==
  /\ pc \in Pops /\ ~popping
  /\ granted' = Least(fill, want)
  /\ popping' = TRUE
  /\ UNCHANGED <<vars, block>>

counted == IF pc = "underpop" THEN availBefore ELSE want
AfterPop == IF pc = "pop" THEN "latch" ELSE "leave"
AvailAfterPop == IF pc = "underpop" THEN 0 ELSE availBefore

PopPublish ==
  /\ popping
  /\ fill' = fill - granted
  /\ overcounted' = (overcounted \/ counted > granted)
  /\ availBefore' = AvailAfterPop
  /\ Goto(AfterPop)
  /\ popping' = FALSE /\ granted' = 0
  /\ UNCHANGED <<tuning, guard, gates, want, acc, receiver, primed, block>>

CycleStep == pc \notin Pops /\ getNewStream /\ UNCHANGED ring

(* The receiver thread finishes a push before it does anything else. *)
OwnerStep ==
  /\ block = 0
  /\ \/ Activate
     \/ \E g \in {"paused", "closed"} : ExitSteadyState(g)
     \/ CloseGate \/ WaitForUsers
     \/ ResumeClear \/ ResumeReset \/ Resize \/ Reopen
  /\ UNCHANGED ring

RingNext ==
  \/ \E n \in 1..MaxBurst : PushStart(n)
  \/ PushPublish \/ PopStart \/ PopPublish
  \/ CycleStep \/ OwnerStep

RingSpec == RingInit /\ [][RingNext]_ringVars

-----------------------------------------------------------------------------
(* A pop takes effect when it loads the other side's index, a push when it *)
(* stores its own: in between the frames of a pop are gone and those of a  *)
(* push have not come.                                                     *)
Pull == INSTANCE SyncPull WITH
  fill        <- fill - granted,
  pc          <- IF popping THEN AfterPop ELSE pc,
  availBefore <- IF popping THEN AvailAfterPop ELSE availBefore,
  overcounted <- overcounted \/ (popping /\ counted > granted)

(* The overlap of push and pop is invisible: every behaviour on the real   *)
(* ring is one of SyncPull, whose properties hold of it.                   *)
ImplementsSyncPull == Pull!Spec

(* Nobody copies out of a ring that its owner clears, resizes or hands to  *)
(* another Sync: deactivate() has waited for the pop to publish.           *)
ClearedAtRest == owner \in Owning => ~popping

(* A pop that went through the gates or by the fast path takes its whole   *)
(* block from the ring: no push or pop that overlaps the test of the fill  *)
(* makes popOrSilence() pad a cycle that was promised real audio.          *)
FullPopsTakeAll == popping /\ pc # "underpop" => granted = want
=============================================================================
