--------------------------- MODULE SyncPullProofs ---------------------------
(***************************************************************************)
(* For every ring capacity, tuning, cycle size and drift: deactivate()     *)
(* keeps the send thread out of the ring, and a cycle that pops a full     *)
(* block has passed the gates it skips.  The underrun observer takes       *)
(* nothing of this away, nor does, at the end, a ring on which pushes and  *)
(* pops overlap.                                                           *)
(***************************************************************************)
EXTENDS UnderrunWatch, RingPull, TLAPS

IInv == /\ TypeOK /\ OwnerAlone /\ RealPopCovered
        /\ UsersCounted /\ ActiveWhilePlaying /\ GatesAlongPath

USE SizeAssumption, TuningAssumption

LEMMA InitInvariant == Init => IInv
<1> SUFFICES ASSUME Init PROVE IInv
  OBVIOUS
<1>1. FlagTypes
  BY Zenon DEF Init, FlagTypes
<1>2. /\ tuning \in Tunings /\ fill = 0 /\ users = 0 /\ acc = 0 /\ want = 0
      /\ availBefore = 0 /\ pc = "idle" /\ owner = "configured" /\ goal = "closed"
  BY DEF Init
<1>3. TypeOK
  BY <1>1, <1>2 DEF TypeOK, Guarded, Owning
<1> QED
  BY <1>3 DEF Init, IInv, OwnerAlone, RealPopCovered, UsersCounted,
              ActiveWhilePlaying, GatesAlongPath, Guarded, Owning

-----------------------------------------------------------------------------
(* Types. *)

(* The accumulator of truncated bytes stays below a frame, so one cycle    *)
(* never needs more than one extra frame.                                  *)
LEMMA CycleTypes ==
  ASSUME TypeOK, BeginCycle
  PROVE  acc' \in 0..(BPF - 1) /\ want' \in {0, Base, Base + 1}
BY DEF TypeOK, BeginCycle, Carry

(* The flags: each step stores a truth value or leaves them alone. *)
LEMMA FlagsStayFlags ==
  ASSUME FlagTypes, Next
  PROVE  FlagTypes'
<1> USE DEF FlagTypes, gates, guard, receiver, history, sdkSide
<1>1. CASE \/ BeginCycle \/ GuardCheck \/ GuardAnnounce \/ GuardRecheck
           \/ GuardLeave \/ TestSteady \/ UnderrunAccount
  BY <1>1, Zenon DEF BeginCycle, Carry, GuardCheck, GuardAnnounce, GuardRecheck,
              GuardLeave, TestSteady, UnderrunAccount
<1>2. CASE FastPath
  BY <1>2, Zenon DEF FastPath
<1>3. CASE Gate1 \/ Gate2
  BY <1>3, Zenon DEF Gate1, Gate2
<1>4. CASE Gate3
  BY <1>4, Zenon DEF Gate3
<1>5. CASE UnderrunPop \/ FastPop \/ SlowPop
  BY <1>5, Zenon DEF UnderrunPop, FastPop, SlowPop, Pop
<1>6. CASE LatchSteady
  BY <1>6, Zenon DEF LatchSteady
<1>7. ASSUME NEW n \in 1..MaxBurst, Push(n) PROVE FlagTypes'
  BY <1>7, Zenon DEF Push
<1>8. CASE Activate \/ CloseGate \/ WaitForUsers
  BY <1>8, Zenon DEF Activate, CloseGate, WaitForUsers
<1>9. ASSUME NEW g \in {"paused", "closed"}, ExitSteadyState(g) PROVE FlagTypes'
  BY <1>9, Zenon DEF ExitSteadyState
<1>10. CASE ResumeClear \/ Resize
  BY <1>10, Zenon DEF ResumeClear, Resize
<1>11. CASE ResumeReset
  BY <1>11, Zenon DEF ResumeReset, resetGate
<1>12. CASE Reopen
  <2>1. primed' = (fill >= tuning'.prefill) /\ UNCHANGED <<active, overcounted>>
    BY <1>12 DEF Reopen
  <2>2. prefillDone' = FALSE /\ rebuffering' = FALSE /\ steadyState' = FALSE
    BY <1>12 DEF Reopen, resetGate
  <2>3. primed' \in BOOLEAN
    BY <2>1, SMT
  <2> QED
    BY <2>1, <2>2, <2>3, Zenon
<1> QED
  BY <1>1, <1>2, <1>3, <1>4, <1>5, <1>6, <1>7, <1>8, <1>9, <1>10, <1>11, <1>12
     DEF Next, getNewStream, Receiver

LEMMA SendThreadTypes ==
  ASSUME TypeOK, UsersCounted, getNewStream
  PROVE  TypeOK'
<1> USE DEF TypeOK, Goto, Guarded, sdkVars, receiver, guard
<1>1. FlagTypes'
  BY FlagsStayFlags DEF Next
<1>2. CASE BeginCycle
  BY <1>1, <1>2, CycleTypes DEF BeginCycle, Carry
<1>3. CASE GuardCheck \/ GuardRecheck
  BY <1>1, <1>3 DEF GuardCheck, GuardRecheck, Admitted
<1>4. CASE GuardAnnounce \/ GuardLeave
  BY <1>1, <1>4 DEF GuardAnnounce, GuardLeave, UsersAfterLeave, UsersCounted
<1>5. CASE TestSteady \/ FastPath
  BY <1>1, <1>5 DEF TestSteady, FastPath
<1>6. CASE Gate1 \/ Gate2 \/ Gate3
  BY <1>1, <1>6 DEF Gate1, Gate2, Gate3, Prefilled
<1>7. CASE UnderrunAccount \/ LatchSteady
  BY <1>1, <1>7 DEF UnderrunAccount, LatchSteady
<1>8. CASE UnderrunPop \/ FastPop \/ SlowPop
  <2>1. want \in Nat
    OBVIOUS
  <2>2. fill' \in 0..Cap
    BY <1>8, <2>1 DEF UnderrunPop, FastPop, SlowPop, Pop, Least
  <2> QED
    BY <1>1, <1>8, <2>2 DEF UnderrunPop, FastPop, SlowPop, Pop
<1> QED
  BY <1>2, <1>3, <1>4, <1>5, <1>6, <1>7, <1>8 DEF getNewStream

LEMMA ReceiverTypes ==
  ASSUME TypeOK, Receiver
  PROVE  TypeOK'
<1> USE DEF TypeOK, guard, sdkVars, receiver, Owning, sdkSide
<1>1. FlagTypes'
  BY FlagsStayFlags DEF Next
<1>2. CASE \E n \in 1..MaxBurst : Push(n)
  <2>1. PICK n \in 1..MaxBurst : Push(n)
    BY <1>2
  <2>2. fill' \in 0..Cap
    BY <2>1 DEF Push, Least
  <2> QED
    BY <1>1, <2>1, <2>2 DEF Push
<1>3. CASE Activate \/ CloseGate \/ WaitForUsers
  BY <1>1, <1>3 DEF Activate, CloseGate, WaitForUsers
<1>4. ASSUME NEW g \in {"paused", "closed"}, ExitSteadyState(g) PROVE TypeOK'
  BY <1>1, <1>4 DEF ExitSteadyState
<1>5. CASE ResumeClear \/ ResumeReset \/ Resize
  BY <1>1, <1>5 DEF ResumeClear, ResumeReset, Resize
<1>6. CASE Reopen
  BY <1>1, <1>6 DEF Reopen
<1> QED
  BY <1>2, <1>3, <1>4, <1>5, <1>6 DEF Receiver

-----------------------------------------------------------------------------
(* Mutual exclusion of the send thread's guard and the owner. *)

(* The send thread enters only while m_active holds, and m_active is down  *)
(* whenever the owner may touch the ring.                                  *)
LEMMA SendThreadGuard ==
  ASSUME TypeOK, OwnerAlone, UsersCounted, ActiveWhilePlaying, getNewStream
  PROVE  OwnerAlone' /\ UsersCounted' /\ ActiveWhilePlaying'
<1>1. UNCHANGED <<owner, active>>
  BY DEF getNewStream, BeginCycle, Carry, UsersAfterLeave, Admitted,
         Prefilled, GuardCheck, GuardAnnounce, GuardRecheck, GuardLeave,
         TestSteady, FastPath, Gate1, Gate2, Gate3, UnderrunAccount, UnderrunPop,
         FastPop, SlowPop, Pop, LatchSteady, guard, receiver
<1>2. UsersCounted'
  BY DEF UsersCounted, Guarded, TypeOK, Goto, getNewStream, BeginCycle, Carry,
         UsersAfterLeave, Admitted, Prefilled, GuardCheck,
         GuardAnnounce, GuardRecheck, GuardLeave, TestSteady, FastPath, Gate1, Gate2,
         Gate3, UnderrunAccount, UnderrunPop, FastPop, SlowPop, Pop, LatchSteady, guard
<1>3. pc' \in Guarded => pc \in Guarded \/ active
  BY DEF Guarded, Goto, getNewStream, BeginCycle, Carry, UsersAfterLeave,
         Admitted, Prefilled, GuardCheck,
         GuardAnnounce, GuardRecheck, GuardLeave, TestSteady, FastPath, Gate1, Gate2,
         Gate3, UnderrunAccount, UnderrunPop, FastPop, SlowPop, Pop, LatchSteady
<1>4. OwnerAlone'
  BY <1>1, <1>3 DEF OwnerAlone, ActiveWhilePlaying, Owning
<1> QED
  BY <1>1, <1>2, <1>4 DEF ActiveWhilePlaying

(* The owner's wait ends only when the counter shows nobody inside. *)
LEMMA ReceiverGuard ==
  ASSUME TypeOK, OwnerAlone, UsersCounted, ActiveWhilePlaying, Receiver
  PROVE  OwnerAlone' /\ UsersCounted' /\ ActiveWhilePlaying'
<1> USE DEF TypeOK, OwnerAlone, UsersCounted, ActiveWhilePlaying, Owning, Guarded,
            gates, guard, sdkVars, receiver, history, sdkSide
<1>1. CASE \E n \in 1..MaxBurst : Push(n)
  BY <1>1 DEF Push
<1>2. CASE Activate \/ CloseGate
  BY <1>2 DEF Activate, CloseGate
<1>3. CASE WaitForUsers
  BY <1>3 DEF WaitForUsers
<1>4. ASSUME NEW g \in {"paused", "closed"}, ExitSteadyState(g)
      PROVE  OwnerAlone' /\ UsersCounted' /\ ActiveWhilePlaying'
  <2>1. owner \in {"playing", "paused", "configured"}
    BY <1>4 DEF ExitSteadyState
  <2>2. owner' = "exiting" /\ UNCHANGED <<active, pc, users>>
    BY <1>4 DEF ExitSteadyState
  <2> QED
    BY <2>1, <2>2
<1>5. CASE ResumeClear \/ ResumeReset \/ Resize \/ Reopen
  BY <1>5 DEF ResumeClear, ResumeReset, Resize, Reopen
<1> QED
  BY <1>1, <1>2, <1>3, <1>4, <1>5 DEF Receiver

-----------------------------------------------------------------------------
(* The gate cascade. *)

(* Each label is reached with the gates its predecessors have passed; the  *)
(* ring can only have grown since the fill was compared.                   *)
LEMMA SendThreadGates ==
  ASSUME TypeOK, RealPopCovered, GatesAlongPath, getNewStream
  PROVE  RealPopCovered' /\ GatesAlongPath'
<1> USE DEF TypeOK, RealPopCovered, GatesAlongPath, Goto, gates, guard
<1>1. CASE BeginCycle \/ GuardCheck \/ GuardAnnounce \/ GuardRecheck \/ GuardLeave
  BY <1>1 DEF BeginCycle, Carry, GuardCheck, GuardAnnounce, GuardRecheck, GuardLeave,
              Admitted
<1>2. CASE TestSteady
  BY <1>2 DEF TestSteady
<1>3. CASE FastPath
  BY <1>3 DEF FastPath
<1>4. CASE Gate1
  BY <1>4 DEF Gate1, Prefilled
<1>5. CASE Gate2
  BY <1>5 DEF Gate2
<1>6. CASE Gate3
  <2>1. CASE fill < want
    BY <1>6, <2>1 DEF Gate3
  <2>2. CASE ~(fill < want)
    <3>1. fill \in Nat /\ want \in Nat
      OBVIOUS
    <3>2. fill >= want
      BY <2>2, <3>1
    <3> QED
      BY <1>6, <2>2, <3>2 DEF Gate3
  <2> QED
    BY <2>1, <2>2
<1>7. CASE UnderrunAccount \/ UnderrunPop \/ FastPop \/ SlowPop
  BY <1>7 DEF UnderrunAccount, UnderrunPop, FastPop, SlowPop, Pop
<1>8. CASE LatchSteady
  BY <1>8 DEF LatchSteady
<1> QED
  BY <1>1, <1>2, <1>3, <1>4, <1>5, <1>6, <1>7, <1>8 DEF getNewStream

(* The owner rearms the gates and empties the ring only while no cycle is  *)
(* on its way through them.                                                *)
LEMMA ReceiverGates ==
  ASSUME TypeOK, OwnerAlone, RealPopCovered, GatesAlongPath, Receiver
  PROVE  RealPopCovered' /\ GatesAlongPath'
<1> USE DEF TypeOK, RealPopCovered, GatesAlongPath, gates, guard, sdkVars, sdkSide
<1>1. CASE \E n \in 1..MaxBurst : Push(n)
  <2>1. PICK n \in 1..MaxBurst : Push(n)
    BY <1>1
  <2>2. fill' >= fill
    BY <2>1 DEF Push, Least
  <2>3. fill' \in Nat /\ fill \in Nat /\ want \in Nat
    BY <2>1 DEF Push, Least
  <2>4. fill >= want => fill' >= want
    BY <2>2, <2>3
  <2> QED
    BY <2>1, <2>4 DEF Push
<1>2. CASE Activate \/ CloseGate \/ WaitForUsers
  BY <1>2 DEF Activate, CloseGate, WaitForUsers
<1>3. CASE \E g \in {"paused", "closed"} : ExitSteadyState(g)
  BY <1>3 DEF ExitSteadyState
<1>4. CASE ResumeClear \/ ResumeReset \/ Resize
  <2>1. pc \notin Guarded
    BY <1>4 DEF ResumeClear, ResumeReset, Resize, OwnerAlone, Owning
  <2> QED
    BY <1>4, <2>1 DEF ResumeClear, ResumeReset, Resize, resetGate, Guarded
<1>5. CASE Reopen
  BY <1>5 DEF Reopen, resetGate
<1> QED
  BY <1>1, <1>2, <1>3, <1>4, <1>5 DEF Receiver

-----------------------------------------------------------------------------

LEMMA NextInvariant == IInv /\ [Next]_vars => IInv'
<1> SUFFICES ASSUME IInv, [Next]_vars PROVE IInv'
  OBVIOUS
<1>1. CASE getNewStream
  BY <1>1, SendThreadTypes, SendThreadGuard, SendThreadGates DEF IInv
<1>2. CASE Receiver
  BY <1>2, ReceiverTypes, ReceiverGuard, ReceiverGates DEF IInv
<1>3. CASE UNCHANGED vars
  <2>1. UNCHANGED <<tuning, fill, active, users, prefillDone, rebuffering, steadyState,
                    acc, pc, want, availBefore, owner, goal, primed, overcounted>>
    BY <1>3 DEF vars, gates, guard, sdkVars, receiver, history
  <2>2. FlagTypes'
    BY <2>1, Zenon DEF IInv, TypeOK, FlagTypes
  <2>3. TypeOK'
    BY <2>1, <2>2 DEF IInv, TypeOK
  <2> QED
    BY <2>1, <2>3 DEF IInv, OwnerAlone, RealPopCovered, UsersCounted,
                      ActiveWhilePlaying, GatesAlongPath
<1> QED
  BY <1>1, <1>2, <1>3 DEF Next

THEOREM InvariantHolds == Spec => []IInv
<1> QED
  BY InitInvariant, NextInvariant, PTL DEF Spec

(* Every variable of the Sync keeps its type, the drift accumulator and    *)
(* the user counter their ranges.                                          *)
THEOREM TypeCorrect == Spec => []TypeOK
<1>1. IInv => TypeOK
  BY DEF IInv
<1> QED
  BY <1>1, InvariantHolds, PTL

(* Once deactivate() has returned, and until the next activate(), no       *)
(* getNewStream() cycle is inside the ring.                                *)
THEOREM RingIsOwned == Spec => []OwnerAlone
<1>1. IInv => OwnerAlone
  BY DEF IInv
<1> QED
  BY <1>1, InvariantHolds, PTL

(* Every full pop, fast path or slow, has its block in the ring and every  *)
(* gate open.                                                              *)
THEOREM FullPopsAreCovered == Spec => []RealPopCovered
<1>1. IInv => RealPopCovered
  BY DEF IInv
<1> QED
  BY <1>1, InvariantHolds, PTL

-----------------------------------------------------------------------------
(* The head of a track. *)

(* The prefill gate is open only for a ring that has been primed, except   *)
(* between the owner's clear or resize and the reset of the gates.         *)
HeadInv ==
  /\ fill >= tuning.prefill => primed
  /\ prefillDone => primed \/ owner \in {"cleared", "closed"}

LEMMA HeadInit == Init => HeadInv
<1> SUFFICES ASSUME Init PROVE HeadInv
  OBVIOUS
<1>1. primed <=> tuning.prefill = 0
  BY Zenon DEF Init
<1>2. tuning.prefill \in Nat /\ fill = 0 /\ prefillDone = FALSE
  BY DEF Init
<1> QED
  BY <1>1, <1>2 DEF HeadInv

LEMMA HeadSendThread ==
  ASSUME IInv, HeadInv, getNewStream
  PROVE  HeadInv'
<1> USE DEF HeadInv, IInv, TypeOK, guard, gates, receiver, history
<1>1. CASE BeginCycle \/ GuardCheck \/ GuardAnnounce \/ GuardRecheck \/ GuardLeave
  BY <1>1 DEF BeginCycle, GuardCheck, GuardAnnounce, GuardRecheck, GuardLeave
<1>2. CASE TestSteady \/ FastPath \/ Gate2 \/ Gate3 \/ UnderrunAccount \/ LatchSteady
  BY <1>2 DEF TestSteady, FastPath, Gate2, Gate3, UnderrunAccount, LatchSteady
<1>3. CASE Gate1
  BY <1>3 DEF Gate1, Prefilled
<1>4. CASE UnderrunPop \/ FastPop \/ SlowPop
  BY <1>4 DEF UnderrunPop, FastPop, SlowPop, Pop, Least
<1> QED
  BY <1>1, <1>2, <1>3, <1>4 DEF getNewStream

LEMMA HeadReceiver ==
  ASSUME IInv, HeadInv, Receiver
  PROVE  HeadInv'
<1> USE DEF HeadInv, IInv, TypeOK, gates
<1>1. ASSUME NEW n \in 1..MaxBurst, Push(n) PROVE HeadInv'
  <2>1. primed' <=> primed \/ fill' >= tuning.prefill
    BY <1>1, Zenon DEF Push
  <2>2. UNCHANGED <<tuning, prefillDone, owner>>
    BY <1>1 DEF Push, receiver
  <2> QED
    BY <2>1, <2>2
<1>2. CASE Activate \/ CloseGate \/ WaitForUsers
  BY <1>2 DEF Activate, CloseGate, WaitForUsers
<1>3. ASSUME NEW g \in {"paused", "closed"}, ExitSteadyState(g) PROVE HeadInv'
  BY <1>3 DEF ExitSteadyState
<1>4. CASE ResumeClear \/ Resize
  <2>1. primed' <=> tuning.prefill = 0
    BY <1>4, Zenon DEF ResumeClear, Resize
  <2>2. fill' = 0 /\ tuning' = tuning /\ owner' \in {"cleared", "closed"}
    BY <1>4 DEF ResumeClear, Resize
  <2> QED
    BY <2>1, <2>2
<1>5. CASE ResumeReset
  BY <1>5 DEF ResumeReset, resetGate
<1>6. CASE Reopen
  <2>1. primed' <=> fill >= tuning'.prefill
    BY <1>6, Zenon DEF Reopen
  <2>2. fill' = fill /\ prefillDone' = FALSE
    BY <1>6 DEF Reopen, resetGate
  <2> QED
    BY <2>1, <2>2
<1> QED
  BY <1>1, <1>2, <1>3, <1>4, <1>5, <1>6 DEF Receiver

LEMMA HeadStep ==
  ASSUME IInv, HeadInv, [Next]_vars
  PROVE  HeadInv' /\ (fill' < fill => primed \/ owner \in {"paused", "closed"})
<1>1. HeadInv'
  BY HeadSendThread, HeadReceiver DEF Next, HeadInv, vars, gates, receiver, history
<1>2. ASSUME fill' < fill
      PROVE  primed \/ owner \in {"paused", "closed"}
  <2>1. CASE UnderrunPop \/ FastPop \/ SlowPop
    BY <2>1 DEF HeadInv, IInv, TypeOK, OwnerAlone, RealPopCovered, GatesAlongPath, Owning,
                Guarded, UnderrunPop, FastPop, SlowPop, Pop
  <2>2. CASE ResumeClear \/ Resize
    BY <2>2 DEF ResumeClear, Resize
  <2>3. ASSUME NEW n \in 1..MaxBurst, Push(n) PROVE FALSE
    BY <1>2, <2>3 DEF Push, Least, IInv, TypeOK
  <2>4. CASE \/ BeginCycle \/ GuardCheck \/ GuardAnnounce \/ GuardRecheck \/ GuardLeave
             \/ TestSteady \/ FastPath \/ Gate1 \/ Gate2 \/ Gate3
             \/ UnderrunAccount \/ LatchSteady
    BY <1>2, <2>4 DEF IInv, TypeOK, BeginCycle, GuardCheck, GuardAnnounce, GuardRecheck,
         GuardLeave, TestSteady, FastPath, Gate1, Gate2, Gate3, UnderrunAccount, LatchSteady
  <2>5. ASSUME \/ Activate \/ CloseGate \/ WaitForUsers \/ ResumeReset \/ Reopen
               \/ \E g \in {"paused", "closed"} : ExitSteadyState(g)
               \/ UNCHANGED vars
        PROVE  FALSE
    <3>1. fill' = fill
      BY <2>5 DEF Activate, CloseGate, WaitForUsers, ResumeReset, Reopen, ExitSteadyState, vars
    <3> QED
      BY <1>2, <3>1 DEF IInv, TypeOK
  <2> QED
    BY <2>1, <2>2, <2>3, <2>4, <2>5 DEF Next, getNewStream, Receiver
<1> QED
  BY <1>1, <1>2

(* Nothing is taken from the ring before it has been primed, since it was  *)
(* last emptied or the Sync opened: the head of a track is played.         *)
THEOREM HeadsSurvive == Spec => HeadSurvives
<1>1. IInv /\ HeadInv /\ [Next]_vars
        => HeadInv' /\ [fill' < fill => primed \/ owner \in {"paused", "closed"}]_vars
  BY HeadStep
<1> QED
  BY <1>1, InitInvariant, NextInvariant, HeadInit, PTL DEF Spec, HeadSurvives
-----------------------------------------------------------------------------
(* The observer disturbs nothing: the protocol with the receiver's polling *)
(* implements the protocol without it, so that what is proved above holds  *)
(* of it, for every bound.                                                 *)

USE WatchAssumption

LEMMA StepsAreSteps == [WatchNext]_allVars => [Next]_vars
<1> SUFFICES ASSUME [WatchNext]_allVars PROVE [Next]_vars
  OBVIOUS
<1>1. CASE SendThread
  BY <1>1 DEF SendThread, CountUnderrun, OtherCycleStep, Next, getNewStream
<1>2. ASSUME NEW n \in 1..MaxBurst, PushAndPoll(n) PROVE Next
  BY <1>2 DEF PushAndPoll, Next, Receiver
<1>3. CASE PollEvents \/ PollFlag
  BY <1>3 DEF PollEvents, PollFlag
<1>4. CASE ResumeAndZero \/ ReopenAndReset \/ OtherOwnerStep
  BY <1>4 DEF ResumeAndZero, ReopenAndReset, OtherOwnerStep, Next, Receiver
<1>5. CASE UNCHANGED allVars
  BY <1>5 DEF allVars
<1> QED
  BY <1>1, <1>2, <1>3, <1>4, <1>5 DEF WatchNext

(* The composition implements SyncPull: polling never changes the ring,    *)
(* the gates or the guard.                                                 *)
THEOREM WatchImplementsSyncPull == WatchSpec => Spec
<1>1. WatchInit => Init
  BY DEF WatchInit
<1> QED
  BY <1>1, StepsAreSteps, PTL DEF WatchSpec, Spec

-----------------------------------------------------------------------------
(* Types of the observer. *)

WatchFlags == rebufferingLogged \in BOOLEAN /\ reported \in BOOLEAN /\ resumed \in BOOLEAN
Counters ==
  /\ underruns \in 0..MaxUnderruns /\ lastObserved \in 0..MaxUnderruns
  /\ curEvents \in 0..MaxUnderruns
  /\ due \in {"none", "events", "flag"}

LEMMA FlagStep ==
  ASSUME TypeOK, WatchFlags, [WatchNext]_allVars
  PROVE  WatchFlags'
<1> USE DEF WatchFlags, observer, watchVars
<1>1. CASE SendThread
  BY <1>1, Zenon DEF SendThread, CountUnderrun, OtherCycleStep
<1>2. ASSUME NEW n \in 1..MaxBurst, PushAndPoll(n) PROVE WatchFlags'
  BY <1>2, Zenon DEF PushAndPoll
<1>3. CASE PollEvents
  BY <1>3, Zenon DEF PollEvents
<1>4. CASE PollFlag
  <2>1. /\ rebufferingLogged' = ((curEvents > lastObserved \/ rebufferingLogged) /\ rebuffering)
        /\ reported' = (reported \/ curEvents > lastObserved)
        /\ resumed' = resumed
    BY <1>4, Zenon DEF PollFlag
  <2> QED
    BY <2>1, Zenon
<1>5. CASE ResumeAndZero
  BY <1>5, Zenon DEF ResumeAndZero
<1>6. CASE ReopenAndReset
  BY <1>6, Zenon DEF ReopenAndReset, dbg_reset_open_flags
<1>7. CASE OtherOwnerStep
  BY <1>7, Zenon DEF OtherOwnerStep
<1>8. CASE UNCHANGED allVars
  BY <1>8, Zenon DEF allVars
<1> QED
  BY <1>1, <1>2, <1>3, <1>4, <1>5, <1>6, <1>7, <1>8, Zenon DEF WatchNext

LEMMA CounterStep ==
  ASSUME Counters, [WatchNext]_allVars
  PROVE  Counters'
<1> USE DEF Counters, observer, watchVars
<1>1. CASE SendThread
  BY <1>1 DEF SendThread, CountUnderrun, OtherCycleStep, Least
<1>2. ASSUME NEW n \in 1..MaxBurst, PushAndPoll(n) PROVE Counters'
  BY <1>2 DEF PushAndPoll
<1>3. CASE PollEvents \/ PollFlag
  BY <1>3 DEF PollEvents, PollFlag
<1>4. CASE ResumeAndZero \/ ReopenAndReset \/ OtherOwnerStep
  BY <1>4 DEF ResumeAndZero, ReopenAndReset, dbg_reset_open_flags, OtherOwnerStep
<1>5. CASE UNCHANGED allVars
  BY <1>5 DEF allVars
<1> QED
  BY <1>1, <1>2, <1>3, <1>4, <1>5 DEF WatchNext

(* Every variable of the protocol and of the observer keeps its type. *)
THEOREM WatchTypeCorrect == WatchSpec => []WatchTypeOK
<1>1. WatchInit => WatchFlags /\ Counters
  <2>1. WatchInit => WatchFlags
    BY Zenon DEF WatchInit, WatchFlags
  <2>2. ASSUME WatchInit PROVE Counters
    <3>1. underruns = 0 /\ lastObserved = 0 /\ curEvents = 0 /\ due = "none"
      BY <2>2 DEF WatchInit
    <3> QED
      BY <3>1 DEF Counters
  <2> QED
    BY <2>1, <2>2
<1>2. TypeOK /\ WatchFlags /\ Counters <=> WatchTypeOK
  BY DEF WatchTypeOK, WatchFlags, Counters
<1>3. TypeOK /\ WatchFlags /\ Counters /\ [WatchNext]_allVars => WatchFlags' /\ Counters'
  BY FlagStep, CounterStep
<1> QED
  BY <1>1, <1>2, <1>3, WatchImplementsSyncPull, TypeCorrect, PTL DEF WatchSpec

-----------------------------------------------------------------------------
(* The ring's operations take time: RingPull implements SyncPull. *)

(* What is under way fits the ring and is in it; a pop in progress has     *)
(* found its whole block unless the cycle is an underrun.                  *)
UnderWay ==
  /\ block \in 0..MaxBurst /\ fill + block <= Cap
  /\ block > 0 => owner \in {"playing", "closed", "configured"}
  /\ popping \in BOOLEAN /\ granted \in Nat
  /\ ~popping => granted = 0
  /\ popping => pc \in Pops /\ granted <= fill /\ granted <= want
  /\ FullPopsTakeAll

RingInv == IInv /\ HeadInv /\ UnderWay

LEMMA Fills ==
  ASSUME RingInv
  PROVE  /\ fill \in Nat /\ want \in Nat /\ Cap \in Nat /\ MaxBurst \in Nat
         /\ granted \in Nat /\ block \in Nat /\ fill <= Cap
BY DEF RingInv, IInv, TypeOK, UnderWay

(* A push takes effect when it publishes, because the room it found has    *)
(* only grown since.                                                       *)
LEMMA PublishIsPush ==
  ASSUME RingInv, PushPublish
  PROVE  Push(block) /\ block \in 1..MaxBurst
<1>1. fill + block <= Cap /\ block \in 1..MaxBurst /\ owner \in {"playing", "closed", "configured"}
  BY Fills DEF RingInv, UnderWay, PushPublish
<1>2. Least(fill + block, Cap) = fill + block
  BY <1>1, Fills DEF Least
<1>3. fill' = Least(fill + block, Cap)
  BY <1>2 DEF PushPublish
<1> QED
  BY <1>1, <1>3, Zenon DEF PushPublish, Push

(* A pop of a covered cycle also does, as its block is still there. *)
LEMMA PublishIsPop ==
  ASSUME RingInv, PopPublish, pc # "underpop"
  PROVE  FastPop \/ SlowPop
<1>1. pc \in {"fastpop", "pop"} /\ granted = want /\ granted <= fill
  BY DEF RingInv, UnderWay, FullPopsTakeAll, PopPublish, Pops
<1>2. Least(fill, want) = granted
  BY <1>1, Fills DEF Least
<1>3. counted = want /\ AvailAfterPop = availBefore
  BY <1>1 DEF counted, AvailAfterPop
<1>4. fill' = fill - Least(fill, want) /\ availBefore' = availBefore
  BY <1>2, <1>3 DEF PopPublish
<1>5. overcounted' = (overcounted \/ want > Least(fill, want))
  BY <1>2, <1>3, Zenon DEF PopPublish
<1>6. UNCHANGED <<tuning, guard, gates, want, availBefore, acc, receiver, primed>>
  BY <1>4 DEF PopPublish
<1>7. CASE pc = "fastpop"
  <2>1. pc' = "leave"
    BY <1>7 DEF PopPublish, AfterPop, Goto
  <2> QED
    BY <1>4, <1>5, <1>6, <1>7, <2>1, Zenon DEF FastPop, Pop, Goto
<1>8. CASE pc = "pop"
  <2>1. pc' = "latch"
    BY <1>8 DEF PopPublish, AfterPop, Goto
  <2> QED
    BY <1>4, <1>5, <1>6, <1>8, <2>1, Zenon DEF SlowPop, Pop, Goto
<1> QED
  BY <1>1, <1>7, <1>8

LEMMA OwnerStepIsReceiver == OwnerStep => Receiver
BY DEF OwnerStep, Receiver

(* Only the pop of an underrun cycle may take less, when frames come while *)
(* it copies, than it would have taken at its end.                         *)
LEMMA RingSteps ==
  ASSUME RingInv, [RingNext]_ringVars
  PROVE  [Next]_vars \/ (PopPublish /\ pc = "underpop")
<1>1. CASE \E n \in 1..MaxBurst : PushStart(n)
  BY <1>1 DEF PushStart
<1>2. CASE PushPublish
  BY <1>2, PublishIsPush DEF Next, Receiver
<1>3. CASE PopStart
  BY <1>3 DEF PopStart
<1>4. CASE PopPublish
  BY <1>4, PublishIsPop DEF Next, getNewStream
<1>5. CASE CycleStep
  BY <1>5 DEF CycleStep, Next
<1>6. CASE OwnerStep
  BY <1>6, OwnerStepIsReceiver DEF Next
<1>7. CASE UNCHANGED ringVars
  BY <1>7 DEF ringVars
<1> QED
  BY <1>1, <1>2, <1>3, <1>4, <1>5, <1>6, <1>7 DEF RingNext

LEMMA UnderrunPublish ==
  ASSUME RingInv, PopPublish, pc = "underpop"
  PROVE  IInv' /\ HeadInv'
<1>1. /\ fill' = fill - granted /\ granted <= fill /\ pc' = "leave" /\ availBefore' = 0
      /\ UNCHANGED <<tuning, active, users, prefillDone, rebuffering, steadyState,
                     want, acc, owner, goal, primed>>
  BY DEF PopPublish, AfterPop, AvailAfterPop, Goto, guard, gates, receiver,
         RingInv, UnderWay
<1>2. overcounted' \in BOOLEAN
  BY Zenon DEF PopPublish
<1>3. FlagTypes'
  <2>1. FlagTypes
    BY DEF RingInv, IInv, TypeOK
  <2> QED
    BY <1>1, <1>2, <2>1, Zenon DEF FlagTypes
<1>4. fill' \in 0..Cap /\ fill' <= fill
  BY <1>1, Fills
<1>5. TypeOK'
  BY <1>1, <1>3, <1>4, SizeAssumption DEF RingInv, IInv, TypeOK, Guarded
<1>6. (OwnerAlone /\ RealPopCovered /\ UsersCounted /\ ActiveWhilePlaying /\ GatesAlongPath)'
  BY <1>1 DEF RingInv, IInv, OwnerAlone, RealPopCovered, UsersCounted,
              ActiveWhilePlaying, GatesAlongPath, Guarded
<1>7. HeadInv'
  <2>1. tuning.prefill \in Nat
    BY DEF RingInv, IInv, TypeOK
  <2>2. fill' >= tuning.prefill => fill >= tuning.prefill
    BY <2>1, <1>4, Fills
  <2> QED
    BY <1>1, <2>2 DEF RingInv, HeadInv
<1> QED
  BY <1>5, <1>6, <1>7 DEF IInv

LEMMA AtRest ==
  ASSUME NEW f \in 0..Cap, NEW b, b = 0
  PROVE  b \in 0..MaxBurst /\ f + b <= Cap
OBVIOUS

(* What each side has under way is left alone by the other: the owner      *)
(* finishes its push first, and empties the ring only with no pop inside.  *)
LEMMA UnderWayStep ==
  ASSUME RingInv, [RingNext]_ringVars, IInv'
  PROVE  UnderWay'
<1> USE Fills DEF UnderWay, FullPopsTakeAll
<1>0. UnderWay /\ TypeOK /\ OwnerAlone /\ RealPopCovered
  BY DEF RingInv, IInv
<1>1. ASSUME NEW n \in 1..MaxBurst, PushStart(n) PROVE UnderWay'
  <2>1. block' \in 0..MaxBurst /\ fill + block' <= Cap
    BY <1>1 DEF PushStart, Least
  <2>2. UNCHANGED <<fill, want, pc, owner, popping, granted>>
    BY <1>1 DEF PushStart, vars, sdkVars, receiver
  <2> QED
    BY <1>0, <1>1, <2>1, <2>2 DEF PushStart
<1>2. CASE PushPublish
  <2>1. UNCHANGED <<want, pc, owner, popping, granted>> /\ block' = 0 /\ fill' = fill + block
    BY <1>2 DEF PushPublish, sdkSide, sdkVars, receiver
  <2> QED
    BY <1>0, <2>1
<1>3. CASE PopStart
  <2>1. UNCHANGED <<fill, want, pc, owner, block>> /\ pc \in Pops
    BY <1>3 DEF PopStart, vars, sdkVars, receiver
  <2>2. popping' = TRUE /\ granted' = Least(fill, want)
    BY <1>3 DEF PopStart
  <2>3. granted' \in Nat /\ granted' <= fill /\ granted' <= want
    BY <2>2 DEF Least
  <2>4. pc # "underpop" => granted' = want
    BY <1>0, <2>1, <2>2 DEF RealPopCovered, Pops, Least
  <2> QED
    BY <1>0, <2>1, <2>2, <2>3, <2>4
<1>4. CASE PopPublish
  <2>1. UNCHANGED <<owner, block>> /\ popping' = FALSE /\ granted' = 0 /\ fill' = fill - granted
    BY <1>4 DEF PopPublish, receiver
  <2>2. granted <= fill
    BY <1>0, <1>4 DEF PopPublish
  <2>3. block' \in 0..MaxBurst /\ fill' + block' <= Cap
    BY <1>0, <2>1, <2>2
  <2>4. block' > 0 => owner' \in {"playing", "closed", "configured"}
    BY <1>0, <2>1
  <2>5. granted' \in Nat
    BY <2>1
  <2> QED
    BY <2>1, <2>3, <2>4, <2>5, Zenon
<1>5. CASE CycleStep
  <2>1. ~popping /\ UNCHANGED <<block, popping, granted>>
    BY <1>0, <1>5 DEF CycleStep, ring
  <2>2. UNCHANGED <<fill, owner>>
    BY <1>5 DEF CycleStep, Pops, getNewStream, BeginCycle, GuardCheck, GuardAnnounce,
                GuardRecheck, GuardLeave, TestSteady, FastPath, Gate1, Gate2, Gate3,
                UnderrunAccount, UnderrunPop, FastPop, SlowPop, Pop, LatchSteady, receiver
  <2>3. popping' \in BOOLEAN /\ ~popping' /\ block' = block /\ granted' = 0
    BY <1>0, <2>1, Zenon
  <2>4. block' \in 0..MaxBurst /\ fill' + block' <= Cap
    BY <1>0, <2>2, <2>3
  <2>5. block' > 0 => owner' \in {"playing", "closed", "configured"}
    BY <1>0, <2>2, <2>3
  <2>6. granted' \in Nat
    BY <2>3
  <2> QED
    BY <2>3, <2>4, <2>5, <2>6, Zenon
<1>6. CASE OwnerStep
  <2>1. block = 0 /\ UNCHANGED <<block, popping, granted>>
    BY <1>6 DEF OwnerStep, ring
  <2>2. fill' \in 0..Cap
    BY DEF IInv, TypeOK
  <2>3. CASE UNCHANGED <<fill, want, pc>>
    BY <1>0, <2>1, <2>2, <2>3
  <2>4. CASE owner \in Owning
    <3>1. ~popping
      BY <1>0, <2>4 DEF OwnerAlone, Pops, Guarded
    <3>2. popping' \in BOOLEAN /\ ~popping' /\ block' = 0 /\ granted' = 0
      BY <1>0, <2>1, <3>1, Zenon
    <3>3. block' \in 0..MaxBurst /\ fill' + block' <= Cap
      BY <2>2, <3>2, AtRest
    <3>4. ~(block' > 0) /\ granted' \in Nat
      BY <3>2
    <3> QED
      BY <3>2, <3>3, <3>4, Zenon
  <2>5. UNCHANGED <<fill, want, pc>> \/ owner \in Owning
    BY <1>6 DEF OwnerStep, Activate, ExitSteadyState, CloseGate, WaitForUsers,
                ResumeClear, ResumeReset, Resize, Reopen, Owning, sdkSide, sdkVars
  <2> QED
    BY <2>3, <2>4, <2>5
<1>7. CASE UNCHANGED ringVars
  BY <1>0, <1>7 DEF ringVars, ring, vars, sdkVars, receiver
<1> QED
  BY <1>1, <1>2, <1>3, <1>4, <1>5, <1>6, <1>7 DEF RingNext

LEMMA RingInvInit == RingInit => RingInv
<1> SUFFICES ASSUME RingInit PROVE RingInv
  OBVIOUS
<1>1. IInv /\ HeadInv
  BY InitInvariant, HeadInit DEF RingInit
<1>2. block = 0 /\ granted = 0 /\ fill = 0
  BY DEF RingInit, Init
<1>3. popping \in BOOLEAN /\ ~popping
  BY Zenon DEF RingInit
<1>4. UnderWay
  BY <1>2, <1>3, SizeAssumption DEF UnderWay, FullPopsTakeAll
<1> QED
  BY <1>1, <1>4 DEF RingInv

LEMMA RingInvStep == RingInv /\ [RingNext]_ringVars => RingInv'
<1> SUFFICES ASSUME RingInv, [RingNext]_ringVars PROVE RingInv'
  OBVIOUS
<1>1. IInv' /\ HeadInv'
  <2>1. CASE [Next]_vars
    BY <2>1, NextInvariant, HeadStep DEF RingInv
  <2>2. CASE PopPublish /\ pc = "underpop"
    BY <2>2, UnderrunPublish
  <2> QED
    BY <2>1, <2>2, RingSteps
<1> QED
  BY <1>1, UnderWayStep DEF RingInv

LEMMA RingInvariant == RingSpec => []RingInv
BY RingInvInit, RingInvStep, PTL DEF RingSpec

(* No pop is in progress in a ring that its owner clears, resizes or hands *)
(* to another Sync, between the return of deactivate() and activate().     *)
THEOREM RingClearedAtRest == RingSpec => []ClearedAtRest
<1>1. RingInv => ClearedAtRest
  BY DEF RingInv, IInv, UnderWay, OwnerAlone, ClearedAtRest, Pops, Guarded
<1> QED
  BY <1>1, RingInvariant, PTL

(* A pop that was promised real audio takes all of its block, whatever is  *)
(* pushed while it copies.                                                 *)
THEOREM FullPopsAreWhole == RingSpec => []FullPopsTakeAll
<1>1. RingInv => FullPopsTakeAll
  BY DEF RingInv, UnderWay
<1> QED
  BY <1>1, RingInvariant, PTL

-----------------------------------------------------------------------------
(* The refinement: a pop is SyncPull's when it starts, a push when it      *)
(* publishes; the end of a pop and the start of a push are stutters.       *)

(* What SyncPull sees of the send thread and of the ring; with no pop in   *)
(* progress that is the ring's own state.                                  *)
PulledFill == fill - granted
PulledPc == IF popping THEN AfterPop ELSE pc
PulledAvail == IF popping THEN AvailAfterPop ELSE availBefore
PulledOver == overcounted \/ (popping /\ counted > granted)

Seen == /\ PulledFill = fill /\ PulledPc = pc /\ PulledAvail = availBefore
        /\ PulledOver = overcounted

LEMMA SeenAtRest == RingInv /\ ~popping => Seen
<1> SUFFICES ASSUME RingInv, ~popping PROVE Seen
  OBVIOUS
<1>1. granted = 0
  BY DEF RingInv, UnderWay
<1>2. PulledFill = fill
  BY <1>1, Fills DEF PulledFill
<1>3. PulledOver = overcounted
  <2>1. overcounted \in BOOLEAN
    BY DEF RingInv, IInv, TypeOK, FlagTypes
  <2> QED
    BY <2>1, Zenon DEF PulledOver
<1> QED
  BY <1>2, <1>3, Zenon DEF PulledPc, PulledAvail, Seen

LEMMA PullInit == RingInit => Pull!Init
<1> SUFFICES ASSUME RingInit PROVE Pull!Init
  OBVIOUS
<1>1. RingInv /\ ~popping
  BY RingInvInit, Zenon DEF RingInit
<1>2. Seen /\ Init
  BY <1>1, SeenAtRest DEF RingInit
<1> QED
  BY <1>2, Zenon DEF Init, Pull!Init, Seen, PulledFill, PulledPc, PulledAvail, PulledOver

(* Outside a pop every step of getNewStream() is the same step of SyncPull. *)
LEMMA PullCycle ==
  ASSUME RingInv, Seen, Seen', CycleStep
  PROVE  Pull!getNewStream
<1> USE DEF Seen, PulledFill, PulledPc, PulledAvail, PulledOver, Goto, Pull!Goto,
            guard, gates, receiver, history,
            Pull!guard, Pull!gates, Pull!receiver, Pull!history
<1>1. ASSUME BeginCycle PROVE Pull!BeginCycle
  BY <1>1, Zenon DEF BeginCycle, Pull!BeginCycle, Carry, Pull!Carry
<1>2. ASSUME GuardCheck PROVE Pull!GuardCheck
  BY <1>2, Zenon DEF GuardCheck, Pull!GuardCheck
<1>3. ASSUME GuardAnnounce PROVE Pull!GuardAnnounce
  BY <1>3, Zenon DEF GuardAnnounce, Pull!GuardAnnounce
<1>4. ASSUME GuardRecheck PROVE Pull!GuardRecheck
  BY <1>4, Zenon DEF GuardRecheck, Pull!GuardRecheck, Admitted, Pull!Admitted
<1>5. ASSUME GuardLeave PROVE Pull!GuardLeave
  BY <1>5, Zenon DEF GuardLeave, Pull!GuardLeave, UsersAfterLeave, Pull!UsersAfterLeave
<1>6. ASSUME TestSteady PROVE Pull!TestSteady
  BY <1>6, Zenon DEF TestSteady, Pull!TestSteady
<1>7. ASSUME FastPath PROVE Pull!FastPath
  BY <1>7, Zenon DEF FastPath, Pull!FastPath
<1>8. ASSUME Gate1 PROVE Pull!Gate1
  BY <1>8, Zenon DEF Gate1, Pull!Gate1, Prefilled, Pull!Prefilled
<1>9. ASSUME Gate2 PROVE Pull!Gate2
  BY <1>9, Zenon DEF Gate2, Pull!Gate2
<1>10. ASSUME Gate3 PROVE Pull!Gate3
  BY <1>10, Zenon DEF Gate3, Pull!Gate3
<1>11. ASSUME UnderrunAccount PROVE Pull!UnderrunAccount
  BY <1>11, Zenon DEF UnderrunAccount, Pull!UnderrunAccount
<1>12. ASSUME LatchSteady PROVE Pull!LatchSteady
  BY <1>12, Zenon DEF LatchSteady, Pull!LatchSteady
<1>13. ~(UnderrunPop \/ FastPop \/ SlowPop)
  BY DEF CycleStep, Pops, UnderrunPop, FastPop, SlowPop, Pop
<1> QED
  BY <1>1, <1>2, <1>3, <1>4, <1>5, <1>6, <1>7, <1>8, <1>9, <1>10, <1>11, <1>12, <1>13,
     Zenon DEF CycleStep, getNewStream, Pull!getNewStream

LEMMA PullPop ==
  ASSUME RingInv, PopStart
  PROVE  Pull!FastPop \/ Pull!SlowPop \/ Pull!UnderrunPop
<1>1. Seen
  BY SeenAtRest DEF PopStart
<1>2. /\ pc \in Pops /\ popping' = TRUE /\ granted' = Least(fill, want)
      /\ UNCHANGED <<fill, want, pc, availBefore>> /\ overcounted' = overcounted
  BY DEF PopStart, vars, sdkVars, history
<1>3. /\ PulledFill' = PulledFill - Pull!Least(PulledFill, want)
      /\ Pull!Least(PulledFill, want) = granted'
  BY <1>1, <1>2, Zenon DEF PulledFill, Seen, Least, Pull!Least
<1>4. PulledPc' = AfterPop /\ PulledAvail' = AvailAfterPop
  BY <1>2 DEF PulledPc, PulledAvail, AfterPop, AvailAfterPop
<1>5. PulledOver' = (PulledOver \/ counted > granted')
  <2>1. counted' = counted
    BY <1>2 DEF counted
  <2> QED
    BY <1>1, <1>2, <2>1, Zenon DEF PulledOver, Seen
<1>6. UNCHANGED <<tuning, guard, gates, want, acc, receiver, primed>>
  BY DEF PopStart, vars, sdkVars, history
<1> USE DEF PulledFill, PulledPc, PulledAvail, PulledOver, Pull!Goto,
            Pull!guard, Pull!gates, Pull!receiver, guard, gates, receiver
<1>7. ASSUME pc = "fastpop" PROVE Pull!FastPop
  <2>1. AfterPop = "leave" /\ AvailAfterPop = availBefore /\ counted = want
    BY <1>7 DEF AfterPop, AvailAfterPop, counted
  <2> QED
    BY <1>1, <1>3, <1>4, <1>5, <1>6, <1>7, <2>1, Zenon DEF Seen, Pull!FastPop, Pull!Pop
<1>8. ASSUME pc = "pop" PROVE Pull!SlowPop
  <2>1. AfterPop = "latch" /\ AvailAfterPop = availBefore /\ counted = want
    BY <1>8 DEF AfterPop, AvailAfterPop, counted
  <2> QED
    BY <1>1, <1>3, <1>4, <1>5, <1>6, <1>8, <2>1, Zenon DEF Seen, Pull!SlowPop, Pull!Pop
<1>9. ASSUME pc = "underpop" PROVE Pull!UnderrunPop
  <2>1. AfterPop = "leave" /\ AvailAfterPop = 0 /\ counted = availBefore
    BY <1>9 DEF AfterPop, AvailAfterPop, counted
  <2> QED
    BY <1>1, <1>3, <1>4, <1>5, <1>6, <1>9, <2>1, Zenon DEF Seen, Pull!UnderrunPop
<1> QED
  BY <1>2, <1>7, <1>8, <1>9, Zenon DEF Pops

(* What a step leaves alone SyncPull sees left alone. *)
LEMMA PullStutters ==
  ASSUME UNCHANGED <<PulledFill, PulledPc, PulledAvail>>, PulledOver' = PulledOver,
         UNCHANGED <<tuning, guard, gates, want, acc, receiver, primed>>
  PROVE  UNCHANGED Pull!vars
BY Zenon DEF PulledFill, PulledPc, PulledAvail, PulledOver, Pull!vars, Pull!guard,
   Pull!gates, Pull!sdkVars, Pull!receiver, Pull!history, guard, gates, receiver

LEMMA PullUnchanged ==
  ASSUME UNCHANGED <<vars, popping, granted>>
  PROVE  UNCHANGED Pull!vars
<1>1. /\ UNCHANGED <<tuning, fill, guard, gates, pc, want, availBefore, acc, receiver, primed>>
      /\ overcounted' = overcounted
  BY DEF vars, sdkVars, history
<1>2. AfterPop' = AfterPop /\ AvailAfterPop' = AvailAfterPop /\ counted' = counted
  BY <1>1 DEF AfterPop, AvailAfterPop, counted
<1>3. UNCHANGED <<PulledFill, PulledPc, PulledAvail>> /\ PulledOver' = PulledOver
  BY <1>1, <1>2, Zenon DEF PulledFill, PulledPc, PulledAvail, PulledOver
<1> QED
  BY <1>1, <1>3, PullStutters

LEMMA PullEndOfPop ==
  ASSUME RingInv, RingInv', PopPublish
  PROVE  UNCHANGED Pull!vars
<1>1. popping /\ ~popping' /\ granted' = 0 /\ fill' = fill - granted /\ granted <= fill
  BY DEF PopPublish, RingInv, UnderWay
<1>2. PulledFill' = PulledFill
  BY <1>1, Fills DEF PulledFill
<1>3. PulledPc' = PulledPc /\ PulledAvail' = PulledAvail
  BY <1>1, Zenon DEF PulledPc, PulledAvail, PopPublish, Goto
<1>4. PulledOver' = PulledOver
  BY <1>1, Zenon DEF PulledOver, PopPublish
<1>5. UNCHANGED <<tuning, guard, gates, want, acc, receiver, primed>>
  BY DEF PopPublish
<1> QED
  BY <1>2, <1>3, <1>4, <1>5, PullStutters

LEMMA Overlap ==
  ASSUME NEW f \in Nat, NEW b \in Nat, NEW g \in Nat, NEW c \in Nat, g <= f, f + b <= c
  PROVE  (f + b) - g = (f - g) + b /\ (f - g) + b <= c /\ f - g \in Nat
OBVIOUS

(* A pop in progress belongs to a ring that has been primed, so that the   *)
(* frames it is taking do not matter to what a push does to that.          *)
LEMMA PullPush ==
  ASSUME RingInv, PushPublish
  PROVE  \E n \in 1..MaxBurst : Pull!Push(n)
<1>1. Push(block) /\ block \in 1..MaxBurst
  BY PublishIsPush
<1>2. /\ fill' = fill + block /\ fill + block <= Cap /\ granted' = granted /\ granted <= fill
      /\ owner \in {"playing", "closed", "configured"}
  <2>1. granted <= fill
    BY Fills DEF RingInv, UnderWay
  <2> QED
    BY <2>1, <1>1 DEF PushPublish, RingInv, UnderWay
<1>3. PulledFill' = Pull!Least(PulledFill + block, Cap)
  <2>1. (fill + block) - granted = (fill - granted) + block
        /\ (fill - granted) + block <= Cap /\ fill - granted \in Nat
    BY <1>2, Fills, Overlap
  <2>2. PulledFill' = PulledFill + block
    BY <1>2, <2>1, Zenon DEF PulledFill
  <2>3. PulledFill + block <= Cap /\ PulledFill \in Nat
    BY <2>1 DEF PulledFill
  <2>4. Pull!Least(PulledFill + block, Cap) = PulledFill + block
    BY <2>3, Fills DEF Pull!Least
  <2> QED
    BY <2>2, <2>4, Zenon
<1>4. primed' = (primed \/ PulledFill' >= tuning.prefill)
  <2>1. CASE popping
    <3>1. pc \in Pops /\ prefillDone
      BY <2>1, Zenon DEF RingInv, UnderWay, IInv, RealPopCovered, GatesAlongPath, Pops
    <3>2. owner \notin Owning
      BY <3>1 DEF RingInv, IInv, OwnerAlone, Pops, Guarded
    <3>3. primed
      BY <3>1, <3>2, Zenon DEF RingInv, HeadInv, Owning
    <3> QED
      BY <3>3, Zenon DEF PushPublish
  <2>2. CASE ~popping
    <3>1. granted = 0
      BY <2>2 DEF RingInv, UnderWay
    <3>2. PulledFill' = fill'
      BY <3>1, <1>2, Fills DEF PulledFill
    <3> QED
      BY <3>2, Zenon DEF PushPublish
  <2> QED
    BY <2>1, <2>2
<1>5. UNCHANGED <<tuning, active, gates, receiver, users, pc, want, availBefore, acc,
                  popping, granted>> /\ overcounted' = overcounted
  BY DEF PushPublish, sdkSide, sdkVars
<1>6. PulledPc' = PulledPc /\ PulledAvail' = PulledAvail /\ PulledOver' = PulledOver
  <2>1. AfterPop' = AfterPop /\ AvailAfterPop' = AvailAfterPop /\ counted' = counted
    BY <1>5 DEF AfterPop, AvailAfterPop, counted
  <2> QED
    BY <1>5, <2>1, Zenon DEF PulledPc, PulledAvail, PulledOver
<1>7. Pull!Push(block)
  BY <1>2, <1>3, <1>4, <1>5, <1>6, Zenon
     DEF Pull!Push, Pull!gates, Pull!receiver, Pull!sdkSide, Pull!sdkVars, gates, receiver,
         PulledFill, PulledPc, PulledAvail, PulledOver
<1> QED
  BY <1>1, <1>7

(* The owner's steps are SyncPull's; those that touch the ring or start a  *)
(* new Sync find no pop in progress.                                       *)
LEMMA PullOwner ==
  ASSUME RingInv, OwnerStep,
         RingInv' /\ ~popping' => Seen'
  PROVE  Pull!Receiver
<1> USE DEF Pull!gates, Pull!receiver, Pull!sdkSide, Pull!sdkVars, gates, receiver,
            PulledFill, PulledPc, PulledAvail, PulledOver
<1>1. UNCHANGED <<block, popping, granted>> /\ RingInv'
  BY RingInvStep DEF OwnerStep, ring, RingNext
<1>2. ASSUME UNCHANGED <<fill, sdkSide>>
      PROVE  /\ UNCHANGED <<PulledFill, PulledPc, PulledAvail, want, acc, users>>
             /\ PulledOver' = PulledOver
  <2>1. UNCHANGED <<fill, pc, want, availBefore, acc, users>> /\ overcounted' = overcounted
    BY <1>2 DEF sdkSide, sdkVars
  <2>2. AfterPop' = AfterPop /\ AvailAfterPop' = AvailAfterPop /\ counted' = counted
    BY <2>1 DEF AfterPop, AvailAfterPop, counted
  <2> QED
    BY <1>1, <2>1, <2>2, Zenon
<1>3. ASSUME Activate PROVE Pull!Activate
  BY <1>2, <1>3, Zenon DEF Activate, Pull!Activate
<1>4. ASSUME NEW g \in {"paused", "closed"}, ExitSteadyState(g) PROVE Pull!ExitSteadyState(g)
  BY <1>2, <1>4, Zenon DEF ExitSteadyState, Pull!ExitSteadyState
<1>5. ASSUME CloseGate PROVE Pull!CloseGate
  BY <1>2, <1>5, Zenon DEF CloseGate, Pull!CloseGate
<1>6. ASSUME WaitForUsers PROVE Pull!WaitForUsers
  BY <1>2, <1>6, Zenon DEF WaitForUsers, Pull!WaitForUsers
<1>7. ASSUME owner \in Owning PROVE Seen /\ Seen'
  <2>1. ~popping
    BY <1>7 DEF RingInv, UnderWay, IInv, OwnerAlone, Pops, Guarded
  <2>2. ~popping'
    BY <1>1, <2>1, Zenon
  <2> QED
    BY <1>1, <2>1, <2>2, SeenAtRest
<1> USE DEF Seen
<1>8. ASSUME ResumeClear PROVE Pull!ResumeClear
  <2>1. Seen /\ Seen'
    BY <1>7, <1>8 DEF ResumeClear, Owning
  <2> QED
    BY <1>8, <2>1, Zenon DEF ResumeClear, Pull!ResumeClear, sdkSide, sdkVars
<1>9. ASSUME ResumeReset PROVE Pull!ResumeReset
  <2>1. Seen /\ Seen'
    BY <1>7, <1>9 DEF ResumeReset, Owning
  <2> QED
    BY <1>9, <2>1, Zenon DEF ResumeReset, Pull!ResumeReset, resetGate, Pull!resetGate,
       sdkSide, sdkVars
<1>10. ASSUME Resize PROVE Pull!Resize
  <2>1. Seen /\ Seen'
    BY <1>7, <1>10 DEF Resize, Owning
  <2> QED
    BY <1>10, <2>1, Zenon DEF Resize, Pull!Resize, sdkSide, sdkVars
<1>11. ASSUME Reopen PROVE Pull!Reopen
  <2>1. Seen /\ Seen'
    BY <1>7, <1>11 DEF Reopen, Owning
  <2> QED
    BY <1>11, <2>1, Zenon DEF Reopen, Pull!Reopen, resetGate, Pull!resetGate
<1> QED
  BY <1>3, <1>4, <1>5, <1>6, <1>8, <1>9, <1>10, <1>11, Zenon DEF OwnerStep, Pull!Receiver

LEMMA PullStep ==
  ASSUME RingInv, [RingNext]_ringVars, RingInv' /\ ~popping' => Seen'
  PROVE  [Pull!Next]_Pull!vars
<1>1. RingInv'
  BY RingInvStep
<1>2. ASSUME NEW n \in 1..MaxBurst, PushStart(n) PROVE UNCHANGED Pull!vars
  <2>1. UNCHANGED <<vars, popping, granted>>
    BY <1>2 DEF PushStart
  <2> QED
    BY <2>1, PullUnchanged
<1>3. CASE PushPublish
  BY <1>3, PullPush DEF Pull!Next, Pull!Receiver
<1>4. CASE PopStart
  BY <1>4, PullPop DEF Pull!Next, Pull!getNewStream
<1>5. CASE PopPublish
  BY <1>1, <1>5, PullEndOfPop
<1>6. CASE CycleStep
  <2>1. ~popping
    BY <1>6 DEF CycleStep, RingInv, UnderWay
  <2>2. ~popping'
    BY <1>6, <2>1, Zenon DEF CycleStep, ring
  <2> QED
    BY <1>1, <1>6, <2>1, <2>2, SeenAtRest, PullCycle DEF Pull!Next
<1>7. CASE OwnerStep
  BY <1>7, PullOwner DEF Pull!Next
<1>8. CASE UNCHANGED ringVars
  <2>1. UNCHANGED <<vars, popping, granted>>
    BY <1>8 DEF ringVars, ring
  <2> QED
    BY <2>1, PullUnchanged
<1> QED
  BY <1>2, <1>3, <1>4, <1>5, <1>6, <1>7, <1>8 DEF RingNext

(* SyncPull on a ring whose pushes and pops overlap is still SyncPull: the *)
(* gates, the guard and the owner see a push as one step, at its publish,  *)
(* and a pop as one step, at its load.                                     *)
THEOREM RingPullImplementsSyncPull == RingSpec => ImplementsSyncPull
<1>1. RingInit => Pull!Init
  BY PullInit
<1>2. RingInv /\ [RingNext]_ringVars /\ (RingInv' /\ ~popping' => Seen') => [Pull!Next]_Pull!vars
  BY PullStep
<1>3. RingInv /\ ~popping => Seen
  BY SeenAtRest
<1> QED
  BY <1>1, <1>2, <1>3, RingInvariant, PTL DEF RingSpec, ImplementsSyncPull, Pull!Spec

(* What RealPopCovered and OwnerAlone say of SyncPull's fill holds of the  *)
(* indices themselves: a full pop has its block between them, and the      *)
(* owner of a deactivated ring is alone in it.                             *)
THEOREM RingKeepsSafety == RingSpec => [](OwnerAlone /\ RealPopCovered)
<1>1. RingInv => OwnerAlone /\ RealPopCovered
  BY DEF RingInv, IInv
<1> QED
  BY <1>1, RingInvariant, PTL

(* The head of a track survives priming on the ring as well: m_readPos     *)
(* does not move before the fill has reached the prefill threshold.        *)
THEOREM RingKeepsHeads == RingSpec => HeadSurvives
<1>1. ASSUME RingInv, PopPublish, pc = "underpop" PROVE primed
  <2>1. prefillDone
    BY <1>1, Zenon DEF RingInv, IInv, GatesAlongPath
  <2>2. owner \notin Owning
    BY <1>1 DEF RingInv, IInv, OwnerAlone, Guarded
  <2> QED
    BY <1>1, <2>1, <2>2, Zenon DEF RingInv, HeadInv, Owning
<1>2. RingInv /\ [RingNext]_ringVars
        => [fill' < fill => primed \/ owner \in {"paused", "closed"}]_vars
  BY <1>1, RingSteps, HeadStep DEF RingInv
<1> QED
  BY <1>2, RingInvariant, PTL DEF RingSpec, HeadSurvives
=============================================================================
