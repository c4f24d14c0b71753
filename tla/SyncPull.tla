------------------------------ MODULE SyncPull ------------------------------
(***************************************************************************)
(* ScreamDirettaSync (diretta_sync.cpp) against its owner.                 *)
(*                                                                         *)
(* The SDK send thread calls getNewStream() once per cycle: RingUserGuard, *)
(* then the steady-state fast path or the prefill, rebuffer and underrun   *)
(* gates.  The receiver thread owns the ring: it pushes, and it pauses,    *)
(* resumes, tears down and reopens the Sync, clearing or resizing the ring *)
(* in between, relying on deactivate() to keep the send thread out.        *)
(*                                                                         *)
(* The ring is its fill in whole frames, and a push or a pop changes it in *)
(* one step; RingPull cuts them as diretta_ring.h does and implements this *)
(* module.  One step of the send thread holds at most one access to a      *)
(* variable the owner may change.                                          *)
(***************************************************************************)
EXTENDS Integers

CONSTANTS Cap,          \* whole frames the ring can hold
          Tunings,      \* records [prefill, rebuffer]: the two thresholds
          Base,         \* m_streamBytes in frames
          BPF,          \* bytes per frame
          Remainder,    \* m_cycleRemainder, bytes truncated per cycle
          MaxBurst      \* frames of one pushFrames call

ASSUME SizeAssumption ==
  /\ Cap \in Nat /\ Base \in Nat \ {0} /\ MaxBurst \in Nat
  /\ BPF \in Nat \ {0} /\ Remainder \in 0..(BPF - 1)
ASSUME TuningAssumption ==
  \A t \in Tunings : t.prefill \in Nat /\ t.rebuffer \in Nat

VARIABLES tuning,       \* m_prefillBytes and the rebuffer target, in frames
          fill,         \* m_ring->available(), in frames
          active,       \* m_active
          users,        \* m_ringUsers
          prefillDone, rebuffering, steadyState,
          acc,          \* m_cycleRemainderAccumulator
          pc,           \* where the send thread is in getNewStream()
          want,         \* frames of the cycle in progress
          availBefore,  \* Gate 3's avail_before
          owner,        \* where the receiver thread is
          goal,         \* what its deactivate() is for
          primed,       \* history: since the gates were last reset the fill
                        \*   has reached the prefill threshold
          overcounted   \* history: a cycle counted as popped more bytes
                        \*   than it took

gates   == <<prefillDone, rebuffering, steadyState>>
guard   == <<active, users>>
sdkVars == <<pc, want, availBefore, acc>>
receiver == <<owner, goal>>
history == <<primed, overcounted>>
vars    == <<tuning, fill, guard, gates, sdkVars, receiver, history>>

Least(a, b) == IF a < b THEN a ELSE b

(* getNewStream() with the guard held: every step that touches the ring. *)
Guarded == {"steady", "fast", "fastpop", "gate1", "gate2", "gate3",
            "account", "underpop", "pop", "latch", "leave"}
(* The owner is between deactivate() and the next activate(). *)
Owning == {"paused", "cleared", "rearmed", "closed", "configured"}

Init ==
  /\ tuning \in Tunings
  /\ fill = 0
  /\ active = FALSE /\ users = 0
  /\ prefillDone = FALSE /\ rebuffering = FALSE /\ steadyState = FALSE
  /\ acc = 0 /\ want = 0 /\ availBefore = 0
  /\ pc = "idle" /\ owner = "configured" /\ goal = "closed"
  /\ primed = (tuning.prefill = 0) /\ overcounted = FALSE

-----------------------------------------------------------------------------
(* The send thread. *)

Goto(l) == pc' = l

(* The truncated bytes the next cycle starts from. *)
CarryAll(sum) == sum                  \* mutant: the added frame is not paid back
Carry(sum) == IF sum >= BPF THEN sum - BPF ELSE sum

(* A cycle begins: the drift compensation adds a frame whenever the        *)
(* truncated bytes have added up to one.                                   *)
BeginCycle ==
  LET sum == acc + Remainder
  IN  /\ pc = "idle"
      /\ want' = IF sum >= BPF THEN Base + 1 ELSE Base
      /\ acc'  = Carry(sum)
      /\ Goto("check")
      /\ UNCHANGED <<tuning, fill, guard, gates, availBefore, receiver, history>>

(* RingUserGuard: look, announce, look again. *)
GuardCheck ==
  /\ pc = "check"
  /\ Goto(IF active THEN "announce" ELSE "idle")
  /\ UNCHANGED <<tuning, fill, guard, gates, want, availBefore, acc, receiver, history>>

GuardAnnounce ==
  /\ pc = "announce"
  /\ users' = users + 1
  /\ Goto("recheck")
  /\ UNCHANGED <<tuning, fill, active, gates, want, availBefore, acc, receiver, history>>

AdmittedUnchecked == "steady"         \* mutant: no second look
Admitted == IF active THEN "steady" ELSE "rollback"

GuardRecheck ==
  /\ pc = "recheck"
  /\ Goto(Admitted)
  /\ UNCHANGED <<tuning, fill, guard, gates, want, availBefore, acc, receiver, history>>

(* Leaving the guard, after a cycle or after losing the race: silence or   *)
(* the filled buffer goes to the SDK.                                      *)
UsersAfterLeaveLeaky == IF pc = "leave" THEN users - 1 ELSE users   \* mutant
UsersAfterLeave == users - 1

GuardLeave ==
  /\ pc \in {"rollback", "leave"}
  /\ users' = UsersAfterLeave
  /\ Goto("idle")
  /\ UNCHANGED <<tuning, fill, active, gates, want, availBefore, acc, receiver, history>>

(* The fast path, taken on the strength of m_steadyState alone. *)
TestSteady ==
  /\ pc = "steady"
  /\ Goto(IF steadyState THEN "fast" ELSE "gate1")
  /\ UNCHANGED <<tuning, fill, guard, gates, want, availBefore, acc, receiver, history>>

FastPath ==
  /\ pc = "fast"
  /\ IF fill >= want THEN Goto("fastpop") /\ UNCHANGED steadyState
                     ELSE Goto("gate1") /\ steadyState' = FALSE
  /\ UNCHANGED <<tuning, fill, guard, prefillDone, rebuffering, want, availBefore,
                 acc, receiver, history>>

(* Gate 1: silence, popping nothing, until the ring holds the prefill. *)
PrefilledOver == fill > tuning.prefill                 \* mutant: off by one
Prefilled == tuning.prefill = 0 \/ fill >= tuning.prefill

Gate1 ==
  /\ pc = "gate1"
  /\ \/ /\ prefillDone \/ Prefilled
        /\ prefillDone' = TRUE
        /\ Goto("gate2")
     \/ /\ ~prefillDone /\ ~Prefilled
        /\ Goto("leave") /\ UNCHANGED prefillDone
  /\ UNCHANGED <<tuning, fill, guard, rebuffering, steadyState, want, availBefore,
                 acc, receiver, history>>

(* Gate 2: after an underrun, silence until the fill is back at the target. *)
Gate2 ==
  /\ pc = "gate2"
  /\ \/ /\ ~rebuffering \/ fill >= tuning.rebuffer
        /\ rebuffering' = FALSE
        /\ Goto("gate3")
     \/ /\ rebuffering /\ fill < tuning.rebuffer
        /\ Goto("leave") /\ UNCHANGED rebuffering
  /\ UNCHANGED <<tuning, fill, guard, prefillDone, steadyState, want, availBefore,
                 acc, receiver, history>>

(* Gate 3: a cycle that cannot be covered arms rebuffering. *)
Gate3 ==
  /\ pc = "gate3"
  /\ IF fill < want THEN Goto("account") /\ rebuffering' = TRUE
                    ELSE Goto("pop") /\ UNCHANGED rebuffering
  /\ UNCHANGED <<tuning, fill, guard, prefillDone, steadyState, want, availBefore,
                 acc, receiver, history>>

UnderrunAccount ==
  /\ pc = "account"
  /\ availBefore' = fill
  /\ Goto("underpop")
  /\ UNCHANGED <<tuning, fill, guard, gates, want, acc, receiver, history>>

(* popOrSilence() of the underrun cycle, then m_poppedBytes += avail_before. *)
UnderrunPop ==
  LET taken == Least(fill, want)
  IN  /\ pc = "underpop"
      /\ fill' = fill - taken
      /\ overcounted' = (overcounted \/ availBefore > taken)
      /\ availBefore' = 0
      /\ Goto("leave")
      /\ UNCHANGED <<tuning, guard, gates, want, acc, receiver, primed>>

(* popOrSilence() of a covered cycle, then m_poppedBytes += want. *)
Pop(here, there) ==
  LET taken == Least(fill, want)
  IN  /\ pc = here
      /\ fill' = fill - taken
      /\ overcounted' = (overcounted \/ want > taken)
      /\ Goto(there)
      /\ UNCHANGED <<tuning, guard, gates, want, availBefore, acc, receiver, primed>>

FastPop == Pop("fastpop", "leave")
SlowPop == Pop("pop", "latch")

LatchSteady ==
  /\ pc = "latch"
  /\ steadyState' = TRUE
  /\ Goto("leave")
  /\ UNCHANGED <<tuning, fill, guard, prefillDone, rebuffering, want, availBefore,
                 acc, receiver, history>>

getNewStream ==
  \/ BeginCycle \/ GuardCheck \/ GuardAnnounce \/ GuardRecheck \/ GuardLeave
  \/ TestSteady \/ FastPath \/ Gate1 \/ Gate2 \/ Gate3
  \/ UnderrunAccount \/ UnderrunPop \/ FastPop \/ SlowPop \/ LatchSteady

-----------------------------------------------------------------------------
(* The receiver thread. *)

sdkSide == <<sdkVars, users, overcounted>>

(* Ingress runs whether or not a Sync is open, but not while the thread    *)
(* is inside deactivate() or paused without packets.                       *)
Push(n) ==
  /\ owner \in {"playing", "closed", "configured"}
  /\ fill' = Least(fill + n, Cap)
  /\ primed' = (primed \/ fill' >= tuning.prefill)
  /\ UNCHANGED <<tuning, active, gates, receiver, sdkSide>>

Activate ==
  /\ owner \in {"configured", "rearmed"}
  /\ active' = TRUE
  /\ owner' = "playing"
  /\ UNCHANGED <<tuning, fill, gates, goal, primed, sdkSide>>

(* deactivate(), for a pause or a teardown: the flag of the fast path, the *)
(* gate, and the wait for the guard's users.  A paused Sync is deactivated *)
(* once more when it is released, one that never played when it is         *)
(* discarded.                                                              *)
ExitSteadyState(g) ==
  /\ owner \in IF g = "paused" THEN {"playing"} ELSE {"playing", "paused", "configured"}
  /\ steadyState' = FALSE
  /\ owner' = "exiting" /\ goal' = g
  /\ UNCHANGED <<tuning, fill, active, prefillDone, rebuffering, primed, sdkSide>>

CloseGate ==
  /\ owner = "exiting"
  /\ active' = FALSE
  /\ owner' = "waiting"
  /\ UNCHANGED <<tuning, fill, gates, goal, primed, sdkSide>>

WaitForUsers ==
  /\ owner = "waiting" /\ users = 0
  /\ owner' = goal
  /\ UNCHANGED <<tuning, fill, active, gates, goal, primed, sdkSide>>

(* Packets come back to a paused Sync: queue.clear(), resetGate(),         *)
(* activate().                                                             *)
ResumeClear ==
  /\ owner = "paused"
  /\ fill' = 0
  /\ primed' = (tuning.prefill = 0)
  /\ owner' = "cleared"
  /\ UNCHANGED <<tuning, active, gates, goal, sdkSide>>

(* mutants: one flag forgotten *)
resetGateKeepsSteady ==
  prefillDone' = FALSE /\ rebuffering' = FALSE /\ UNCHANGED steadyState
resetGateKeepsPrefill ==
  UNCHANGED prefillDone /\ rebuffering' = FALSE /\ steadyState' = FALSE
resetGate == prefillDone' = FALSE /\ rebuffering' = FALSE /\ steadyState' = FALSE

ResumeReset ==
  /\ owner = "cleared"
  /\ resetGate
  /\ owner' = "rearmed"
  /\ UNCHANGED <<tuning, fill, active, goal, primed, sdkSide>>

(* A format change resizes the ring once its Sync is closed. *)
Resize ==
  /\ owner = "closed"
  /\ fill' = 0
  /\ primed' = (tuning.prefill = 0)
  /\ UNCHANGED <<tuning, active, gates, owner, goal, sdkSide>>

(* A new Sync on the same ring: configureFormat().  The old object's last  *)
(* cycle no longer matters, it only ever sees its own m_active.            *)
Reopen ==
  /\ owner = "closed"
  /\ tuning' \in Tunings
  /\ resetGate
  /\ primed' = (fill >= tuning'.prefill)
  /\ acc' = 0 /\ want' = 0 /\ availBefore' = 0 /\ users' = 0 /\ pc' = "idle"
  /\ owner' = "configured"
  /\ UNCHANGED <<fill, active, goal, overcounted>>

Receiver ==
  \/ \E n \in 1..MaxBurst : Push(n)
  \/ Activate
  \/ \E g \in {"paused", "closed"} : ExitSteadyState(g)
  \/ CloseGate \/ WaitForUsers
  \/ ResumeClear \/ ResumeReset \/ Resize \/ Reopen

Next == getNewStream \/ Receiver

Spec == Init /\ [][Next]_vars

(* The SDK calls getNewStream() cycle after cycle and its thread is        *)
(* scheduled; a deactivate() in progress goes on; packets keep coming.     *)
Fairness ==
  /\ WF_vars(getNewStream)
  /\ WF_vars(CloseGate) /\ WF_vars(WaitForUsers)
  /\ WF_vars(\E n \in 1..MaxBurst : Push(n))
FairSpec == Spec /\ Fairness

-----------------------------------------------------------------------------
(* Properties. *)

FlagTypes ==
  /\ active \in BOOLEAN
  /\ prefillDone \in BOOLEAN /\ rebuffering \in BOOLEAN /\ steadyState \in BOOLEAN
  /\ primed \in BOOLEAN /\ overcounted \in BOOLEAN

(* Type invariant: one user at most, less than a frame owed to the SDK. *)
TypeOK ==
  /\ FlagTypes
  /\ tuning \in Tunings
  /\ fill \in 0..Cap
  /\ users \in 0..1
  /\ acc \in 0..(BPF - 1)
  /\ want \in {0, Base, Base + 1} /\ availBefore \in 0..Cap
  /\ pc \in {"idle", "check", "announce", "recheck", "rollback"} \cup Guarded
  /\ owner \in {"playing", "exiting", "waiting"} \cup Owning
  /\ goal \in {"paused", "closed"}

(* After deactivate() has returned no cycle is inside the ring, so that    *)
(* the owner may clear, resize or rearm: "the owner is guaranteed no SDK   *)
(* pull is inside m_ring access".                                          *)
OwnerAlone == owner \in Owning => pc \notin Guarded

(* A cycle that goes on to pop a full block, by the fast path or through   *)
(* the gates, does so with the prefill passed, no rebuffering in force and *)
(* the whole block in the ring, so "the bytes are guaranteed real": across *)
(* pauses, resumes and reopens the fast path never runs on a stale flag.   *)
RealPopCovered ==
  pc \in {"fastpop", "pop"} => prefillDone /\ ~rebuffering /\ fill >= want

(* Strengthening that makes both inductive.  UsersCounted: the counter is  *)
(* one exactly between the announcement and the leave.  ActiveWhilePlaying *)
(* ties m_active to the owner's progress.  GatesAlongPath: what each label *)
(* of getNewStream() knows of the gate flags.                              *)
UsersCounted == users = IF pc \in Guarded \cup {"recheck", "rollback"} THEN 1 ELSE 0
ActiveWhilePlaying == active => owner \in {"playing", "exiting"}
GatesAlongPath ==
  /\ steadyState => prefillDone /\ ~rebuffering
  /\ pc = "fast" => prefillDone /\ ~rebuffering
  /\ pc \in {"gate1", "gate2", "gate3", "account", "underpop", "pop", "latch"}
       => ~steadyState
  /\ pc \in {"gate2", "gate3", "account", "underpop", "pop", "latch"} => prefillDone
  /\ pc \in {"gate3", "pop", "latch"} => ~rebuffering

(* The head of a track survives priming: the send thread takes nothing     *)
(* from the ring before the fill has reached the prefill threshold since   *)
(* the ring was last emptied or the Sync opened.                           *)
HeadSurvives ==
  [][fill' < fill => primed \/ owner \in {"paused", "closed"}]_vars

(* deactivate() returns: its wait cannot be kept up by new cycles. *)
DeactivateReturns == owner = "waiting" ~> owner \in {"paused", "closed"}

(* While a Sync plays and packets come, audio keeps leaving the ring: the  *)
(* prefill and rebuffer gates never hold silence for good.                 *)
PlaybackFlows ==
  <>[](owner = "playing") =>
    []<>(pc \in {"fastpop", "pop", "underpop"} /\ fill > 0)

(* "dump only the bytes that were actually real PCM (the part popOrSilence *)
(* padded with silence at the tail does not count ...)": no cycle counts,  *)
(* or shows to the analyser, the fader and the dumper, more bytes than it  *)
(* took from the ring.                                                     *)
OnlyPoppedBytesCounted == ~overcounted
=============================================================================
