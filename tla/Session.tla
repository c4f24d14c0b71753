------------------------------ MODULE Session ------------------------------
(***************************************************************************)
(* What the backend promises of its session with the Target, whatever the  *)
(* open worker, the timers, the cleanup threads and the network do: there  *)
(* is at most one; it is opened for the format the queue then holds, ends  *)
(* before that format changes, is the only one to be let into the queue    *)
(* while it is not paused, and none is opened after the end.               *)
(***************************************************************************)
CONSTANTS Formats, None

VARIABLES phase,     \* of the session with the Target
          plays,     \* the format it was opened for
          wanted     \* the format of the queue
session == <<phase, plays, wanted>>

Running == {"playing", "paused"}

Init == phase = "silent" /\ plays = None /\ wanted = None

Want(f) ==
  /\ phase = "silent" /\ wanted # f
  /\ wanted' = f /\ UNCHANGED <<phase, plays>>

Open ==
  /\ phase = "silent" /\ wanted # None
  /\ phase' = "playing" /\ plays' = wanted /\ UNCHANGED wanted

Pause ==
  /\ phase = "playing" /\ phase' = "paused" /\ UNCHANGED <<plays, wanted>>

Resume ==
  /\ phase = "paused" /\ phase' = "playing" /\ UNCHANGED <<plays, wanted>>

Drop ==
  /\ phase \in Running
  /\ phase' = "silent" /\ plays' = None /\ UNCHANGED wanted

End ==
  /\ phase # "ended"
  /\ phase' = "ended" /\ plays' = None /\ UNCHANGED wanted

Next == (\E f \in Formats : Want(f)) \/ Open \/ Pause \/ Resume \/ Drop \/ End
Spec == Init /\ [][Next]_session
=============================================================================
