-------------------------- MODULE RestartableFifo --------------------------
(***************************************************************************)
(* What is left of MsgFifo's promise when programs may create the queue    *)
(* again while it is in use.  A creation that nobody's call overlaps       *)
(* flushes the queue and nothing else; one that a call overlaps, or that   *)
(* dies half-way, voids the promise until the next undisturbed creation.   *)
(***************************************************************************)
EXTENDS MsgFifo

VARIABLE phase   \* "sound", "restarting" (a creation is under way), "broken"

restartableVars == <<queue, got, phase>>

RestartableInit == Init /\ phase = "sound"

Work == phase = "sound" /\ Next /\ UNCHANGED phase

Restart ==
  /\ phase = "sound"
  /\ phase' = "restarting"
  /\ UNCHANGED <<queue, got>>

\* Also heals a broken queue.  A call that is refused for its parameters
\* may forget what its process got before.
Flush ==
  /\ phase # "sound"
  /\ phase' = "sound"
  /\ queue' = << >>
  /\ UNCHANGED got

Refuse ==
  /\ phase = "restarting"
  /\ \E r \in Readers : Clear(r)
  /\ UNCHANGED phase

Break == phase' = "broken"

RestartableNext == Work \/ Restart \/ Flush \/ Refuse \/ Break

RestartableSpec == RestartableInit /\ [][RestartableNext]_restartableVars
=============================================================================
