------------------------------ MODULE MsgFifo ------------------------------
(***************************************************************************)
(* What the message queue promises: messages leave it whole, each one      *)
(* once, in the order in which their SendMessage calls took effect.        *)
(* ReadHeadMessage answers with the oldest message and leaves it there;    *)
(* DeleteHeadMessage removes it.  got[r] is the message the current or     *)
(* last call of reader r handed over (NoMsg if none); it is cleared when   *)
(* the reader starts another call or dies.                                 *)
(***************************************************************************)
EXTENDS Sequences

CONSTANTS
  Messages,   \* what can be sent
  Readers,    \* the processes that take messages out
  NoMsg       \* not a message

VARIABLES queue, got

fifoVars == <<queue, got>>

Init ==
  /\ queue = << >>
  /\ got = [r \in Readers |-> NoMsg]

Put(m) ==
  /\ queue' = Append(queue, m)
  /\ UNCHANGED got

Take(r) ==
  /\ queue # << >>
  /\ queue' = Tail(queue)
  /\ got' = [got EXCEPT ![r] = Head(queue)]

Peek(r) ==
  /\ queue # << >>
  /\ got' = [got EXCEPT ![r] = Head(queue)]
  /\ UNCHANGED queue

Drop(r) ==
  /\ queue # << >>
  /\ queue' = Tail(queue)
  /\ UNCHANGED got

Clear(r) ==
  /\ got' = [got EXCEPT ![r] = NoMsg]
  /\ UNCHANGED queue

Next ==
  \/ \E m \in Messages : Put(m)
  \/ \E r \in Readers : Take(r) \/ Peek(r) \/ Drop(r) \/ Clear(r)

Spec == Init /\ [][Next]_fifoVars
=============================================================================
