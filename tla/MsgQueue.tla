------------------------------- MODULE MsgQueue -------------------------------
(* What the message ring of a modem promises: a bounded queue that may be     *)
(* emptied (modem.c, ModemMsgPut and ModemMsgGet).                            *)
EXTENDS Naturals, Sequences

CONSTANTS Items, NoItem, Capacity

VARIABLES
  queue,
  hand,         \* the message last taken out, which its reader may still be looking at
  closed        \* changes when the modem is closed

Put ==
  /\ Len(queue) < Capacity
  /\ \E i \in Items : queue' = Append(queue, i)
  /\ UNCHANGED <<hand, closed>>

Get == queue # <<>> /\ hand' = Head(queue) /\ queue' = Tail(queue) /\ UNCHANGED closed

Close == queue' = <<>> /\ hand' = NoItem /\ closed' = ~closed

Init == queue = <<>> /\ hand = NoItem /\ closed = FALSE

Next == Put \/ Get \/ Close

Spec == Init /\ [][Next]_<<queue, hand, closed>>
=============================================================================
