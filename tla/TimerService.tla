----------------------------- MODULE TimerService -----------------------------
(***************************************************************************)
(* What the timer table promises its users, as calls they make and get.    *)
(* After a set the event has a live timer, perhaps one it had before; a    *)
(* live timer goes only by a delete of its event or by the call that tells *)
(* that it expired.                                                        *)
(***************************************************************************)
CONSTANTS Events, Ids, NoCall

VARIABLES
  live,       \* the live timers of each event
  call        \* the last call made by or to the user

Init == live = [e \in Events |-> {}] /\ call = NoCall

Used == UNION {live[e] : e \in Events}

Set(e) ==
  /\ call' = <<"set", e>>
  /\ \/ live[e] # {} /\ UNCHANGED live
     \/ \E id \in Ids \ Used : live' = [live EXCEPT ![e] = @ \cup {id}]

Removed(e, kind) ==
  /\ call' = <<kind, e>>
  /\ \E id \in live[e] : live' = [live EXCEPT ![e] = @ \ {id}]

Delete(e) == Removed(e, "delete")
Expire(e) == Removed(e, "expire")

Next == \E e \in Events : Set(e) \/ Delete(e) \/ Expire(e)

Spec == Init /\ [][Next]_<<live, call>>
=============================================================================
