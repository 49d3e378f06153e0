-------------------------------- MODULE MsgRing --------------------------------
(***************************************************************************)
(* The messages queued for a modem, modem.c: a ring that one thread puts   *)
(* into and another gets from, with no lock.  A put looks at the indices,  *)
(* stores the message and then moves its index.  A get hands out a pointer *)
(* into the ring and moves its index with two stores: until the second the *)
(* index may be MAX_MSG_NUM, which no test for a full ring recognises.     *)
(*                                                                         *)
(* Closing or starting a modem clears the ring, whatever its threads do.   *)
(***************************************************************************)
EXTENDS Naturals, Sequences

CONSTANTS
  Items,          \* the messages
  NoItem,         \* a cleared slot
  MsgNum          \* slots of the ring (MAX_MSG_NUM, 5)

ASSUME ItemsAssumption == NoItem \notin Items
ASSUME MsgNumAssumption == MsgNum \in Nat /\ MsgNum > 1

VARIABLES
  dwPutIndex, dwGetIndex, atItem,
  putting, item, slot, \* none, store, move; the put's message, and the slot it took
  getting,            \* the index a get has stored first; 0 when none is under way
  held,               \* the slot handed out by the last get: a set of one, or of none
  closed,             \* changes when the ring is cleared
  spoilt              \* ghost: what one thread did went past another's since the last quiet clear

ringvars == <<dwPutIndex, dwGetIndex, atItem, putting, item, slot, getting, held, closed, spoilt>>

RingSlots == 0 .. MsgNum - 1

\* (i + 1) % MAX_MSG_NUM
Succ(i) == IF i + 1 = MsgNum THEN 0 ELSE i + 1

\* i % MAX_MSG_NUM, of an index after its increment.
Wrapped(i) == IF i = MsgNum THEN 0 ELSE i

-----------------------------------------------------------------------------
(* ModemMsgPut *)

\* A put finds room in a full ring, and takes the slot handed out last: the ring looks empty after it.
Unseen == dwGetIndex = MsgNum /\ dwPutIndex = MsgNum - 1

\* Mutant: the index is compared without the modulo.
PutCheck_Straight(i) ==
  /\ putting = "none"
  /\ dwGetIndex # dwPutIndex + 1
  /\ putting' = "store" /\ item' = i /\ slot' = dwPutIndex
  /\ spoilt' = (spoilt \/ Unseen)
  /\ UNCHANGED <<dwPutIndex, dwGetIndex, atItem, getting, held, closed>>

\* A full ring returns -1 and changes nothing.
PutCheck(i) ==
  /\ putting = "none"
  /\ dwGetIndex # Succ(dwPutIndex)
  /\ putting' = "store" /\ item' = i /\ slot' = dwPutIndex
  /\ spoilt' = (spoilt \/ Unseen)
  /\ UNCHANGED <<dwPutIndex, dwGetIndex, atItem, getting, held, closed>>

PutStore ==
  /\ putting = "store"
  /\ atItem' = [atItem EXCEPT ![slot] = item]
  /\ putting' = "move"
  /\ UNCHANGED <<dwPutIndex, dwGetIndex, item, slot, getting, held, closed, spoilt>>

\* The index is loaded again, or kept from the check.
PutMove ==
  /\ putting = "move"
  /\ dwPutIndex' \in {Succ(dwPutIndex), Succ(slot)}
  /\ putting' = "none"
  /\ UNCHANGED <<dwGetIndex, atItem, item, slot, getting, held, closed, spoilt>>

-----------------------------------------------------------------------------
(* ModemMsgGet *)

GetIncrement ==
  /\ getting = 0
  /\ dwGetIndex # dwPutIndex
  /\ held' = {dwGetIndex}
  /\ dwGetIndex' = dwGetIndex + 1 /\ getting' = dwGetIndex + 1
  /\ UNCHANGED <<dwPutIndex, atItem, putting, item, slot, closed, spoilt>>

GetWrap ==
  /\ getting # 0
  /\ dwGetIndex' \in {Wrapped(dwGetIndex), Wrapped(getting)}
  /\ getting' = 0
  /\ UNCHANGED <<dwPutIndex, atItem, putting, item, slot, held, closed, spoilt>>

\* The memset of modem_init and ModemClose, of the modem's own thread or of another that restarts it.
RingClear ==
  /\ dwPutIndex' = 0 /\ dwGetIndex' = 0
  /\ atItem' = [s \in RingSlots |-> NoItem]
  /\ held' = {} /\ closed' = ~closed
  /\ spoilt' = (putting # "none" \/ getting # 0)
  /\ UNCHANGED <<putting, item, slot, getting>>

RingInit ==
  /\ dwPutIndex = 0 /\ dwGetIndex = 0
  /\ atItem = [s \in RingSlots |-> NoItem]
  /\ putting = "none" /\ item = NoItem /\ slot = 0
  /\ getting = 0 /\ held = {} /\ closed = FALSE /\ spoilt = FALSE

RingNext ==
  \/ \E i \in Items : PutCheck(i)
  \/ PutStore \/ PutMove
  \/ GetIncrement \/ GetWrap
  \/ RingClear

RingSpec == RingInit /\ [][RingNext]_ringvars

-----------------------------------------------------------------------------
(* Properties *)

\* Every variable has a value the code can give it.
RingTypeOK ==
  /\ dwPutIndex \in RingSlots /\ dwGetIndex \in 0 .. MsgNum
  /\ getting = 0 => dwGetIndex \in RingSlots
  /\ atItem \in [RingSlots -> Items \cup {NoItem}]
  /\ putting \in {"none", "store", "move"} /\ slot \in RingSlots
  /\ item \in Items \cup {NoItem} /\ (putting # "none" => item \in Items)
  /\ getting \in 0 .. MsgNum
  /\ held \subseteq RingSlots /\ closed \in BOOLEAN /\ spoilt \in BOOLEAN

\* The messages in the ring, and the one its reader looks at in place.
Oldest == Wrapped(dwGetIndex)
InRing == IF dwPutIndex >= Oldest THEN dwPutIndex - Oldest ELSE dwPutIndex - Oldest + MsgNum
SlotOf(k) == IF Oldest + k - 1 < MsgNum THEN Oldest + k - 1 ELSE Oldest + k - 1 - MsgNum
Waiting == [k \in 1 .. InRing |-> atItem[SlotOf(k)]]
InHand == IF held = {} THEN NoItem ELSE atItem[CHOOSE s \in held : TRUE]

Queue == INSTANCE MsgQueue WITH queue <- Waiting, hand <- InHand, Capacity <- MsgNum - 1

\* Messages come out once each, whole and in the order they went in; a put that is accepted is not lost
\* unless the modem is closed; and the message a reader has in hand is not overwritten before its next
\* get, although nobody takes a lock (modem.c:995, 1004, 1019, 1030).  Two things break this, until the
\* ring is next cleared at rest: a put into the full ring while the index of a get that took the last
\* slot is MAX_MSG_NUM, between modem.c:1031 and 1032, and a clear in the middle of a put or a get.
RingIsQueue == Queue!Init /\ [][~spoilt' => Queue!Next]_<<Waiting, InHand, closed>>
=============================================================================
