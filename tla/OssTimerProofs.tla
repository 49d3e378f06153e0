---------------------------- MODULE OssTimerProofs ----------------------------
(***************************************************************************)
(* Proofs about OssTimer, for any table, events and times: timers fire on  *)
(* time, an event never has two timers with time left, and the table       *)
(* implements TimerService when no callback deletes its own event.         *)
(***************************************************************************)
EXTENDS OssTimer, OssTick, WellFoundedInduction, FiniteSetTheorems, TLAPS

LEMMA SlotsNat == Slots \subseteq Nat
  BY TableAssumption DEF Slots

\* The loops find a slot in any set that has one.
LEMMA FirstIn ==
  ASSUME NEW S, S \subseteq Slots, S # {}
  PROVE  First(S) \in S
<1> DEFINE Less == {ss \in Nat \X Nat : ss[1] < ss[2]}
<1>1. OpToRel(<, Nat) = Less
  BY Zenon DEF OpToRel
<1>2. IsWellFoundedOn(Less, Nat)
  BY <1>1, NatLessThanWellFounded
<1>3. S \subseteq Nat
  BY SlotsNat
<1> HIDE DEF Less
<1>4. PICK s \in S : \A u \in S : <<u, s>> \notin Less
  BY <1>2, <1>3, WFMin
<1>5. ASSUME NEW u \in S, u < s
      PROVE  FALSE
  <2>1. <<u, s>> \in Less
    BY <1>3, <1>5 DEF Less
  <2> QED
    BY <2>1, <1>4
<1>6. \A u \in S : s <= u
  BY <1>3, <1>5
<1> QED
  BY <1>6 DEF First

-----------------------------------------------------------------------------
(* The operations, with the slot each acts on *)

\* A set starts a timer in the event's fresh slot, or in an idle one when it has none.
Fits(s, e) == Fresh(s, e) \/ (dwEvent[s] = None /\ \A u \in Slots : ~Fresh(u, e))

LEMMA SetForm ==
  ASSUME NEW e \in Events, NEW t \in Times, oss_set_timer_ex(e, t)
  PROVE  \E s \in Slots : Start(s, e, t) /\ Fits(s, e) /\ Running
<1>1. CASE Rearm(e, t)
  <2> DEFINE S == {s \in Slots : Fresh(s, e)}
  <2>1. S # {} /\ Start(First(S), e, t) /\ Running
    BY <1>1 DEF Rearm
  <2>2. First(S) \in S
    BY <2>1, FirstIn
  <2> QED
    BY <2>1, <2>2 DEF Fits
<1>2. CASE New(e, t)
  <2>1. Live(None) # {} /\ Start(First(Live(None)), e, t) /\ Running /\ \A u \in Slots : ~Fresh(u, e)
    BY <1>2 DEF New
  <2>2. First(Live(None)) \in Live(None)
    BY <2>1, FirstIn DEF Live
  <2> QED
    BY <2>1, <2>2 DEF Fits, Live
<1> QED
  BY <1>1, <1>2 DEF oss_set_timer_ex

\* A delete clears a slot of the event.
Deletes(s, e) ==
  /\ dwEvent[s] = e /\ Clear(s) /\ call' = <<"delete", e>>
  /\ Running /\ (Own(e) => OwnDelete)
  /\ UNCHANGED <<pc, loop>>

LEMMA DeleteForm ==
  ASSUME NEW e \in Events, oss_del_timer_ex(e)
  PROVE  \E s \in Slots : Deletes(s, e)
<1>1. First(Live(e)) \in Live(e)
  BY FirstIn DEF oss_del_timer_ex, Live
<1> QED
  BY <1>1 DEF oss_del_timer_ex, Live, Deletes

\* The steps that are not part of a scan.
LEMMA UserForm ==
  ASSUME Next, ~Scan
  PROVE  \/ \E e \in Events, t \in Times, s \in Slots : Start(s, e, t) /\ Fits(s, e) /\ Running
         \/ \E e \in Events, s \in Slots : Deletes(s, e)
<1>1. CASE \E e \in Events, t \in Times : oss_set_timer_ex(e, t)
  BY <1>1, SetForm
<1>2. CASE \E e \in Events : oss_del_timer_ex(e)
  BY <1>2, DeleteForm
<1> QED
  BY <1>1, <1>2 DEF Next, oss_del_timer

-----------------------------------------------------------------------------
(* The inductive invariant *)

\* The scan under way, if any, has examined slot s.
Examined(s) == pc = "main" \/ s < loop

\* The scans a timer has seen and the periods it has left make up its time, give or take the scan
\* under way.
Aged ==
  \A s \in Slots : Busy(s) =>
    age[s] + lefttime[s] \in IF Examined(s) THEN {time[s] - 1, time[s]} ELSE {time[s], time[s] + 1}

\* A slot whose callback runs is still the timer that expired.
Expired == pc = "callback" => Busy(loop) /\ lefttime[loop] = 1

IInv == TypeOK /\ OneFresh /\ Aged /\ (~OwnDelete => Expired)

LEMMA Numbers ==
  ASSUME TypeOK, NEW s \in Slots
  PROVE  age[s] \in Nat /\ lefttime[s] \in Nat /\ time[s] \in Nat
<1>1. \A t \in Times \cup {0} : t \in Nat
  BY TimesAssumption
<1>2. time[s] \in Times \cup {0}
  BY DEF TypeOK
<1> QED
  BY <1>1, <1>2 DEF TypeOK

LEMMA InitInv == Init => IInv
<1> SUFFICES ASSUME Init
             PROVE  IInv
  OBVIOUS
<1>1. 0 \in Slots
  BY TableAssumption DEF Slots
<1> QED
  BY <1>1 DEF Init, IInv, TypeOK, OneFresh, Aged, Expired, Busy, Slots

\* A scan moves on from slot loop.
LEMMA AdvanceForm ==
  ASSUME TypeOK, Advance, pc # "main"
  PROVE  /\ pc' \in {"main", "scan"} /\ loop' \in Slots
         /\ \A s \in Slots : Examined(s)' <=> Examined(s) \/ s = loop
  BY TableAssumption DEF TypeOK, Advance, Examined, Slots

LEMMA StartInv ==
  ASSUME IInv, NEW e \in Events, NEW t \in Times, NEW s \in Slots, Start(s, e, t), Fits(s, e), Running
  PROVE  IInv'
<1>1. TypeOK'
  BY EventsAssumption, TimesAssumption DEF IInv, TypeOK, Start, Busy, Calls
<1>2. OneFresh'
  <2>1. \A u \in Slots : u # s => ~(dwEvent[u] = e /\ lefttime[u] > 1)
    BY EventsAssumption DEF IInv, OneFresh, TypeOK, Fits, Fresh, Busy
  <2>2. \A u \in Slots : u # s => dwEvent'[u] = dwEvent[u] /\ lefttime'[u] = lefttime[u]
    BY DEF Start, IInv, TypeOK
  <2>3. dwEvent'[s] = e
    BY DEF Start, IInv, TypeOK
  <2> QED
    BY <2>1, <2>2, <2>3 DEF IInv, OneFresh, Busy
<1>3. Aged'
  <2> SUFFICES ASSUME NEW u \in Slots, Busy(u)'
               PROVE  (age[u] + lefttime[u] \in IF Examined(u) THEN {time[u] - 1, time[u]}
                                                ELSE {time[u], time[u] + 1})'
    BY DEF Aged
  <2>1. CASE u = s
    BY <2>1, TimesAssumption DEF Start, IInv, TypeOK
  <2>2. CASE u # s
    BY <2>2 DEF Start, IInv, TypeOK, Aged, Busy, Examined
  <2> QED
    BY <2>1, <2>2
<1>4. ~OwnDelete => Expired'
  <2> SUFFICES ASSUME ~OwnDelete, pc = "callback"
               PROVE  Expired'
    BY DEF Start, Expired
  <2>1. s # loop
    BY DEF IInv, Expired, Fits, Fresh, Busy
  <2> QED
    BY <2>1 DEF Start, IInv, TypeOK, Expired, Busy
<1> QED
  BY <1>1, <1>2, <1>3, <1>4 DEF IInv

\* Emptying a slot cannot break what holds of the others.
LEMMA ClearInv ==
  ASSUME TypeOK, OneFresh, NEW s \in Slots, Clear(s)
  PROVE  /\ OneFresh'
         /\ dwEvent' \in [Slots -> Events \cup {None}] /\ lefttime' \in [Slots -> Nat]
         /\ age' \in [Slots -> Nat] /\ time' \in [Slots -> Times \cup {0}]
         /\ ~Busy(s)'
         /\ \A u \in Slots \ {s} : /\ dwEvent'[u] = dwEvent[u] /\ lefttime'[u] = lefttime[u]
                                   /\ time'[u] = time[u] /\ age'[u] = age[u]
  BY EventsAssumption DEF TypeOK, OneFresh, Clear, Busy

LEMMA DeletesInv ==
  ASSUME IInv, NEW e \in Events, NEW s \in Slots, Deletes(s, e)
  PROVE  IInv'
<1> USE DEF IInv, Deletes
<1>1. TypeOK'
  BY ClearInv DEF TypeOK, Busy, Calls
<1>2. OneFresh'
  BY ClearInv
<1>3. Aged'
  BY ClearInv DEF Aged, Busy, Examined
<1>4. ~OwnDelete => Expired'
  <2> SUFFICES ASSUME ~OwnDelete, pc = "callback"
               PROVE  Expired'
    BY DEF Expired
  <2>1. loop # s /\ loop \in Slots
    BY DEF Own, TypeOK
  <2> QED
    BY <2>1, ClearInv DEF Expired, Busy
<1> QED
  BY <1>1, <1>2, <1>3, <1>4

LEMMA ScanBeginInv == IInv /\ ScanBegin => IInv'
<1> SUFFICES ASSUME IInv, ScanBegin
             PROVE  IInv'
  OBVIOUS
<1>1. 0 \in Slots
  BY TableAssumption DEF Slots
<1>2. TypeOK'
  BY <1>1 DEF IInv, TypeOK, ScanBegin, Busy
<1>3. OneFresh'
  BY DEF IInv, OneFresh, ScanBegin, Busy
<1>4. Aged'
  <2> SUFFICES ASSUME NEW s \in Slots, Busy(s)'
               PROVE  (age[s] + lefttime[s] \in IF Examined(s) THEN {time[s] - 1, time[s]}
                                                ELSE {time[s], time[s] + 1})'
    BY DEF Aged
  <2>1. age[s] \in Nat /\ lefttime[s] \in Nat /\ time[s] \in Nat
    BY Numbers DEF IInv
  <2>2. age[s] + lefttime[s] \in {time[s] - 1, time[s]} /\ age'[s] = age[s] + 1
    BY DEF IInv, Aged, ScanBegin, Busy, Examined
  <2>3. ~Examined(s)'
    BY SlotsNat DEF ScanBegin, Examined
  <2> QED
    BY <2>1, <2>2, <2>3 DEF ScanBegin
<1>5. ~OwnDelete => Expired'
  BY DEF ScanBegin, Expired
<1> QED
  BY <1>2, <1>3, <1>4, <1>5 DEF IInv

LEMMA PassInv == IInv /\ Pass => IInv'
<1> SUFFICES ASSUME IInv, Pass
             PROVE  IInv'
  OBVIOUS
<1>1. /\ pc' \in {"main", "scan"} /\ loop' \in Slots
      /\ \A s \in Slots : Examined(s)' <=> Examined(s) \/ s = loop
  BY AdvanceForm DEF IInv, Pass
<1>2. TypeOK' /\ OneFresh'
  BY <1>1 DEF IInv, TypeOK, OneFresh, Pass, slots, Busy
<1>3. Aged'
  BY <1>1 DEF IInv, Aged, Pass, slots, Busy
<1> QED
  BY <1>1, <1>2, <1>3 DEF IInv, Expired

LEMMA CountInv == IInv /\ Count => IInv'
<1> SUFFICES ASSUME IInv, Count
             PROVE  IInv'
  OBVIOUS
<1>1. /\ pc' \in {"main", "scan"} /\ loop' \in Slots
      /\ \A s \in Slots : Examined(s)' <=> Examined(s) \/ s = loop
  BY AdvanceForm DEF IInv, Count
<1>2. /\ lefttime' = [lefttime EXCEPT ![loop] = @ - 1] /\ lefttime[loop] > 1
      /\ UNCHANGED <<dwEvent, time, age, call>> /\ loop \in Slots /\ ~Examined(loop)
  BY SlotsNat DEF IInv, TypeOK, Count, Examined
<1>3. TypeOK'
  <2>1. lefttime' \in [Slots -> Nat]
    BY <1>2 DEF IInv, TypeOK
  <2>2. \A s \in Slots : Busy(s)' => lefttime'[s] \in 1 .. time'[s]
    <3> SUFFICES ASSUME NEW s \in Slots, Busy(s)
                 PROVE  lefttime'[s] \in 1 .. time[s]
      BY <1>2 DEF Busy
    <3> QED
      BY <1>2, Numbers DEF IInv, TypeOK
  <2> QED
    BY <1>1, <1>2, <2>1, <2>2 DEF IInv, TypeOK
<1>4. OneFresh'
  BY <1>2 DEF IInv, TypeOK, OneFresh, Busy
<1>5. Aged'
  <2> SUFFICES ASSUME NEW s \in Slots, Busy(s)'
               PROVE  (age[s] + lefttime[s] \in IF Examined(s) THEN {time[s] - 1, time[s]}
                                                ELSE {time[s], time[s] + 1})'
    BY DEF Aged
  <2>1. age[s] \in Nat /\ lefttime[s] \in Nat /\ time[s] \in Nat
    BY Numbers DEF IInv
  <2>2. CASE s = loop
    <3>1. age[s] + lefttime[s] \in {time[s], time[s] + 1}
      BY <1>2, <2>2 DEF IInv, Aged, Busy
    <3>2. lefttime'[s] = lefttime[s] - 1 /\ age'[s] = age[s] /\ time'[s] = time[s]
      BY <1>2, <2>2 DEF IInv, TypeOK
    <3>3. Examined(s)'
      BY <1>1, <2>2
    <3> QED
      BY <2>1, <3>1, <3>2, <3>3
  <2>3. CASE s # loop
    BY <1>1, <1>2, <2>1, <2>3 DEF IInv, TypeOK, Aged, Busy
  <2> QED
    BY <2>2, <2>3
<1> QED
  BY <1>1, <1>3, <1>4, <1>5 DEF IInv, Expired

LEMMA FireInv == IInv /\ Fire => IInv'
<1> SUFFICES ASSUME IInv, Fire
             PROVE  IInv'
  OBVIOUS
<1>1. lefttime[loop] = 1 /\ dwEvent[loop] \in Events
  BY TimesAssumption DEF IInv, TypeOK, Fire, Busy
<1>2. TypeOK'
  BY <1>1 DEF IInv, TypeOK, Fire, slots, Busy, Calls
<1>3. OneFresh' /\ Aged'
  BY DEF IInv, OneFresh, Aged, Fire, slots, Busy, Examined
<1>4. Expired'
  BY <1>1 DEF Expired, Fire, slots, Busy
<1> QED
  BY <1>2, <1>3, <1>4 DEF IInv

LEMMA ReturnInv == IInv /\ Return => IInv'
<1> SUFFICES ASSUME IInv, Return
             PROVE  IInv'
  OBVIOUS
<1>1. /\ pc' \in {"main", "scan"} /\ loop' \in Slots /\ loop \in Slots
      /\ \A s \in Slots : Examined(s)' <=> Examined(s) \/ s = loop
  BY AdvanceForm DEF IInv, TypeOK, Return
<1>2. TypeOK'
  BY <1>1, ClearInv DEF IInv, TypeOK, Return, Busy
<1>3. OneFresh'
  BY <1>1, ClearInv DEF IInv, Return
<1>4. Aged'
  BY <1>1, ClearInv DEF IInv, Aged, Return, Busy
<1> QED
  BY <1>1, <1>2, <1>3, <1>4 DEF IInv, Expired

LEMMA NextInv == IInv /\ [Next]_vars => IInv'
<1> SUFFICES ASSUME IInv, [Next]_vars
             PROVE  IInv'
  OBVIOUS
<1>1. CASE Scan
  BY <1>1, ScanBeginInv, PassInv, CountInv, FireInv, ReturnInv DEF Scan
<1>2. CASE Next /\ ~Scan
  BY <1>2, UserForm, StartInv, DeletesInv
<1>3. CASE UNCHANGED vars
  BY <1>3 DEF vars, slots, IInv, TypeOK, OneFresh, Aged, Expired, Busy, Examined
<1> QED
  BY <1>1, <1>2, <1>3

LEMMA Invariant == Spec => []IInv
  BY InitInv, NextInv, PTL DEF Spec

-----------------------------------------------------------------------------

\* Every slot of the table of oss_time.c keeps values oss_set_timer_ex gave it, and a timer never
\* has more periods left than it was set to, nor none.
THEOREM TypeCorrect == Spec => []TypeOK
<1>1. IInv => TypeOK
  BY DEF IInv
<1> QED
  BY <1>1, Invariant, PTL

\* oss_set_timer_ex never leaves an event two timers that have more than the next scan to run,
\* however users and callbacks set and delete.
THEOREM OneFreshTimer == Spec => []OneFresh
<1>1. IInv => OneFresh
  BY DEF IInv
<1> QED
  BY <1>1, Invariant, PTL

\* oss_event_scan runs a callback in the scan the time of its timer names or in the one before.
THEOREM OnTime == Spec => FiresOnTime
<1> DEFINE Step == pc = "scan" /\ pc' = "callback" => age[loop] \in {time[loop] - 1, time[loop]}
<1>1. IInv /\ [Next]_vars => [Step]_vars
  <2> SUFFICES ASSUME IInv, Next, pc = "scan", pc' = "callback"
               PROVE  age[loop] \in {time[loop] - 1, time[loop]}
    OBVIOUS
  <2>1. CASE ~Scan
    BY <2>1, UserForm DEF Start, Deletes
  <2>2. CASE Scan
    <3>1. Fire
      BY <2>2 DEF Scan, ScanBegin, Pass, Count, Return, Advance
    <3>2. loop \in Slots /\ lefttime[loop] = 1 /\ Busy(loop) /\ ~Examined(loop)
      BY <3>1, SlotsNat, TimesAssumption DEF IInv, TypeOK, Fire, Examined
    <3>3. age[loop] + 1 \in {time[loop], time[loop] + 1}
      BY <3>2 DEF IInv, Aged
    <3>4. age[loop] \in Nat /\ time[loop] \in Nat
      BY <3>2, Numbers DEF IInv
    <3> QED
      BY <3>3, <3>4
  <2> QED
    BY <2>1, <2>2
<1> QED
  BY <1>1, Invariant, PTL DEF Spec, FiresOnTime

\* oss_del_timer_ex silences an event none of whose timers is about to expire.
THEOREM DeleteSilencesEvent == Spec => DeleteSilences
<1> DEFINE Step ==
      \A e \in Events :
        (\E s \in Live(e) : dwEvent'[s] = None) /\ pc' = pc /\ (\A s \in Live(e) : lefttime[s] > 1)
        => Live(e)' = {}
<1>1. IInv /\ [Next]_vars => [Step]_vars
  <2> SUFFICES ASSUME IInv, Next, NEW e \in Events, NEW s \in Live(e), dwEvent'[s] = None,
                      pc' = pc, \A u \in Live(e) : lefttime[u] > 1
               PROVE  Live(e)' = {}
    OBVIOUS
  <2>1. \A u \in Slots : dwEvent[u] = e => u = s
    BY EventsAssumption DEF IInv, OneFresh, Live, Busy
  <2>2. s \in Slots /\ dwEvent[s] = e /\ e # None
    BY EventsAssumption DEF Live
  <2>3. CASE Scan
    BY <2>2, <2>3 DEF Scan, ScanBegin, Pass, Count, Fire, Return, Advance, slots
  <2>4. CASE \E d \in Events, t \in Times, u \in Slots : Start(u, d, t)
    BY <2>2, <2>4, EventsAssumption DEF Start, IInv, TypeOK
  <2>5. CASE \E d \in Events, u \in Slots : Deletes(u, d)
    BY <2>1, <2>2, <2>5 DEF Deletes, Clear, IInv, TypeOK, Live
  <2> QED
    BY <2>3, <2>4, <2>5, UserForm
<1> QED
  BY <1>1, Invariant, PTL DEF Spec, DeleteSilences

-----------------------------------------------------------------------------
(* A set finds a slot *)

\* The scans to begin before the one that runs the callback of slot s.
Wait(s) == lefttime[s] - (IF Examined(s) THEN 0 ELSE 1)

\* Slot s expires two scans or more before slot u, or one scan before it from a slot before it.
Sooner(s, u) == Wait(u) >= Wait(s) + 2 \/ (Wait(u) = Wait(s) + 1 /\ s < u)

\* The timers of an event never expire in one scan, nor next to each other but in the order of
\* their slots.
Apart ==
  \A s, u \in Slots :
    Busy(s) /\ dwEvent[s] = dwEvent[u] /\ s # u => Sooner(s, u) \/ Sooner(u, s)

\* A timer is set to three periods at least.
Long == \A t \in Times : t > 2

LEMMA WaitNat ==
  ASSUME TypeOK, NEW s \in Slots, Busy(s)
  PROVE  Wait(s) \in Nat
<1>1. lefttime[s] \in 1 .. time[s]
  BY DEF TypeOK
<1>2. time[s] \in Nat
  BY Numbers
<1> QED
  BY <1>1, <1>2 DEF Wait

\* A scan takes k from the wait of every timer, and may empty slots.
LEMMA ShiftApart ==
  ASSUME TypeOK, TypeOK', Apart, NEW k \in Nat,
         \A s \in Slots : Busy(s)' => dwEvent'[s] = dwEvent[s] /\ Wait(s)' = Wait(s) - k
  PROVE  Apart'
<1> SUFFICES ASSUME NEW s \in Slots, NEW u \in Slots, Busy(s)', dwEvent'[s] = dwEvent'[u], s # u
             PROVE  Sooner(s, u)' \/ Sooner(u, s)'
  BY DEF Apart
<1>1. Busy(u)' /\ Busy(s) /\ Busy(u) /\ dwEvent[s] = dwEvent[u]
  BY DEF Busy
<1>2. Wait(s) \in Nat /\ Wait(u) \in Nat /\ Wait(s)' = Wait(s) - k /\ Wait(u)' = Wait(u) - k
  BY <1>1, WaitNat
<1>3. Sooner(s, u) \/ Sooner(u, s)
  BY <1>1 DEF Apart
<1> HIDE DEF Wait
<1> QED
  BY <1>2, <1>3 DEF Sooner

LEMMA StartApart ==
  ASSUME IInv, Apart, Long, NEW e \in Events, NEW t \in Times, NEW s \in Slots,
         Start(s, e, t), Fits(s, e), Running, IInv'
  PROVE  Apart'
<1> USE DEF IInv
<1>1. \A u \in Slots \ {s} : dwEvent'[u] = dwEvent[u] /\ Wait(u)' = Wait(u) /\ Examined(u)' = Examined(u)
  BY DEF Start, TypeOK, Wait, Examined
<1>2. dwEvent'[s] = e /\ lefttime'[s] = t /\ t \in Nat /\ t > 2
  BY TimesAssumption DEF Start, TypeOK, Long
<1>3. ASSUME NEW u \in Slots \ {s}, dwEvent[u] = e
      PROVE  Sooner(u, s)'
  <2>1. lefttime[u] = 1
    <3>1. ~(lefttime[u] > 1)
      BY <1>3, EventsAssumption DEF Fits, Fresh, OneFresh, Busy
    <3>2. lefttime[u] >= 1 /\ lefttime[u] \in Nat
      BY <1>3, EventsAssumption, TimesAssumption DEF TypeOK, Busy
    <3> QED
      BY <3>1, <3>2
  <2>2. lefttime'[u] = 1
    BY <1>1, <2>1 DEF Start, TypeOK
  <2>3. Examined(u)' /\ ~Examined(s)' => u < s
    BY SlotsNat DEF TypeOK, Examined
  <2> QED
    BY <1>2, <2>2, <2>3 DEF Sooner, Wait
<1>4. ASSUME NEW u \in Slots, NEW v \in Slots, Busy(u)', dwEvent'[u] = dwEvent'[v], u # v
      PROVE  Sooner(u, v)' \/ Sooner(v, u)'
  <2>1. CASE u = s
    BY <1>1, <1>2, <1>3, <1>4, <2>1
  <2>2. CASE v = s
    BY <1>1, <1>2, <1>3, <1>4, <2>2
  <2>3. CASE u # s /\ v # s
    <3>1. Sooner(u, v) \/ Sooner(v, u)
      BY <1>1, <1>4, <2>3 DEF Apart, Busy
    <3> QED
      BY <1>1, <2>3, <3>1 DEF Sooner
  <2> QED
    BY <2>1, <2>2, <2>3
<1> QED
  BY <1>4 DEF Apart

LEMMA ClearApart ==
  ASSUME TypeOK, TypeOK', Apart, NEW s \in Slots, Clear(s),
         \A u \in Slots \ {s} : Examined(u)' <=> Examined(u)
  PROVE  Apart'
<1>1. \A u \in Slots : Busy(u)' => dwEvent'[u] = dwEvent[u] /\ Wait(u)' = Wait(u) - 0
  <2> SUFFICES ASSUME NEW u \in Slots, Busy(u)'
               PROVE  dwEvent'[u] = dwEvent[u] /\ Wait(u)' = Wait(u) - 0
    OBVIOUS
  <2>1. u # s
    BY DEF Clear, TypeOK, Busy
  <2>2. dwEvent'[u] = dwEvent[u] /\ lefttime'[u] = lefttime[u]
    BY <2>1 DEF Clear, TypeOK
  <2>3. Wait(u)' = Wait(u)
    BY <2>1, <2>2 DEF Wait
  <2>4. Wait(u) \in Nat
    BY <2>2, WaitNat DEF Busy
  <2> QED
    BY <2>2, <2>3, <2>4
<1> QED
  BY <1>1, ShiftApart

LEMMA ScanApart ==
  ASSUME IInv, Apart, Scan, IInv'
  PROVE  Apart'
<1> USE DEF IInv
<1>1. CASE ScanBegin
  <2>1. \A s \in Slots : Busy(s)' => dwEvent'[s] = dwEvent[s] /\ Wait(s)' = Wait(s) - 1
    <3> SUFFICES ASSUME NEW s \in Slots
                 PROVE  dwEvent'[s] = dwEvent[s] /\ Wait(s)' = Wait(s) - 1
      OBVIOUS
    <3>1. ~Examined(s)' /\ Examined(s)
      BY <1>1, SlotsNat DEF ScanBegin, Examined
    <3>2. lefttime[s] \in Nat
      BY DEF TypeOK
    <3> QED
      BY <1>1, <3>1, <3>2 DEF ScanBegin, Wait
  <2> QED
    BY <2>1, ShiftApart
<1>2. CASE Pass \/ Count \/ Fire
  <2>1. \A s \in Slots : Busy(s)' => dwEvent'[s] = dwEvent[s] /\ Wait(s)' = Wait(s) - 0
    <3> SUFFICES ASSUME NEW s \in Slots, Busy(s)'
                 PROVE  dwEvent'[s] = dwEvent[s] /\ Wait(s)' = Wait(s) - 0
      OBVIOUS
    <3>1. dwEvent' = dwEvent /\ Busy(s)
      BY <1>2 DEF Pass, Count, Fire, slots, Busy
    <3>2. lefttime[s] \in Nat /\ Wait(s) \in Nat
      BY <3>1, WaitNat DEF TypeOK
    <3>3. CASE Fire
      BY <3>1, <3>2, <3>3 DEF Fire, slots, Wait, Examined
    <3>4. CASE Pass \/ Count
      <4>1. Examined(s)' <=> Examined(s) \/ s = loop
        BY <3>4, AdvanceForm DEF Pass, Count
      <4>2. ~Examined(loop) /\ loop \in Slots
        BY <3>4, SlotsNat DEF TypeOK, Pass, Count, Examined
      <4>3. CASE s = loop
        <5>1. Count /\ lefttime'[s] = lefttime[s] - 1
          BY <3>1, <3>4, <4>3 DEF Pass, Count, TypeOK
        <5> QED
          BY <3>1, <3>2, <4>1, <4>2, <4>3, <5>1 DEF Wait
      <4>4. CASE s # loop
        BY <3>1, <3>2, <3>4, <4>1, <4>4 DEF Pass, Count, slots, TypeOK, Wait
      <4> QED
        BY <4>3, <4>4
    <3> QED
      BY <1>2, <3>3, <3>4
  <2> QED
    BY <2>1, ShiftApart
<1>3. CASE Return
  <2>1. loop \in Slots /\ \A u \in Slots \ {loop} : Examined(u)' <=> Examined(u)
    BY <1>3, AdvanceForm DEF Return, TypeOK
  <2> QED
    BY <1>3, <2>1, ClearApart DEF Return
<1> QED
  BY <1>1, <1>2, <1>3 DEF Scan

LEMMA ApartInvariant == ASSUME Long PROVE Spec => []Apart
<1>1. Init => Apart
  BY DEF Init, Apart, Busy
<1>2. IInv /\ Apart /\ [Next]_vars /\ IInv' => Apart'
  <2> SUFFICES ASSUME IInv, Apart, [Next]_vars, IInv'
               PROVE  Apart'
    OBVIOUS
  <2>1. CASE Scan
    BY <2>1, ScanApart
  <2>2. CASE \E e \in Events, t \in Times, s \in Slots : Start(s, e, t) /\ Fits(s, e) /\ Running
    BY <2>2, StartApart
  <2>3. CASE \E e \in Events, s \in Slots : Deletes(s, e)
    BY <2>3, ClearApart DEF Deletes, Examined, IInv
  <2>4. CASE UNCHANGED vars
    BY <2>4 DEF vars, slots, Apart, Sooner, Wait, Busy, Examined
  <2> QED
    BY <2>1, <2>2, <2>3, <2>4, UserForm
<1> QED
  BY <1>1, <1>2, Invariant, PTL DEF Spec

\* Between scans and in callbacks an event has one timer about to expire at most.
LEMMA OneLate ==
  ASSUME TypeOK, Apart, Running, NEW s \in Slots, NEW u \in Slots,
         Busy(s), dwEvent[s] = dwEvent[u], ~(lefttime[s] > 1), ~(lefttime[u] > 1)
  PROVE  s = u
<1>1. lefttime[s] = 1 /\ lefttime[u] = 1
  <2>1. Busy(u)
    BY DEF Busy
  <2> QED
    BY <2>1, TimesAssumption DEF TypeOK
<1>2. SUFFICES ASSUME s # u
               PROVE  FALSE
  OBVIOUS
<1>3. Sooner(s, u) \/ Sooner(u, s)
  BY <1>2 DEF Apart
<1>4. s \in Nat /\ u \in Nat /\ loop \in Nat
  BY SlotsNat DEF TypeOK
<1> QED
  BY <1>1, <1>3, <1>4 DEF Sooner, Wait, Examined

\* With two slots for each event, timers apart leave a slot for one more.
LEMMA ApartHasRoom ==
  ASSUME IInv, Apart, IsFiniteSet(Events), 2 * Cardinality(Events) <= TimerEvents
  PROVE  Room
<1> SUFFICES ASSUME Running, NEW e \in Events, Live(None) = {}, \A s \in Slots : ~Fresh(s, e)
             PROVE  FALSE
  BY DEF Room
<1> DEFINE f == [s \in Slots |-> <<dwEvent[s], IF lefttime[s] > 1 THEN 1 ELSE 0>>]
           T == (Events \X (0 .. 1)) \ {<<e, 1>>}
<1>1. \A s \in Slots : Busy(s)
  BY DEF Live, Busy
<1>2. f \in [Slots -> T]
  <2> SUFFICES ASSUME NEW s \in Slots
               PROVE  <<dwEvent[s], IF lefttime[s] > 1 THEN 1 ELSE 0>> \in T
    OBVIOUS
  <2>1. dwEvent[s] \in Events
    BY <1>1 DEF IInv, TypeOK, Busy
  <2> QED
    BY <2>1 DEF Fresh
<1>3. IsFiniteSet(Slots) /\ Cardinality(Slots) = TimerEvents
  BY FS_Interval, TableAssumption DEF Slots
<1>4. IsFiniteSet(T) /\ Cardinality(T) < TimerEvents
  <2>1. IsFiniteSet(0 .. 1) /\ Cardinality(0 .. 1) = 2
    <3>1. /\ IsFiniteSet(0 .. 1)
          /\ Cardinality(0 .. 1) = IF 0 > 1 THEN 0 ELSE 1 - 0 + 1
      BY FS_Interval, 0 \in Int, 1 \in Int, Zenon
    <3> QED
      BY <3>1
  <2>2. /\ IsFiniteSet(Events \X (0 .. 1))
        /\ Cardinality(Events \X (0 .. 1)) = Cardinality(Events) * 2
    BY <2>1, FS_Product
  <2>3. <<e, 1>> \in Events \X (0 .. 1)
    OBVIOUS
  <2>4. IsFiniteSet(T) /\ Cardinality(T) = Cardinality(Events \X (0 .. 1)) - 1
    BY <2>2, <2>3, FS_RemoveElement
  <2>5. Cardinality(Events) \in Nat
    BY FS_CardinalityType
  <2> HIDE DEF T
  <2> QED
    BY <2>2, <2>4, <2>5, TableAssumption
<1> HIDE DEF T, f
<1>5. PICK s \in Slots, u \in Slots : s # u /\ f[s] = f[u]
  <2>1. IsFiniteSet(Slots) /\ IsFiniteSet(T) /\ Cardinality(T) < Cardinality(Slots)
    BY <1>3, <1>4
  <2>2. \E x, y \in Slots : x # y /\ f[x] = f[y]
    BY ONLY <1>2, <2>1, FS_PigeonHole, Zenon
  <2> QED
    BY <2>2
<1>6. dwEvent[s] = dwEvent[u] /\ (lefttime[s] > 1 <=> lefttime[u] > 1)
  BY <1>5 DEF f
<1> QED
  BY <1>1, <1>5, <1>6, OneLate DEF IInv, OneFresh

\* oss_set_timer_ex finds a slot whenever the program calls it, in any table with two slots for
\* each event, when every time it is called with lasts more than 200 ms.
THEOREM SetFindsRoom ==
  ASSUME Long, IsFiniteSet(Events), 2 * Cardinality(Events) <= TimerEvents
  PROVE  Spec => []Room
<1>1. IInv /\ Apart => Room
  BY ApartHasRoom
<1> QED
  BY <1>1, Invariant, ApartInvariant, PTL

-----------------------------------------------------------------------------
(* The refinement of TimerService *)

\* The live timers TimerService sees.
Lives == [e \in Events |-> Live(e) \ Firing]

LEMMA StartKept ==
  ASSUME IInv, ~OwnDelete, NEW e \in Events, NEW t \in Times, NEW s \in Slots,
         Start(s, e, t), Fits(s, e), Running
  PROVE  Service!Set(e)
<1>1. Firing' = Firing /\ s \notin Firing
  BY DEF Start, IInv, Expired, Fits, Fresh, Busy, Firing
<1>2. dwEvent' = [dwEvent EXCEPT ![s] = e] /\ call' = <<"set", e>> /\ e # None
  BY EventsAssumption DEF Start
<1>3. CASE Fresh(s, e)
  <2>1. \A d \in Events : Live(d)' = Live(d)
    BY <1>2, <1>3 DEF Fresh, Live, IInv, TypeOK
  <2>2. s \in Live(e) \ Firing
    BY <1>1, <1>3 DEF Fresh, Live
  <2>3. Lives' = Lives /\ Lives[e] # {}
    BY <1>1, <2>1, <2>2 DEF Lives
  <2> QED
    BY <1>2, <2>3 DEF Service!Set, Lives
<1>4. CASE dwEvent[s] = None
  <2>1. /\ Live(e)' = Live(e) \cup {s}
        /\ \A d \in Events \ {e} : Live(d)' = Live(d)
        /\ \A d \in Events : s \notin Live(d)
    BY <1>2, <1>4, EventsAssumption DEF Live, IInv, TypeOK
  <2>2. Lives' = [Lives EXCEPT ![e] = @ \cup {s}]
    BY <1>1, <2>1 DEF Lives
  <2>3. s \notin UNION {Lives[d] : d \in Events}
    BY <2>1 DEF Lives
  <2> QED
    BY <1>2, <2>2, <2>3 DEF Service!Set, Service!Used, Lives
<1> QED
  BY <1>3, <1>4 DEF Fits

LEMMA DeletesKept ==
  ASSUME IInv, ~OwnDelete, NEW e \in Events, NEW s \in Slots, Deletes(s, e)
  PROVE  Service!Delete(e)
<1>1. Firing' = Firing /\ s \notin Firing
  BY DEF Deletes, Own, Firing
<1>2. dwEvent' = [dwEvent EXCEPT ![s] = None] /\ dwEvent[s] = e /\ call' = <<"delete", e>>
  BY DEF Deletes, Clear
<1>3. Live(e)' = Live(e) \ {s} /\ \A d \in Events \ {e} : Live(d)' = Live(d)
  BY <1>2, EventsAssumption DEF Live, IInv, TypeOK
<1>4. Lives' = [Lives EXCEPT ![e] = @ \ {s}]
  BY <1>1, <1>3 DEF Lives
<1>5. s \in Lives[e]
  BY <1>1, <1>2 DEF Lives, Live
<1> QED
  BY <1>2, <1>4, <1>5 DEF Service!Delete, Service!Removed, Lives

LEMMA FireKept ==
  ASSUME IInv, Fire
  PROVE  Service!Expire(dwEvent[loop]) /\ dwEvent[loop] \in Events
<1> DEFINE e == dwEvent[loop]
<1>1. loop \in Slots /\ e \in Events /\ call' = <<"expire", e>>
  BY DEF IInv, TypeOK, Fire, Busy
<1>2. Firing = {} /\ Firing' = {loop} /\ \A d \in Events : Live(d)' = Live(d)
  BY DEF Fire, slots, Firing, Live
<1>3. \A d \in Events \ {e} : loop \notin Live(d)
  BY DEF Live
<1>4. loop \in Live(e)
  BY <1>1 DEF Live
<1>5. Lives' = [Lives EXCEPT ![e] = @ \ {loop}] /\ loop \in Lives[e]
  BY <1>1, <1>2, <1>3, <1>4 DEF Lives
<1> QED
  BY <1>1, <1>5 DEF Service!Expire, Service!Removed, Lives

\* The rest of a scan changes no live timer and makes no call.
LEMMA ScanKept ==
  ASSUME IInv, ScanBegin \/ Pass \/ Count \/ Return
  PROVE  UNCHANGED <<Lives, call>>
<1>1. CASE ScanBegin \/ Pass \/ Count
  <2>1. Firing' = Firing /\ UNCHANGED <<dwEvent, call>>
    BY <1>1 DEF ScanBegin, Pass, Count, Advance, slots, Firing
  <2> QED
    BY <2>1 DEF Lives, Live
<1>2. CASE Return
  <2>1. Firing = {loop} /\ Firing' = {} /\ call' = call
    BY <1>2 DEF Return, Advance, Firing
  <2>2. \A d \in Events : Live(d)' = Live(d) \ {loop}
    BY <1>2, EventsAssumption DEF Return, Clear, Live, IInv, TypeOK
  <2> QED
    BY <2>1, <2>2 DEF Lives
<1> QED
  BY <1>1, <1>2

\* The table of oss_time.c keeps the promise of TimerService: a timer that was set goes only by a
\* delete of its event or by its callback, when no callback deletes timers of its own event.
THEOREM KeepsTimers == ASSUME ~OwnDelete PROVE Spec => Kept
<1>1. Init => Service!Init
  BY EventsAssumption DEF Init, Service!Init, Live, Firing
<1>2. IInv /\ [Next]_vars => [Service!Next]_<<Lives, call>>
  <2> SUFFICES ASSUME IInv, [Next]_vars
               PROVE  [Service!Next]_<<Lives, call>>
    OBVIOUS
  <2>1. CASE Next /\ ~Scan
    BY <2>1, UserForm, StartKept, DeletesKept DEF Service!Next
  <2>2. CASE Fire
    BY <2>2, FireKept DEF Service!Next
  <2>3. CASE Scan /\ ~Fire
    BY <2>3, ScanKept DEF Scan
  <2>4. CASE UNCHANGED vars
    BY <2>4 DEF vars, slots, Lives, Live, Firing
  <2> QED
    BY <2>1, <2>2, <2>3, <2>4
<1> QED
  BY <1>1, <1>2, Invariant, PTL DEF Spec, Kept, Service!Spec, Lives
-----------------------------------------------------------------------------
(* The clock of the scans *)

LEMMA TickedForm ==
  ASSUME gdwTick \in 0 .. Wrap - 1
  PROVE  Ticked = IF gdwTick + 20 < Wrap THEN gdwTick + 20 ELSE gdwTick + 20 - Wrap
  BY WrapAssumption, Z3 DEF Ticked

\* Until it has wrapped, the counter tells the time since the last scan of the events.
TickInv ==
  /\ gdwTick \in 0 .. Wrap - 1 /\ bin_sem \in Nat /\ wrapped \in BOOLEAN
  /\ ~wrapped => gdwTick % 20 = 0 /\ since = gdwTick % 100

LEMMA TickInvariant == TickSpec => []TickInv
<1>1. TickInit => TickInv
  <2>1. 0 % 20 = 0 /\ 0 % 100 = 0
    OBVIOUS
  <2>2. 0 \in 0 .. Wrap - 1 /\ 0 \in Nat
    BY WrapAssumption
  <2>3. FALSE \in BOOLEAN
    OBVIOUS
  <2> QED
    BY <2>1, <2>2, <2>3, Zenon DEF TickInit, TickInv
<1>2. TickInv /\ [TickNext]_tickvars => TickInv'
  <2> SUFFICES ASSUME TickInv, [TickNext]_tickvars
               PROVE  TickInv'
    OBVIOUS
  <2>1. CASE Signal
    BY <2>1 DEF Signal, TickInv
  <2>2. CASE oss_timer_scan
    <3>1. gdwTick \in 0 .. Wrap - 1 /\ gdwTick' = Ticked
      BY <2>2 DEF oss_timer_scan, TickInv
    <3>2. /\ gdwTick' \in 0 .. Wrap - 1
          /\ gdwTick' = gdwTick + 20 \/ gdwTick' < gdwTick
      BY <3>1, TickedForm, WrapAssumption
    <3>3. bin_sem' \in Nat /\ wrapped' \in BOOLEAN
      BY <2>2 DEF oss_timer_scan, TickInv
    <3>4. ASSUME ~wrapped'
          PROVE  gdwTick' % 20 = 0 /\ since' = gdwTick' % 100
      <4>1. ~wrapped /\ ~(gdwTick' < gdwTick)
        BY <2>2, <3>4, Zenon DEF oss_timer_scan
      <4>2. /\ gdwTick' = gdwTick + 20 /\ gdwTick \in Nat
            /\ gdwTick % 20 = 0 /\ since = gdwTick % 100
            /\ since' = IF gdwTick' % 100 = 0 THEN 0 ELSE IF since > 100 THEN since ELSE since + 20
        BY <2>2, <3>1, <3>2, <4>1 DEF oss_timer_scan, EventScan, TickInv
      <4> QED
        BY <4>2
    <3> QED
      BY <3>2, <3>3, <3>4 DEF TickInv
  <2>3. CASE UNCHANGED tickvars
    BY <2>3 DEF tickvars, TickInv
  <2> QED
    BY <2>1, <2>2, <2>3 DEF TickNext
<1> QED
  BY <1>1, <1>2, PTL DEF TickSpec

\* oss_timer_scan goes on to oss_event_scan every 100 ms until gdwTick has wrapped.
THEOREM ScansInTime == TickSpec => []ScannedInTime
<1>1. TickInv => ScannedInTime
  BY DEF TickInv, ScannedInTime
<1> QED
  BY <1>1, TickInvariant, PTL
=============================================================================
