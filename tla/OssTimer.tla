------------------------------- MODULE OssTimer -------------------------------
(***************************************************************************)
(* The event timers of util/oss_time.c.  One thread owns the table: between *)
(* two scans it handles messages, and during a scan it runs the callback   *)
(* of each timer that has expired.  Both set and delete timers, so that a  *)
(* callback changes the table under the scan that called it.               *)
(*                                                                         *)
(* The unit of time is the period of the scan, 100 ms.                     *)
(***************************************************************************)
EXTENDS Naturals

CONSTANTS
  Events,         \* the message types of the timers
  None,           \* the dwEvent of an idle slot
  Times,          \* the times timers are set to, in periods
  TimerEvents,    \* slots of the table (MAX_TIMER_EVENT, 16)
  OwnDelete       \* a callback may delete timers of the event it was called for

ASSUME EventsAssumption == None \notin Events
ASSUME TableAssumption == TimerEvents \in Nat \ {0}
ASSUME TimesAssumption == Times \subseteq Nat \ {0}
ASSUME OwnDeleteAssumption == OwnDelete \in BOOLEAN

VARIABLES
  pc, loop,             \* main, scan or callback; the slot the scan is at
  dwEvent, lefttime,    \* the event of each slot, None in an idle one; the periods left
  time, age,            \* of each busy slot: the time last set, the scans begun since
  call                  \* the last set, delete or callback

slots == <<dwEvent, lefttime, time, age>>
vars  == <<pc, loop, slots, call>>

Slots == 0 .. TimerEvents - 1
Busy(s) == dwEvent[s] # None
Live(e) == {s \in Slots : dwEvent[s] = e}

\* Mutant: a timer about to expire is set again too.
Fresh_Any(s, e) == dwEvent[s] = e

\* Mutant: a timer with 200 ms left is taken for one about to expire.
Fresh_Later(s, e) == dwEvent[s] = e /\ lefttime[s] > 2

\* A timer of event e that does not expire in the next scan.
Fresh(s, e) == dwEvent[s] = e /\ lefttime[s] > 1

First(S) == CHOOSE s \in S : \A u \in S : s <= u

NoCall == <<"none", None>>
Calls == {"set", "delete", "expire"} \X Events

\* The program's own code runs between scans and in callbacks.
Running == pc \in {"main", "callback"}

-----------------------------------------------------------------------------
(* oss_set_timer_ex *)

Start(s, e, t) ==
  /\ dwEvent' = [dwEvent EXCEPT ![s] = e]
  /\ lefttime' = [lefttime EXCEPT ![s] = t]
  /\ time' = [time EXCEPT ![s] = t]
  /\ age' = [age EXCEPT ![s] = 0]
  /\ call' = <<"set", e>>
  /\ UNCHANGED <<pc, loop>>

\* The timer of the event is set again before it expires.
Rearm(e, t) ==
  /\ Running
  /\ \E s \in Slots : Fresh(s, e)
  /\ Start(First({s \in Slots : Fresh(s, e)}), e, t)

\* Mutant: the timers of the event are not looked at.
New_NoLook(e, t) ==
  /\ Running
  /\ Live(None) # {}
  /\ Start(First(Live(None)), e, t)

\* A timer about to expire is left to expire, its event gets another. A full table returns -1,
\* which no caller looks at.
New(e, t) ==
  /\ Running
  /\ \A s \in Slots : ~Fresh(s, e)
  /\ Live(None) # {}
  /\ Start(First(Live(None)), e, t)

oss_set_timer_ex(e, t) == Rearm(e, t) \/ New(e, t)

-----------------------------------------------------------------------------
(* oss_del_timer_ex, oss_del_timer *)

\* The lefttime of an idle slot is never looked at, and 0 here.
Clear(s) ==
  /\ dwEvent' = [dwEvent EXCEPT ![s] = None]
  /\ lefttime' = [lefttime EXCEPT ![s] = 0]
  /\ time' = [time EXCEPT ![s] = 0]
  /\ age' = [age EXCEPT ![s] = 0]

\* The timer whose callback runs is of event e.
Own(e) == pc = "callback" /\ dwEvent[loop] = e

oss_del_timer_ex(e) ==
  /\ Running /\ Live(e) # {}
  /\ Own(e) => OwnDelete
  /\ Clear(First(Live(e)))
  /\ call' = <<"delete", e>>
  /\ UNCHANGED <<pc, loop>>

\* Nothing stores the tid of a timer, which is 0 in every slot: only a caller that was given
\* slot 0 deletes anything.
oss_del_timer(tid, e) == tid = 0 /\ oss_del_timer_ex(e)

-----------------------------------------------------------------------------
(* oss_timer_scan, oss_event_scan *)

ScanBegin ==
  /\ pc = "main"
  /\ pc' = "scan" /\ loop' = 0
  /\ age' = [s \in Slots |-> IF Busy(s) THEN age[s] + 1 ELSE 0]
  /\ UNCHANGED <<dwEvent, lefttime, time, call>>

Advance ==
  IF loop + 1 < TimerEvents
  THEN pc' = "scan" /\ loop' = loop + 1
  ELSE pc' = "main" /\ loop' = 0

Pass ==
  /\ pc = "scan" /\ ~Busy(loop)
  /\ Advance
  /\ UNCHANGED <<slots, call>>

Count ==
  /\ pc = "scan" /\ Busy(loop) /\ lefttime[loop] > 1
  /\ lefttime' = [lefttime EXCEPT ![loop] = @ - 1]
  /\ Advance
  /\ UNCHANGED <<dwEvent, time, age, call>>

\* Mutant: a timer with two periods left expires.
Fire_Early ==
  /\ pc = "scan" /\ Busy(loop) /\ lefttime[loop] <= 2
  /\ pc' = "callback"
  /\ call' = <<"expire", dwEvent[loop]>>
  /\ UNCHANGED <<loop, slots>>

Fire ==
  /\ pc = "scan" /\ Busy(loop) /\ lefttime[loop] <= 1
  /\ pc' = "callback"
  /\ call' = <<"expire", dwEvent[loop]>>
  /\ UNCHANGED <<loop, slots>>

\* The callback returns and its slot is cleared, whatever it holds by then.
Return == pc = "callback" /\ Clear(loop) /\ Advance /\ UNCHANGED call

Init ==
  /\ pc = "main" /\ loop = 0
  /\ dwEvent = [s \in Slots |-> None] /\ lefttime = [s \in Slots |-> 0]
  /\ time = [s \in Slots |-> 0] /\ age = [s \in Slots |-> 0] /\ call = NoCall

Scan == ScanBegin \/ Pass \/ Count \/ Fire \/ Return

Next ==
  \/ Scan
  \/ \E e \in Events, t \in Times : oss_set_timer_ex(e, t)
  \/ \E e \in Events : oss_del_timer_ex(e) \/ \E tid \in Slots : oss_del_timer(tid, e)

Spec == Init /\ [][Next]_vars

-----------------------------------------------------------------------------
(* Properties *)

\* Every variable has a value the code can give it.
TypeOK ==
  /\ pc \in {"main", "scan", "callback"} /\ loop \in Slots
  /\ dwEvent \in [Slots -> Events \cup {None}]
  /\ lefttime \in [Slots -> Nat] /\ age \in [Slots -> Nat]
  /\ time \in [Slots -> Times \cup {0}] /\ call \in Calls \cup {NoCall}
  /\ \A s \in Slots : Busy(s) => lefttime[s] \in 1 .. time[s]

\* A timer fires in the scan its time names, or in the one before when it was set by a callback
\* of the scan that then reaches it: never later, however often it was set again.
FiresOnTime ==
  [][pc = "scan" /\ pc' = "callback" => age[loop] \in {time[loop] - 1, time[loop]}]_vars

\* Setting an event again never leaves it two timers with time left, so that heartbeats do not
\* multiply.
OneFresh ==
  \A s, u \in Slots :
    Busy(s) /\ dwEvent[s] = dwEvent[u] /\ lefttime[s] > 1 /\ lefttime[u] > 1 => s = u

\* A delete of an event none of whose timers is about to expire leaves it none.
DeleteSilences ==
  [][\A e \in Events :
       (\E s \in Live(e) : dwEvent'[s] = None) /\ pc' = pc /\ (\A s \in Live(e) : lefttime[s] > 1)
       => Live(e)' = {}]_vars

\* oss_set_timer_ex finds a slot whenever the program may call it, with two slots for each event.
Room == Running => \A e \in Events : Live(None) # {} \/ \E s \in Slots : Fresh(s, e)

\* A timer that is set stays until it is deleted or its callback runs, whatever callbacks set and
\* delete meanwhile.
Firing == IF pc = "callback" THEN {loop} ELSE {}
Service == INSTANCE TimerService
  WITH Ids <- Slots, live <- [e \in Events |-> Live(e) \ Firing]
Kept == Service!Spec
=============================================================================
