-------------------------------- MODULE OssTick --------------------------------
(***************************************************************************)
(* The clock of util/oss_time.c: a signal every 20 ms posts a semaphore,   *)
(* and each oss_timer_scan that takes a post adds 20 to a counter of 32    *)
(* bits.  The timer events (OssTimer) are scanned when the counter is a    *)
(* multiple of 100.  2^32 is no multiple of 20: after the counter has      *)
(* wrapped, in 49.7 days, it is no multiple of 20 until it has wrapped     *)
(* four times more, and the events are not scanned meanwhile.              *)
(*                                                                         *)
(* The counter wraps at Wrap; like 2^32 the Wrap of the run is 16 modulo   *)
(* 20 and 96 modulo 100.                                                   *)
(***************************************************************************)
EXTENDS Naturals

CONSTANTS
  Wrap,           \* the counter is modulo Wrap (2^32)
  MaxPosts        \* bound on the posts that wait

ASSUME WrapAssumption == Wrap \in Nat /\ Wrap > 100

VARIABLES
  gdwTick,
  bin_sem,          \* the posts not taken; before sem_init nobody waits for one
  wrapped,          \* the counter has wrapped
  since             \* the time since the last scan of the events, up to 120

tickvars == <<gdwTick, bin_sem, wrapped, since>>

\* oss_timer_signal
Signal ==
  /\ bin_sem < MaxPosts
  /\ bin_sem' = bin_sem + 1
  /\ UNCHANGED <<gdwTick, wrapped, since>>

Ticked == (gdwTick + 20) % Wrap

\* Mutant: the events are scanned at another phase of the counter, which no wrap reaches.
EventScan_Above == gdwTick' % 100 = 0 /\ ~wrapped'

\* oss_timer_scan goes on to oss_event_scan.
EventScan == gdwTick' % 100 = 0

\* oss_timer_scan: the callbacks it runs first are those of oss_reg_timer_proc, which nobody calls.
oss_timer_scan ==
  /\ bin_sem > 0
  /\ bin_sem' = bin_sem - 1
  /\ gdwTick' = Ticked
  /\ wrapped' = (wrapped \/ gdwTick' < gdwTick)
  /\ since' = IF EventScan THEN 0 ELSE IF since > 100 THEN since ELSE since + 20

TickInit == gdwTick = 0 /\ bin_sem = 0 /\ wrapped = FALSE /\ since = 0

TickNext == Signal \/ oss_timer_scan

TickSpec == TickInit /\ [][TickNext]_tickvars

-----------------------------------------------------------------------------
(* Properties *)

\* Until the counter wraps the events are scanned every 100 ms (oss_time.c:237).
ScannedInTime == ~wrapped => since < 100

\* The timers of the units stand still after a wrap, but not for ever: the events are scanned again
\* once the counter has come back to a multiple of 100 (oss_time.c:220, 237).
ScansResume == []<>(since = 0)
=============================================================================
