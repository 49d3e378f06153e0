--------------------------------- MODULE GsmSm ---------------------------------
(***************************************************************************)
(* The start of the GSM unit (active/wcdma/wg: gsm.c, gsm_sm.c, gsm_oam.c).*)
(* The program asks the unit for its capacity, again when the answer stays *)
(* away, has the amplifier switched off and the clocks set, and then sends *)
(* the requests of a script, one per round of its loop.  Datagrams arrive  *)
(* in order on the unit's cable, late, or not at all; none is left from an *)
(* earlier run of the program.                                             *)
(***************************************************************************)
EXTENDS Naturals, Sequences, SequencesExt, FiniteSets

CONSTANTS
  GsmLosses,    \* bound: datagrams that are lost
  GsmBacklog    \* bound: datagrams under way when the start is repeated

ASSUME GsmAssumption == GsmLosses \in Nat /\ GsmBacklog \in Nat \ {0}

VARIABLES
  bts_mode, gstate,       \* the transceivers that run; idle or running
  gslot, timer_id,        \* the slot of the timer, NoSlot without one; the number kept of it
  event_index, arfcn,     \* requests of the script made; the channel for the next transceiver
  tounit, tohost,         \* the datagrams on their way
  amp, tuned,             \* the unit: its amplifier, the channel of each transceiver
  misses, broken          \* datagrams lost; one of them followed the answer about the capacity

gsmvars == <<bts_mode, gstate, gslot, timer_id, event_index, arfcn, tounit, tohost, amp, tuned, misses, broken>>

NoSlot == 2
Off == 0
Trx == {1, 2}

\* The transceivers of each mode, RUN_FIRST_BTS to RUN_TWO_BTS.
TrxOf == [m \in 1 .. 3 |-> CASE m = 1 -> {1} [] m = 2 -> {2} [] m = 3 -> {1, 2}]

Request(type, t, value) == [type |-> type, trx |-> t, value |-> value]

\* What a transceiver is sent, in order.
Configure(t) == <<Request("para", t, 0), Request("alarm", t, 0), Request("power", t, 0), Request("rf", t, 0)>>
AmpOn == <<Request("amp", 0, 1)>>

\* The scripts without their pauses.
Script ==
  [m \in 1 .. 3 |-> CASE m = 1 -> Configure(1) \o AmpOn
                      [] m = 2 -> Configure(2) \o AmpOn
                      [] m = 3 -> Configure(1) \o <<Request("change", 1, 0)>> \o Configure(2) \o AmpOn]

-----------------------------------------------------------------------------
(* Timers and messages of the program *)

\* The timer of the last try holds its slot while its callback sets the next.
FreeSlot == IF gslot = 0 THEN 1 ELSE 0

gsm_sm_start ==
  /\ gstate' = "idle"
  /\ tounit' = Append(tounit, Request("cap", 0, 0))
  /\ gslot' = FreeSlot /\ timer_id' = FreeSlot

\* Mutant: a program that has timed out once waits for ever.
CapGetTimeout_Deaf ==
  /\ gslot # NoSlot
  /\ Len(tounit) + Len(tohost) < GsmBacklog
  /\ gslot' = NoSlot
  /\ UNCHANGED <<bts_mode, gstate, timer_id, tounit, event_index, arfcn, tohost, amp, tuned, misses, broken>>

\* EVENT_WG_DEV_CAP_GET_TIMEOUT, which a running program ignores. The slot is free again afterwards.
CapGetTimeout ==
  /\ gslot # NoSlot
  /\ Len(tounit) + Len(tohost) < GsmBacklog
  /\ IF gstate = "idle" THEN gsm_sm_start
     ELSE gslot' = NoSlot /\ UNCHANGED <<gstate, tounit, timer_id>>
  /\ UNCHANGED <<bts_mode, event_index, arfcn, tohost, amp, tuned, misses, broken>>

\* The timer is found only under number 0 (oss_del_timer): after an odd try it goes on.
AfterDelete == IF timer_id = 0 THEN NoSlot ELSE gslot

ClockRequests == SetToSeq({Request("time", t, 0) : t \in TrxOf[bts_mode]})

\* gsm_sm_idle: each answer brings the next request. A running program passes all of them over.
Idle(answer) ==
  CASE answer = "cap"  -> /\ gslot' = AfterDelete
                          /\ tounit' = Append(tounit, Request("amp", 0, Off))
                          /\ UNCHANGED gstate
    [] answer = "amp"  -> tounit' = tounit \o ClockRequests /\ UNCHANGED <<gslot, gstate>>
    [] answer = "time" -> gstate' = "running" /\ UNCHANGED <<gslot, tounit>>

gsm_state_machine ==
  /\ tohost # <<>>
  /\ tohost' = Tail(tohost)
  /\ IF gstate = "idle" THEN Idle(Head(tohost)) ELSE UNCHANGED <<gslot, gstate, tounit>>
  /\ UNCHANGED <<bts_mode, timer_id, event_index, arfcn, amp, tuned, misses, broken>>

\* One entry of the script per round, while the program runs. The channel of the second transceiver is
\* chosen between the two.
gsm_run_event ==
  /\ gstate = "running"
  /\ event_index < Len(Script[bts_mode])
  /\ event_index' = event_index + 1
  /\ LET entry == Script[bts_mode][event_index + 1]
     IN  IF entry.type = "change" THEN arfcn' = 14 /\ UNCHANGED tounit
         ELSE /\ tounit' = Append(tounit, IF entry.type = "para" THEN [entry EXCEPT !.value = arfcn] ELSE entry)
              /\ UNCHANGED arfcn
  /\ UNCHANGED <<bts_mode, gstate, gslot, timer_id, tohost, amp, tuned, misses, broken>>

-----------------------------------------------------------------------------
(* The unit *)

\* It does what it is asked and says so. The answers to the script change nothing and are left out.
UnitAnswers ==
  /\ tounit # <<>>
  /\ LET r == Head(tounit)
     IN  /\ tounit' = Tail(tounit)
         /\ amp' = IF r.type = "amp" THEN r.value ELSE amp
         /\ tuned' = IF r.type = "para" THEN [tuned EXCEPT ![r.trx] = r.value] ELSE tuned
         /\ tohost' = IF r.type \in {"cap", "amp", "time"} THEN Append(tohost, r.type) ELSE tohost
  /\ UNCHANGED <<bts_mode, gstate, gslot, timer_id, event_index, arfcn, misses, broken>>

\* A datagram is lost, the next of its direction.
Lose ==
  /\ misses < GsmLosses /\ misses' = misses + 1
  /\ \/ /\ tounit # <<>> /\ tounit' = Tail(tounit) /\ UNCHANGED tohost
        /\ broken' = (broken \/ Head(tounit).type # "cap")
     \/ /\ tohost # <<>> /\ tohost' = Tail(tohost) /\ UNCHANGED tounit
        /\ broken' = (broken \/ Head(tohost) # "cap")
  /\ UNCHANGED <<bts_mode, gstate, gslot, timer_id, event_index, arfcn, amp, tuned>>

-----------------------------------------------------------------------------
\* gsm_init and gsm_run, up to the loop. The amplifier may be on from an earlier run.
GsmInit ==
  /\ bts_mode \in 1 .. 3 /\ gstate = "idle"
  /\ gslot = 0 /\ timer_id = 0 /\ event_index = 0 /\ arfcn = 19
  /\ tounit = <<Request("cap", 0, 0)>> /\ tohost = <<>>
  /\ amp \in {0, 1} /\ tuned = [t \in Trx |-> 0]
  /\ misses = 0 /\ broken = FALSE

\* The steps of the loop, and of the unit.
GsmSteps == CapGetTimeout \/ gsm_state_machine \/ gsm_run_event \/ UnitAnswers

GsmNext == GsmSteps \/ Lose

GsmSpec == GsmInit /\ [][GsmNext]_gsmvars /\ WF_gsmvars(GsmSteps)

-----------------------------------------------------------------------------
(* Properties *)

GsmTypeOK ==
  /\ bts_mode \in 1 .. 3 /\ gstate \in {"idle", "running"}
  /\ gslot \in {0, 1, NoSlot} /\ timer_id \in {0, 1}
  /\ event_index \in 0 .. Len(Script[bts_mode]) /\ arfcn \in {19, 14}
  /\ amp \in {0, 1} /\ tuned \in [Trx -> {0, 19, 14}]
  /\ misses \in 0 .. GsmLosses /\ broken \in BOOLEAN

\* A program that waits for an answer that was lost, with no timer left to ask again.
Stuck == broken /\ gstate = "idle" /\ gslot = NoSlot /\ tounit = <<>> /\ tohost = <<>>

AllRun == event_index = Len(Script[bts_mode])

\* No transceiver is tuned while the amplifier is on, not even one an earlier run of the program left on.
TunedInSilence == [][tuned' # tuned => amp = Off]_gsmvars

\* The two transceivers are never tuned to one channel.
ChannelsApart == tuned[1] = 0 \/ tuned[1] # tuned[2]

\* Once the script is done a late answer does not turn the amplifier off again, if nothing that followed
\* the answer about the capacity was lost: the request to turn it on is made once (gsm.c:222-235), and
\* when it is lost the amplifier stays off.
AmpStaysOn == AllRun /\ tounit = <<>> /\ ~broken => amp # Off

\* The start of the unit (gsm.c:195-218, gsm_sm.c:475-524) is silent, whatever is lost or late.  However
\* often the request for the capacity or its answer is lost, the script is done in the end, and then the
\* amplifier is on and no late answer turns it off: as long as nothing that follows the exchange about the
\* capacity is lost, for no other request is made again, and the unit does what it is asked, for nobody
\* looks at the ret of an answer (gsm_sm.c:505).
StartsInSilence ==
  /\ TunedInSilence
  /\ [](GsmTypeOK /\ ChannelsApart /\ AmpStaysOn)
  /\ <>(Stuck \/ AllRun)
=============================================================================
