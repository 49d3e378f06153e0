--------------------------------- MODULE LteSm ---------------------------------
(***************************************************************************)
(* The program's end of the link to the LTE unit, active/lte/ht7220: the   *)
(* state machine of lte_sm.c, the timers it sets and the requests the      *)
(* operator's application makes of it (lte_oam.c).  One thread takes turns *)
(* at a datagram and a scan of the timers.  Datagrams are lost, repeated   *)
(* and late, so the unit is any sequence of messages, until it is silent.  *)
(*                                                                         *)
(* A timer is fresh, or late: in its last 100 ms, when setting it again    *)
(* starts another (OssTimer).  A message that changes nothing is no step.  *)
(***************************************************************************)
EXTENDS Naturals

CONSTANTS
  MaxLost,        \* MAX_HEARTBEAT_LOST_NUM
  MaxStart,       \* MAX_START_REQ_NUM
  MaxCellSel      \* MAX_CELL_SEL_NUM

ASSUME LimitsAssumption == {MaxLost, MaxStart, MaxCellSel} \subseteq Nat

VARIABLES
  state,                            \* LTE_SYS_STAT_...
  heartbeat_lost,                   \* heartbeats since the last answer to one
  startreq_fail, cellselect_fail,   \* requests to start or stop, and tries to find a cell, that failed
  startReq_send, start_value,       \* a start to send when the unit is ready; the value to send again
  fresh, late,                      \* the timers that run
  sent,                             \* what the step sent to the unit
  open,                             \* the start {1} or stop {0} the configured unit has not accepted
  early,                            \* a start was asked for before the unit was ready for it
  silent                            \* the unit will send nothing more

cells  == cellselect_fail
saves  == <<startReq_send, early>>
starts == <<startreq_fail, saves, start_value, open>>
timers == <<fresh, late>>
vars   == <<state, heartbeat_lost, cells, starts, timers, sent, silent>>

States == {"CELL_GET", "DISCONN", "START_CFG", "DATAREADY", "RUNNING"}
Events == {"heartbeat", "startup", "power", "cell_get"}
Requests == {"HEARTBEAT", "WORKMODE", "SWITCH", "CONFIG", "START", "STOP", "POWER", "RESET"}
Pending == fresh \cup late

\* A counter is told apart until it has passed its limit.
Past(n, max) == IF n > max THEN n ELSE n + 1

-----------------------------------------------------------------------------
(* Timers *)

\* oss_del_timer_ex clears the first timer of the event it finds.
Delete(e) ==
  \/ e \in fresh /\ fresh' = fresh \ {e} /\ UNCHANGED late
  \/ e \in late /\ late' = late \ {e} /\ UNCHANGED fresh
  \/ e \notin Pending /\ UNCHANGED timers

\* Time passes.
Age(e) ==
  /\ e \in fresh \ late
  /\ fresh' = fresh \ {e} /\ late' = late \cup {e}
  /\ sent' = {}
  /\ UNCHANGED <<state, heartbeat_lost, cells, starts, silent>>

\* Mutant: a lost unit is no longer asked for a heartbeat.
Cases_Lost == [
  heartbeat |-> {"START_CFG", "DATAREADY", "RUNNING"},
  startup   |-> {"DATAREADY"},
  power     |-> {"RUNNING"},
  cell_get  |-> {"CELL_GET"}]

\* Mutant: nobody waits for the answer to a start.
Cases_NoRetry == [
  heartbeat |-> States \ {"CELL_GET"},
  startup   |-> {},
  power     |-> {"RUNNING"},
  cell_get  |-> {"CELL_GET"}]

\* The states that have a case for the timeout of an event; the others ignore it.
Cases == [
  heartbeat |-> {"DISCONN", "START_CFG", "DATAREADY", "RUNNING"},
  startup   |-> {"DATAREADY"},
  power     |-> {"RUNNING"},
  cell_get  |-> {"CELL_GET"}]

Expired(e) == e \in late /\ late' = late \ {e}
Timeout(e) == Expired(e) /\ state \in Cases[e]

Ignored(e) ==
  /\ Expired(e) /\ state \notin Cases[e]
  /\ sent' = {}
  /\ UNCHANGED <<state, heartbeat_lost, cells, starts, fresh, silent>>

-----------------------------------------------------------------------------
(* Requests to the unit *)

\* Mutant: the heartbeats sent are not counted.
lte_heartbeat_req_Uncounted(s) ==
  /\ fresh' = fresh \cup {"heartbeat"}
  /\ state' = s
  /\ UNCHANGED heartbeat_lost

\* s is the state the handler has set.
lte_heartbeat_req(s) ==
  /\ fresh' = fresh \cup {"heartbeat"}
  /\ heartbeat_lost' = Past(heartbeat_lost, MaxLost)
  /\ state' = IF heartbeat_lost' > MaxLost THEN "DISCONN" ELSE s

lte_start_req(value) ==
  /\ fresh' = fresh \cup {"startup"}
  /\ startreq_fail' = Past(startreq_fail, MaxStart)
  /\ open' = {value}
  /\ sent' = {IF value = 0 THEN "STOP" ELSE "START"}
             \cup {r \in {"RESET"} : startreq_fail' > MaxStart}

-----------------------------------------------------------------------------
(* Timeouts *)

HeartbeatTimeout ==
  /\ Timeout("heartbeat")
  /\ lte_heartbeat_req(state)
  /\ sent' = {"HEARTBEAT"}
  /\ UNCHANGED <<cells, starts, silent>>

StartupTimeout ==
  /\ Timeout("startup")
  /\ lte_start_req(start_value)
  /\ UNCHANGED <<state, heartbeat_lost, cells, saves, start_value, silent>>

PowerTimeout ==
  /\ Timeout("power")
  /\ fresh' = fresh \cup {"power"}
  /\ sent' = {"POWER"}
  /\ UNCHANGED <<state, heartbeat_lost, cells, starts, silent>>

CellFound ==
  /\ Timeout("cell_get")
  /\ cellselect_fail' = 0
  /\ lte_heartbeat_req("DISCONN")
  /\ sent' = {"HEARTBEAT"}
  /\ UNCHANGED <<starts, silent>>

\* Mutant: the count of tries is not started again.
CellNotFound_NoReset ==
  /\ Timeout("cell_get")
  /\ cellselect_fail' = Past(cellselect_fail, MaxCellSel)
  /\ fresh' = fresh \cup {"cell_get"}
  /\ sent' = {}
  /\ UNCHANGED <<state, heartbeat_lost, starts, silent>>

CellNotFound ==
  /\ Timeout("cell_get")
  /\ cellselect_fail' = IF cellselect_fail = MaxCellSel THEN 0 ELSE cellselect_fail + 1
  /\ fresh' = fresh \cup {"cell_get"}
  /\ sent' = {}
  /\ UNCHANGED <<state, heartbeat_lost, starts, silent>>

-----------------------------------------------------------------------------
(* Messages of the unit *)

\* An answer to a heartbeat tells whether the unit is powered on and not yet configured (poweron).
HeartbeatRsp == ~silent /\ heartbeat_lost' = 0 /\ UNCHANGED <<cells, late, silent>>

HeartbeatRsp_disconn(poweron) ==
  /\ HeartbeatRsp /\ state = "DISCONN"
  /\ sent' = IF poweron THEN {"WORKMODE"} ELSE {"RESET"}
  /\ UNCHANGED <<state, starts, fresh>>

HeartbeatRsp_start_cfg ==
  /\ HeartbeatRsp /\ state = "START_CFG"
  /\ sent' = {}
  /\ UNCHANGED <<state, starts, fresh>>

\* A start that was asked for too early is sent now.
HeartbeatRsp_dataready ==
  /\ HeartbeatRsp /\ state = "DATAREADY"
  /\ IF startReq_send = 1
     THEN lte_start_req(1)
     ELSE sent' = {} /\ UNCHANGED <<fresh, startreq_fail, open>>
  /\ startReq_send' = 0
  /\ UNCHANGED <<state, start_value, early>>

\* The unit has started anew.
HeartbeatRsp_running(poweron) ==
  /\ HeartbeatRsp /\ state = "RUNNING"
  /\ state' = IF poweron THEN "DISCONN" ELSE "RUNNING"
  /\ sent' = {}
  /\ UNCHANGED <<starts, fresh>>

lte_workmode_rsp(same) ==
  /\ ~silent /\ state = "DISCONN"
  /\ state' = IF same THEN "START_CFG" ELSE "DISCONN"
  /\ sent' = IF same THEN {} ELSE {"SWITCH"}
  /\ UNCHANGED <<heartbeat_lost, cells, starts, timers, silent>>

lte_tddfdd_switch_rsp(switched) == lte_workmode_rsp(switched)

lte_reset_rsp ==
  /\ ~silent /\ state \in {"DISCONN", "DATAREADY", "RUNNING"}
  /\ state' = "DISCONN"
  /\ sent' = {}
  /\ UNCHANGED <<heartbeat_lost, cells, starts, timers, silent>>

\* Mutant: the heartbeat goes out before the state is set.
lte_cfg_load_req_Late ==
  /\ ~silent /\ state = "START_CFG"
  /\ fresh' = fresh \cup {"heartbeat"}
  /\ heartbeat_lost' = Past(heartbeat_lost, MaxLost)
  /\ state' = "DATAREADY"
  /\ open' = {}
  /\ sent' = {"CONFIG", "HEARTBEAT"}
  /\ UNCHANGED <<cells, startreq_fail, saves, start_value, late, silent>>

\* The unit asks for its configuration: it forgets what it was asked to do before.
lte_cfg_load_req ==
  /\ ~silent /\ state = "START_CFG"
  /\ lte_heartbeat_req("DATAREADY")
  /\ open' = {}
  /\ sent' = {"CONFIG", "HEARTBEAT"}
  /\ UNCHANGED <<cells, startreq_fail, saves, start_value, late, silent>>

\* The unit accepts a start or stop; a refusal changes nothing.
lte_start_rsp ==
  /\ ~silent /\ state \in {"DATAREADY", "RUNNING"}
  /\ startreq_fail' = 0
  /\ Delete("startup")
  /\ state' = IF start_value = 0 THEN "DATAREADY" ELSE "RUNNING"
  /\ open' = {}
  /\ sent' = {}
  /\ UNCHANGED <<heartbeat_lost, cells, saves, start_value, silent>>

lte_power_rsp ==
  /\ ~silent /\ state = "RUNNING"
  /\ Delete("power")
  /\ sent' = {}
  /\ UNCHANGED <<state, heartbeat_lost, cells, starts, silent>>

-----------------------------------------------------------------------------
(* Requests of the operator *)

\* The cell to announce is looked for, in any state.
oam_para_set ==
  /\ fresh' = fresh \cup {"cell_get"}
  /\ sent' = {}
  /\ UNCHANGED <<state, heartbeat_lost, cells, starts, late, silent>>

\* Mutant: the value is sent but not saved.
oam_lte_start_req_Unsaved(value) ==
  /\ state \in {"DATAREADY", "RUNNING"}
  /\ lte_start_req(value)
  /\ UNCHANGED start_value

oam_lte_start_req(value) ==
  /\ state \in {"DATAREADY", "RUNNING"}
  /\ start_value' = value
  /\ lte_start_req(value)

\* A stop is passed on in any state, a start only when the unit is ready for it.
oam_stop ==
  /\ oam_lte_start_req(0)
  /\ UNCHANGED <<state, heartbeat_lost, cells, saves, late, silent>>

oam_start ==
  /\ state = "DATAREADY"
  /\ oam_lte_start_req(1)
  /\ UNCHANGED <<state, heartbeat_lost, cells, saves, late, silent>>

oam_start_early ==
  /\ state # "DATAREADY"
  /\ startReq_send' = 1 /\ early' = TRUE
  /\ sent' = {}
  /\ UNCHANGED <<state, heartbeat_lost, cells, startreq_fail, start_value, open, timers, silent>>

\* Also the end of a change of band, operator or mode.
oam_lte_reset_req ==
  /\ state \in {"DATAREADY", "RUNNING"}
  /\ sent' = {"RESET"}
  /\ UNCHANGED <<state, heartbeat_lost, cells, starts, timers, silent>>

oam_lte_set_power_req ==
  /\ state = "RUNNING"
  /\ fresh' = fresh \cup {"power"}
  /\ sent' = {"POWER"}
  /\ UNCHANGED <<state, heartbeat_lost, cells, starts, late, silent>>

-----------------------------------------------------------------------------
(* The specification *)

\* The unit, or the network to it, goes down for good.
Silence ==
  /\ ~silent /\ silent' = TRUE
  /\ sent' = {}
  /\ UNCHANGED <<state, heartbeat_lost, cells, starts, timers>>

Init ==
  /\ state = "CELL_GET"
  /\ heartbeat_lost = 0 /\ startreq_fail = 0 /\ cellselect_fail = 0
  /\ startReq_send = 0 /\ start_value = 0 /\ open = {}
  /\ fresh = {} /\ late = {}
  /\ sent = {} /\ early = FALSE /\ silent = FALSE

Timing ==
  \/ \E e \in Events : Age(e) \/ Ignored(e)
  \/ HeartbeatTimeout \/ StartupTimeout \/ PowerTimeout \/ CellFound \/ CellNotFound

Unit ==
  \/ \E poweron \in BOOLEAN : HeartbeatRsp_disconn(poweron) \/ HeartbeatRsp_running(poweron)
  \/ HeartbeatRsp_start_cfg \/ HeartbeatRsp_dataready
  \/ \E same \in BOOLEAN : lte_workmode_rsp(same) \/ lte_tddfdd_switch_rsp(same)
  \/ lte_reset_rsp \/ lte_cfg_load_req \/ lte_start_rsp \/ lte_power_rsp
  \/ Silence

Operator ==
  \/ oam_para_set \/ oam_stop \/ oam_start \/ oam_start_early
  \/ oam_lte_reset_req \/ oam_lte_set_power_req

Next == Timing \/ Unit \/ Operator

\* With no datagram to set it again, the heartbeat's timer runs down and is scanned.
Fairness == WF_vars(silent /\ Age("heartbeat")) /\ WF_vars(silent /\ HeartbeatTimeout)

Spec == Init /\ [][Next]_vars /\ Fairness

-----------------------------------------------------------------------------
(* Properties *)

TypeOK ==
  /\ state \in States
  /\ heartbeat_lost \in 0 .. MaxLost + 1
  /\ startreq_fail \in 0 .. MaxStart + 1
  /\ cellselect_fail \in 0 .. MaxCellSel
  /\ startReq_send \in {0, 1} /\ start_value \in {0, 1} /\ open \in {{}, {0}, {1}}
  /\ fresh \subseteq Events /\ late \subseteq Events
  /\ sent \subseteq Requests
  /\ early \in BOOLEAN /\ silent \in BOOLEAN

\* The chains of timers that keep the link alive do not end: once a cell was found a heartbeat is
\* always due, and a search that failed is always due again.  Each state must renew its timer in
\* each handler of its timeout (lte_sm.c:513, 589, 612, 655, 713).
Supervised ==
  /\ state # "CELL_GET" => "heartbeat" \in Pending
  /\ cellselect_fail > 0 => "cell_get" \in Pending \/ state # "CELL_GET"

\* A unit that has missed too many heartbeats is not taken for one that is configured or runs,
\* although requests for a configuration and answers to a start may still arrive from it, and the
\* count is not started again when it connects (lte_sm.c:66, 617).
ReadyMeansHeard == state \in {"DATAREADY", "RUNNING"} => heartbeat_lost <= MaxLost

\* A start or stop that a ready unit has not accepted will be tried again (lte_sm.c:90, 680).
Retried == state = "DATAREADY" /\ open # {} => "startup" \in Pending

\* While the operator has asked for a start only when the unit was ready: when the unit accepts what
\* it was asked last, it is taken to run if that was a start and not to run if it was a stop, and
\* what is sent again is what was sent before (lte_sm.c:115, 681).
RunsAsAsked ==
  [][~early /\ open # {} =>
       /\ lte_start_rsp => (state' = "RUNNING" <=> open = {1})
       /\ StartupTimeout => open' = open]_vars

\* The program ends up disconnected from a unit that is silent, whatever the operator asks (lte_sm.c:66).
NoticesSilence == <>[]silent => <>[](state \in {"CELL_GET", "DISCONN"})

\* The comment at lte_sm.c:437: the value is saved to be sent again when the timer expires.
\* Here: what is sent again is what was sent before (lte_sm.c:681).
ResentAsSent == [][StartupTimeout /\ open # {} => open' = open]_vars
=============================================================================
