------------------------------ MODULE UnitsProofs ------------------------------
(***************************************************************************)
(* Proofs about the units.  The link (LteSm), for any limits: the          *)
(* heartbeat is always due, a unit that runs was heard of, an open request *)
(* is tried again, and while the operator waits for the unit it is taken   *)
(* for what he asked of it.  The operators and bands (OamBands), whatever  *)
(* is inserted and deleted: the lists stay in order.  The settings         *)
(* (LteOam), however the exchanges of the two threads mix and fail: the    *)
(* cell that is imitated is the one that was ordered.  The GSM unit        *)
(* (GsmSm), whatever is late or lost: it starts in silence.  And all of    *)
(* them in one behaviour (MCUnits).                                        *)
(***************************************************************************)
EXTENDS MCUnits, Recursion, SequenceTheorems, FiniteSetTheorems, TLAPS

-----------------------------------------------------------------------------
(* LteSm *)

LEMMA Limits == MaxLost \in Nat /\ MaxStart \in Nat /\ MaxCellSel \in Nat
  BY LimitsAssumption

\* A counter stays in its range, at its limit and when it starts again.
LEMMA PastType ==
  ASSUME NEW max \in Nat, NEW n \in 0 .. max + 1
  PROVE  Past(n, max) \in 0 .. max + 1
  BY DEF Past

LEMMA Zero == 0 \in 0 .. MaxLost + 1 /\ 0 \in 0 .. MaxStart + 1 /\ 0 \in 0 .. MaxCellSel
  BY Limits

LEMMA CellCount ==
  ASSUME cellselect_fail \in 0 .. MaxCellSel
  PROVE  (IF cellselect_fail = MaxCellSel THEN 0 ELSE cellselect_fail + 1) \in 0 .. MaxCellSel
  BY Limits

-----------------------------------------------------------------------------
(* Types *)

LEMMA TypeStep == TypeOK /\ [Next]_vars => TypeOK'
<1> SUFFICES ASSUME TypeOK, [Next]_vars
             PROVE  TypeOK'
  OBVIOUS
<1> USE Limits DEF TypeOK, Events, Requests, States, cells, starts, saves
<1>1. CASE Timing
  <2>1. CASE \E e \in Events : Age(e)
    BY <2>1 DEF Age
  <2>2. CASE \E e \in Events : Ignored(e)
    BY <2>2 DEF Ignored, Expired
  <2>3. CASE HeartbeatTimeout
    BY <2>3, PastType DEF HeartbeatTimeout, Timeout, Expired, lte_heartbeat_req
  <2>4. CASE StartupTimeout
    BY <2>4, PastType DEF StartupTimeout, Timeout, Expired, lte_start_req
  <2>5. CASE PowerTimeout
    BY <2>5 DEF PowerTimeout, Timeout, Expired
  <2>6. CASE CellFound
    BY <2>6, PastType, Zero DEF CellFound, Timeout, Expired, lte_heartbeat_req
  <2>7. CASE CellNotFound
    BY <2>7, CellCount DEF CellNotFound, Timeout, Expired
  <2> QED
    BY <1>1, <2>1, <2>2, <2>3, <2>4, <2>5, <2>6, <2>7 DEF Timing
<1>2. CASE Unit
  <2>1. CASE \E p \in BOOLEAN : HeartbeatRsp_disconn(p)
    BY <2>1, Zero DEF HeartbeatRsp_disconn, HeartbeatRsp
  <2>2. CASE \E p \in BOOLEAN : HeartbeatRsp_running(p)
    BY <2>2, Zero DEF HeartbeatRsp_running, HeartbeatRsp
  <2>3. CASE HeartbeatRsp_start_cfg
    BY <2>3, Zero DEF HeartbeatRsp_start_cfg, HeartbeatRsp
  <2>4. CASE HeartbeatRsp_dataready
    <3>1. CASE startReq_send = 1
      <4>1. lte_start_req(1)
        BY <2>4, <3>1 DEF HeartbeatRsp_dataready
      <4>2. startreq_fail' = Past(startreq_fail, MaxStart)
        BY <4>1 DEF lte_start_req
      <4>3. startreq_fail' \in 0 .. MaxStart + 1
        BY <4>2, PastType
      <4> QED
        BY <2>4, <3>1, <4>1, <4>3, Zero DEF HeartbeatRsp_dataready, HeartbeatRsp, lte_start_req
    <3>2. CASE startReq_send # 1
      BY <2>4, <3>2, Zero DEF HeartbeatRsp_dataready, HeartbeatRsp
    <3> QED
      BY <3>1, <3>2
  <2>5. CASE \E s \in BOOLEAN : lte_workmode_rsp(s)
    BY <2>5 DEF lte_workmode_rsp, timers
  <2>6. CASE \E s \in BOOLEAN : lte_tddfdd_switch_rsp(s)
    BY <2>6 DEF lte_tddfdd_switch_rsp, lte_workmode_rsp, timers
  <2>7. CASE lte_reset_rsp
    BY <2>7 DEF lte_reset_rsp, timers
  <2>8. CASE lte_cfg_load_req
    BY <2>8, PastType DEF lte_cfg_load_req, lte_heartbeat_req
  <2>9. CASE lte_start_rsp
    BY <2>9, Zero DEF lte_start_rsp, Delete, timers
  <2>10. CASE lte_power_rsp
    BY <2>10 DEF lte_power_rsp, Delete, timers
  <2>11. CASE Silence
    BY <2>11 DEF Silence, timers
  <2> QED
    BY <1>2, <2>1, <2>2, <2>3, <2>4, <2>5, <2>6, <2>7, <2>8, <2>9, <2>10, <2>11 DEF Unit
<1>3. CASE Operator
  <2>1. CASE oam_para_set
    BY <2>1 DEF oam_para_set
  <2>2. CASE oam_stop
    BY <2>2, PastType DEF oam_stop, oam_lte_start_req, lte_start_req
  <2>3. CASE oam_start
    BY <2>3, PastType DEF oam_start, oam_lte_start_req, lte_start_req
  <2>4. CASE oam_start_early
    BY <2>4 DEF oam_start_early, timers
  <2>5. CASE oam_lte_reset_req
    BY <2>5 DEF oam_lte_reset_req, timers
  <2>6. CASE oam_lte_set_power_req
    BY <2>6 DEF oam_lte_set_power_req
  <2> QED
    BY <1>3, <2>1, <2>2, <2>3, <2>4, <2>5, <2>6 DEF Operator
<1>4. CASE UNCHANGED vars
  BY <1>4 DEF vars, timers
<1> QED
  BY <1>1, <1>2, <1>3, <1>4 DEF Next

\* Every state, counter, timer and request stays in its range (LteSm.tla, TypeOK).
THEOREM TypeCorrect == Spec => []TypeOK
<1>1. Init => TypeOK
  BY Zero DEF Init, TypeOK, States
<1> QED
  BY <1>1, TypeStep, PTL DEF Spec

-----------------------------------------------------------------------------
(* The chains of timers *)

LEMMA SupervisedStep == TypeOK /\ Supervised /\ [Next]_vars => Supervised'
<1> SUFFICES ASSUME TypeOK, Supervised, [Next]_vars
             PROVE  Supervised'
  OBVIOUS
<1> USE DEF Supervised, Pending, cells, starts, saves
<1>1. CASE Timing
  <2>1. CASE \E e \in Events : Age(e)
    BY <2>1 DEF Age
  <2>2. CASE \E e \in Events : Ignored(e)
    BY <2>2 DEF Ignored, Expired, Cases, TypeOK, States
  <2>3. CASE HeartbeatTimeout
    BY <2>3 DEF HeartbeatTimeout, Timeout, Expired, lte_heartbeat_req, Cases
  <2>4. CASE StartupTimeout
    BY <2>4 DEF StartupTimeout, Timeout, Expired, lte_start_req
  <2>5. CASE PowerTimeout
    BY <2>5 DEF PowerTimeout, Timeout, Expired
  <2>6. CASE CellFound
    BY <2>6 DEF CellFound, Timeout, Expired, lte_heartbeat_req, Cases
  <2>7. CASE CellNotFound
    BY <2>7 DEF CellNotFound, Timeout, Expired, Cases
  <2> QED
    BY <1>1, <2>1, <2>2, <2>3, <2>4, <2>5, <2>6, <2>7 DEF Timing
<1>2. CASE Unit
  <2>1. CASE \E p \in BOOLEAN : HeartbeatRsp_disconn(p)
    BY <2>1 DEF HeartbeatRsp_disconn, HeartbeatRsp
  <2>2. CASE \E p \in BOOLEAN : HeartbeatRsp_running(p)
    BY <2>2 DEF HeartbeatRsp_running, HeartbeatRsp
  <2>3. CASE HeartbeatRsp_start_cfg
    BY <2>3 DEF HeartbeatRsp_start_cfg, HeartbeatRsp
  <2>4. CASE HeartbeatRsp_dataready
    BY <2>4 DEF HeartbeatRsp_dataready, HeartbeatRsp, lte_start_req
  <2>5. CASE \E s \in BOOLEAN : lte_workmode_rsp(s)
    BY <2>5 DEF lte_workmode_rsp, timers
  <2>6. CASE \E s \in BOOLEAN : lte_tddfdd_switch_rsp(s)
    BY <2>6 DEF lte_tddfdd_switch_rsp, lte_workmode_rsp, timers
  <2>7. CASE lte_reset_rsp
    BY <2>7 DEF lte_reset_rsp, timers
  <2>8. CASE lte_cfg_load_req
    BY <2>8 DEF lte_cfg_load_req, lte_heartbeat_req
  <2>9. CASE lte_start_rsp
    BY <2>9 DEF lte_start_rsp, Delete, timers
  <2>10. CASE lte_power_rsp
    BY <2>10 DEF lte_power_rsp, Delete, timers
  <2>11. CASE Silence
    BY <2>11 DEF Silence, timers
  <2> QED
    BY <1>2, <2>1, <2>2, <2>3, <2>4, <2>5, <2>6, <2>7, <2>8, <2>9, <2>10, <2>11 DEF Unit
<1>3. CASE Operator
  <2>1. CASE oam_para_set
    BY <2>1 DEF oam_para_set
  <2>2. CASE oam_stop
    BY <2>2 DEF oam_stop, oam_lte_start_req, lte_start_req
  <2>3. CASE oam_start
    BY <2>3 DEF oam_start, oam_lte_start_req, lte_start_req
  <2>4. CASE oam_start_early
    BY <2>4 DEF oam_start_early, timers
  <2>5. CASE oam_lte_reset_req
    BY <2>5 DEF oam_lte_reset_req, timers
  <2>6. CASE oam_lte_set_power_req
    BY <2>6 DEF oam_lte_set_power_req
  <2> QED
    BY <1>3, <2>1, <2>2, <2>3, <2>4, <2>5, <2>6 DEF Operator
<1>4. CASE UNCHANGED vars
  BY <1>4 DEF vars, timers
<1> QED
  BY <1>1, <1>2, <1>3, <1>4 DEF Next

\* Once a cell was found a heartbeat is always due: no state, message or request ends the chain that
\* finds out whether the unit is there (lte_sm.c:51); nor does a search that failed end.
THEOREM Supervision == Spec => []Supervised
<1>1. Init => Supervised
  BY DEF Init, Supervised
<1> QED
  BY <1>1, TypeCorrect, SupervisedStep, PTL DEF Spec

-----------------------------------------------------------------------------
(* A unit that is configured or runs *)

LEMMA HeardStep == TypeOK /\ TypeOK' /\ ReadyMeansHeard /\ [Next]_vars => ReadyMeansHeard'
<1> SUFFICES ASSUME TypeOK, TypeOK', ReadyMeansHeard, [Next]_vars
             PROVE  ReadyMeansHeard'
  OBVIOUS
<1> USE DEF ReadyMeansHeard, cells, starts, saves
<1>1. CASE Timing
  <2>1. CASE \E e \in Events : Age(e)
    BY <2>1 DEF Age
  <2>2. CASE \E e \in Events : Ignored(e)
    BY <2>2 DEF Ignored, Expired
  <2>3. CASE HeartbeatTimeout
    BY <2>3, Limits DEF HeartbeatTimeout, Timeout, Expired, lte_heartbeat_req, TypeOK
  <2>4. CASE StartupTimeout
    BY <2>4 DEF StartupTimeout, Timeout, Expired, lte_start_req
  <2>5. CASE PowerTimeout
    BY <2>5 DEF PowerTimeout, Timeout, Expired
  <2>6. CASE CellFound
    BY <2>6, Limits DEF CellFound, Timeout, Expired, lte_heartbeat_req, TypeOK
  <2>7. CASE CellNotFound
    BY <2>7 DEF CellNotFound, Timeout, Expired
  <2> QED
    BY <1>1, <2>1, <2>2, <2>3, <2>4, <2>5, <2>6, <2>7 DEF Timing
<1>2. CASE Unit
  <2>1. CASE \E p \in BOOLEAN : HeartbeatRsp_disconn(p)
    BY <2>1 DEF HeartbeatRsp_disconn, HeartbeatRsp
  <2>2. CASE \E p \in BOOLEAN : HeartbeatRsp_running(p)
    BY <2>2, Limits DEF HeartbeatRsp_running, HeartbeatRsp, TypeOK
  <2>3. CASE HeartbeatRsp_start_cfg
    BY <2>3 DEF HeartbeatRsp_start_cfg, HeartbeatRsp
  <2>4. CASE HeartbeatRsp_dataready
    BY <2>4, Limits DEF HeartbeatRsp_dataready, HeartbeatRsp, lte_start_req, TypeOK
  <2>5. CASE \E s \in BOOLEAN : lte_workmode_rsp(s)
    BY <2>5 DEF lte_workmode_rsp, timers
  <2>6. CASE \E s \in BOOLEAN : lte_tddfdd_switch_rsp(s)
    BY <2>6 DEF lte_tddfdd_switch_rsp, lte_workmode_rsp, timers
  <2>7. CASE lte_reset_rsp
    BY <2>7 DEF lte_reset_rsp, timers
  <2>8. CASE lte_cfg_load_req
    BY <2>8, Limits DEF lte_cfg_load_req, lte_heartbeat_req, TypeOK
  <2>9. CASE lte_start_rsp
    BY <2>9 DEF lte_start_rsp, Delete, timers
  <2>10. CASE lte_power_rsp
    BY <2>10 DEF lte_power_rsp, Delete, timers
  <2>11. CASE Silence
    BY <2>11 DEF Silence, timers
  <2> QED
    BY <1>2, <2>1, <2>2, <2>3, <2>4, <2>5, <2>6, <2>7, <2>8, <2>9, <2>10, <2>11 DEF Unit
<1>3. CASE Operator
  <2>1. CASE oam_para_set
    BY <2>1 DEF oam_para_set
  <2>2. CASE oam_stop
    BY <2>2 DEF oam_stop, oam_lte_start_req, lte_start_req
  <2>3. CASE oam_start
    BY <2>3 DEF oam_start, oam_lte_start_req, lte_start_req
  <2>4. CASE oam_start_early
    BY <2>4 DEF oam_start_early, timers
  <2>5. CASE oam_lte_reset_req
    BY <2>5 DEF oam_lte_reset_req, timers
  <2>6. CASE oam_lte_set_power_req
    BY <2>6 DEF oam_lte_set_power_req
  <2> QED
    BY <1>3, <2>1, <2>2, <2>3, <2>4, <2>5, <2>6 DEF Operator
<1>4. CASE UNCHANGED vars
  BY <1>4 DEF vars, timers
<1> QED
  BY <1>1, <1>2, <1>3, <1>4 DEF Next

\* Whatever the unit sends and in whatever order, it is not taken for configured or running when more
\* heartbeats than the limit went unanswered (lte_sm.c:66).
THEOREM HeardWhenReady == Spec => []ReadyMeansHeard
<1>1. Init => ReadyMeansHeard
  BY DEF Init, ReadyMeansHeard
<1> QED
  BY <1>1, TypeCorrect, HeardStep, PTL DEF Spec

-----------------------------------------------------------------------------
(* Requests to start and stop *)

LEMMA RetriedStep == Retried /\ [Next]_vars => Retried'
<1> SUFFICES ASSUME Retried, [Next]_vars
             PROVE  Retried'
  OBVIOUS
<1> USE DEF Retried, Pending, cells, starts, saves
<1>1. CASE Timing
  <2>1. CASE \E e \in Events : Age(e)
    BY <2>1 DEF Age
  <2>2. CASE \E e \in Events : Ignored(e)
    BY <2>2 DEF Ignored, Expired, Cases
  <2>3. CASE HeartbeatTimeout
    BY <2>3 DEF HeartbeatTimeout, Timeout, Expired, lte_heartbeat_req
  <2>4. CASE StartupTimeout
    BY <2>4 DEF StartupTimeout, Timeout, Expired, lte_start_req
  <2>5. CASE PowerTimeout
    BY <2>5 DEF PowerTimeout, Timeout, Expired
  <2>6. CASE CellFound
    BY <2>6 DEF CellFound, Timeout, Expired, lte_heartbeat_req
  <2>7. CASE CellNotFound
    BY <2>7 DEF CellNotFound, Timeout, Expired
  <2> QED
    BY <1>1, <2>1, <2>2, <2>3, <2>4, <2>5, <2>6, <2>7 DEF Timing
<1>2. CASE Unit
  <2>1. CASE \E p \in BOOLEAN : HeartbeatRsp_disconn(p)
    BY <2>1 DEF HeartbeatRsp_disconn, HeartbeatRsp
  <2>2. CASE \E p \in BOOLEAN : HeartbeatRsp_running(p)
    BY <2>2 DEF HeartbeatRsp_running, HeartbeatRsp
  <2>3. CASE HeartbeatRsp_start_cfg
    BY <2>3 DEF HeartbeatRsp_start_cfg, HeartbeatRsp
  <2>4. CASE HeartbeatRsp_dataready
    BY <2>4 DEF HeartbeatRsp_dataready, HeartbeatRsp, lte_start_req
  <2>5. CASE \E s \in BOOLEAN : lte_workmode_rsp(s)
    BY <2>5 DEF lte_workmode_rsp, timers
  <2>6. CASE \E s \in BOOLEAN : lte_tddfdd_switch_rsp(s)
    BY <2>6 DEF lte_tddfdd_switch_rsp, lte_workmode_rsp, timers
  <2>7. CASE lte_reset_rsp
    BY <2>7 DEF lte_reset_rsp, timers
  <2>8. CASE lte_cfg_load_req
    BY <2>8 DEF lte_cfg_load_req, lte_heartbeat_req
  <2>9. CASE lte_start_rsp
    BY <2>9 DEF lte_start_rsp, Delete, timers
  <2>10. CASE lte_power_rsp
    BY <2>10 DEF lte_power_rsp, Delete, timers
  <2>11. CASE Silence
    BY <2>11 DEF Silence, timers
  <2> QED
    BY <1>2, <2>1, <2>2, <2>3, <2>4, <2>5, <2>6, <2>7, <2>8, <2>9, <2>10, <2>11 DEF Unit
<1>3. CASE Operator
  <2>1. CASE oam_para_set
    BY <2>1 DEF oam_para_set
  <2>2. CASE oam_stop
    BY <2>2 DEF oam_stop, oam_lte_start_req, lte_start_req
  <2>3. CASE oam_start
    BY <2>3 DEF oam_start, oam_lte_start_req, lte_start_req
  <2>4. CASE oam_start_early
    BY <2>4 DEF oam_start_early, timers
  <2>5. CASE oam_lte_reset_req
    BY <2>5 DEF oam_lte_reset_req, timers
  <2>6. CASE oam_lte_set_power_req
    BY <2>6 DEF oam_lte_set_power_req
  <2> QED
    BY <1>3, <2>1, <2>2, <2>3, <2>4, <2>5, <2>6 DEF Operator
<1>4. CASE UNCHANGED vars
  BY <1>4 DEF vars, timers
<1> QED
  BY <1>1, <1>2, <1>3, <1>4 DEF Next

\* A ready unit's open request is never without the timer that sends it again, although an answer
\* deletes one and requests, answers and timeouts come in any order (lte_sm.c:90, 113).
THEOREM RetriesOpenRequest == Spec => []Retried
<1>1. Init => Retried
  BY DEF Init, Retried
<1> QED
  BY <1>1, RetriedStep, PTL DEF Spec

\* While the operator waits for the unit no start is saved for later, and the value saved to be sent
\* again is the one the unit was sent.
Saved == ~early => startReq_send = 0 /\ (open # {} => open = {start_value})

LEMMA SavedStep == TypeOK /\ Saved /\ [Next]_vars => Saved'
<1> SUFFICES ASSUME TypeOK, Saved, [Next]_vars
             PROVE  Saved'
  OBVIOUS
<1> USE DEF Saved, cells, starts, saves
<1>1. CASE Timing
  <2>1. CASE \E e \in Events : Age(e)
    BY <2>1 DEF Age
  <2>2. CASE \E e \in Events : Ignored(e)
    BY <2>2 DEF Ignored, Expired
  <2>3. CASE HeartbeatTimeout
    BY <2>3 DEF HeartbeatTimeout, Timeout, Expired, lte_heartbeat_req
  <2>4. CASE StartupTimeout
    BY <2>4 DEF StartupTimeout, Timeout, Expired, lte_start_req
  <2>5. CASE PowerTimeout
    BY <2>5 DEF PowerTimeout, Timeout, Expired
  <2>6. CASE CellFound
    BY <2>6 DEF CellFound, Timeout, Expired, lte_heartbeat_req
  <2>7. CASE CellNotFound
    BY <2>7 DEF CellNotFound, Timeout, Expired
  <2> QED
    BY <1>1, <2>1, <2>2, <2>3, <2>4, <2>5, <2>6, <2>7 DEF Timing
<1>2. CASE Unit
  <2>1. CASE \E p \in BOOLEAN : HeartbeatRsp_disconn(p)
    BY <2>1 DEF HeartbeatRsp_disconn, HeartbeatRsp
  <2>2. CASE \E p \in BOOLEAN : HeartbeatRsp_running(p)
    BY <2>2 DEF HeartbeatRsp_running, HeartbeatRsp
  <2>3. CASE HeartbeatRsp_start_cfg
    BY <2>3 DEF HeartbeatRsp_start_cfg, HeartbeatRsp
  <2>4. CASE HeartbeatRsp_dataready
    BY <2>4 DEF HeartbeatRsp_dataready, HeartbeatRsp, lte_start_req
  <2>5. CASE \E s \in BOOLEAN : lte_workmode_rsp(s)
    BY <2>5 DEF lte_workmode_rsp, timers
  <2>6. CASE \E s \in BOOLEAN : lte_tddfdd_switch_rsp(s)
    BY <2>6 DEF lte_tddfdd_switch_rsp, lte_workmode_rsp, timers
  <2>7. CASE lte_reset_rsp
    BY <2>7 DEF lte_reset_rsp, timers
  <2>8. CASE lte_cfg_load_req
    BY <2>8 DEF lte_cfg_load_req, lte_heartbeat_req
  <2>9. CASE lte_start_rsp
    BY <2>9 DEF lte_start_rsp, Delete, timers
  <2>10. CASE lte_power_rsp
    BY <2>10 DEF lte_power_rsp, Delete, timers
  <2>11. CASE Silence
    BY <2>11 DEF Silence, timers
  <2> QED
    BY <1>2, <2>1, <2>2, <2>3, <2>4, <2>5, <2>6, <2>7, <2>8, <2>9, <2>10, <2>11 DEF Unit
<1>3. CASE Operator
  <2>1. CASE oam_para_set
    BY <2>1 DEF oam_para_set
  <2>2. CASE oam_stop
    BY <2>2 DEF oam_stop, oam_lte_start_req, lte_start_req
  <2>3. CASE oam_start
    BY <2>3 DEF oam_start, oam_lte_start_req, lte_start_req
  <2>4. CASE oam_start_early
    BY <2>4 DEF oam_start_early, timers
  <2>5. CASE oam_lte_reset_req
    BY <2>5 DEF oam_lte_reset_req, timers
  <2>6. CASE oam_lte_set_power_req
    BY <2>6 DEF oam_lte_set_power_req
  <2> QED
    BY <1>3, <2>1, <2>2, <2>3, <2>4, <2>5, <2>6 DEF Operator
<1>4. CASE UNCHANGED vars
  BY <1>4 DEF vars, timers
<1> QED
  BY <1>1, <1>2, <1>3, <1>4 DEF Next

\* What a step does to a request while the operator waits for the unit.
LEMMA AcceptedIsAsked ==
  ASSUME TypeOK, Saved, ~early, open # {}
  PROVE  /\ lte_start_rsp => (state' = "RUNNING" <=> open = {1})
         /\ StartupTimeout => open' = open
<1>1. open = {start_value} /\ start_value \in {0, 1}
  BY DEF Saved, TypeOK
<1>2. ASSUME lte_start_rsp PROVE state' = IF start_value = 0 THEN "DATAREADY" ELSE "RUNNING"
  BY <1>2 DEF lte_start_rsp
<1>3. ASSUME StartupTimeout PROVE open' = {start_value}
  BY <1>3 DEF StartupTimeout, lte_start_req
<1> QED
  BY <1>1, <1>2, <1>3

\* An accepted request leaves the unit taken for what it was asked to be, and what is sent again is
\* what was sent, while the operator waits for the unit (lte_sm.c:115, 681).
THEOREM DoesAsAsked == Spec => RunsAsAsked
<1> DEFINE Accepted == lte_start_rsp => (state' = "RUNNING" <=> open = {1})
           Repeated == StartupTimeout => open' = open
<1>1. Init => Saved
  BY DEF Init, Saved
<1>2. TypeOK /\ Saved => [~early /\ open # {} => Accepted /\ Repeated]_vars
  BY AcceptedIsAsked
<1> QED
  BY <1>1, <1>2, SavedStep, TypeCorrect, PTL DEF Spec, RunsAsAsked

\* What an insertion and a removal leave of a sequence.
LEMMA Inserted ==
  ASSUME NEW S, NEW s \in Seq(S), NEW x \in S, NEW p \in 1 .. Len(s) + 1
  PROVE  LET r == Seqs!InsertAt(s, p, x)
         IN  /\ r \in Seq(S) /\ Len(r) = Len(s) + 1
             /\ \A i \in 1 .. Len(r) : r[i] = IF i < p THEN s[i] ELSE IF i = p THEN x ELSE s[i - 1]
<1> DEFINE a == SubSeq(s, 1, p - 1)
           b == SubSeq(s, p, Len(s))
           d == <<x>>
           N == Len(s)
<1>1. N \in Nat /\ \A i \in 1 .. N : s[i] \in S
  OBVIOUS
<1>2. Seqs!InsertAt(s, p, x) = (a \o d) \o b
  BY DEF Seqs!InsertAt
<1>3. a \in Seq(S) /\ Len(a) = p - 1 /\ \A i \in 1 .. p - 1 : a[i] = s[i]
  <2>1. 1 \in Int /\ p - 1 \in Int /\ \A i \in 1 .. p - 1 : s[i] \in S
    BY <1>1
  <2>2. /\ a \in Seq(S) /\ Len(a) = IF 1 <= p - 1 THEN (p - 1) - 1 + 1 ELSE 0
        /\ \A i \in 1 .. (p - 1) - 1 + 1 : a[i] = s[1 + i - 1]
    BY <2>1, SubSeqProperties
  <2> HIDE DEF a
  <2> QED
    BY <1>1, <2>2
<1>4. b \in Seq(S) /\ Len(b) = N - p + 1 /\ \A i \in 1 .. N - p + 1 : b[i] = s[p + i - 1]
  <2>1. p \in Int /\ N \in Int /\ \A i \in p .. N : s[i] \in S
    BY <1>1
  <2>2. /\ b \in Seq(S) /\ Len(b) = IF p <= N THEN N - p + 1 ELSE 0
        /\ \A i \in 1 .. N - p + 1 : b[i] = s[p + i - 1]
    BY <2>1, SubSeqProperties
  <2> HIDE DEF b
  <2> QED
    BY <1>1, <2>2
<1>5. d \in Seq(S) /\ Len(d) = 1 /\ d[1] = x
  OBVIOUS
<1> HIDE DEF a, b, d
<1>6. /\ a \o d \in Seq(S) /\ Len(a \o d) = p
      /\ \A i \in 1 .. p : (a \o d)[i] = IF i < p THEN s[i] ELSE x
  <2>1. /\ a \o d \in Seq(S) /\ Len(a \o d) = Len(a) + Len(d)
        /\ \A i \in 1 .. Len(a) + Len(d) : (a \o d)[i] = IF i <= Len(a) THEN a[i] ELSE d[i - Len(a)]
    BY <1>3, <1>5, ConcatProperties
  <2> QED
    BY <1>1, <1>3, <1>5, <2>1
<1> DEFINE c == a \o d
           r == c \o b
<1>11. c \in Seq(S) /\ Len(c) = p /\ \A i \in 1 .. p : c[i] = IF i < p THEN s[i] ELSE x
  BY <1>6
<1> HIDE DEF c
<1>7. /\ r \in Seq(S) /\ Len(r) = Len(c) + Len(b)
      /\ \A i \in 1 .. Len(c) + Len(b) : r[i] = IF i <= Len(c) THEN c[i] ELSE b[i - Len(c)]
  BY <1>4, <1>11, ConcatProperties
<1> HIDE DEF r
<1>8. Len(r) = N + 1
  BY <1>1, <1>4, <1>7, <1>11
<1>9. \A i \in 1 .. N + 1 : r[i] = IF i < p THEN s[i] ELSE IF i = p THEN x ELSE s[i - 1]
  <2>1. \A i \in 1 .. p : r[i] = IF i < p THEN s[i] ELSE x
    BY <1>1, <1>4, <1>7, <1>11, SMTT(30)
  <2>2. \A i \in p + 1 .. N + 1 : r[i] = b[i - p]
    <3>1. p \in 1 .. N + 1
      OBVIOUS
    <3> HIDE DEF N
    <3>2. \A i \in p + 1 .. N + 1 : i \in 1 .. p + (N - p + 1) /\ ~(i <= p)
      BY <1>1, <3>1
    <3>3. Len(c) + Len(b) = p + (N - p + 1) /\ Len(c) = p
      BY <1>4, <1>11
    <3> QED
      BY <1>7, <3>2, <3>3
  <2> HIDE DEF N
  <2>3. \A i \in p + 1 .. N + 1 : i - p \in 1 .. N - p + 1 /\ p + (i - p) - 1 = i - 1
    BY <1>1
  <2>4. \A i \in p + 1 .. N + 1 : r[i] = s[i - 1]
    BY <1>4, <2>2, <2>3
  <2> QED
    BY <1>1, <2>1, <2>4
<1>10. Seqs!InsertAt(s, p, x) = r
  BY <1>2 DEF r, c
<1> QED
  BY <1>7, <1>8, <1>9, <1>10

LEMMA Removed ==
  ASSUME NEW S, NEW s \in Seq(S), NEW p \in 1 .. Len(s)
  PROVE  LET r == Seqs!RemoveAt(s, p)
         IN  /\ r \in Seq(S) /\ Len(r) = Len(s) - 1
             /\ \A i \in 1 .. Len(r) : r[i] = IF i < p THEN s[i] ELSE s[i + 1]
<1> DEFINE a == SubSeq(s, 1, p - 1)
           b == SubSeq(s, p + 1, Len(s))
           N == Len(s)
           r == a \o b
<1>1. N \in Nat /\ \A i \in 1 .. N : s[i] \in S
  OBVIOUS
<1>2. Seqs!RemoveAt(s, p) = r
  BY DEF Seqs!RemoveAt
<1>3. a \in Seq(S) /\ Len(a) = p - 1 /\ \A i \in 1 .. p - 1 : a[i] = s[i]
  <2>1. 1 \in Int /\ p - 1 \in Int /\ \A i \in 1 .. p - 1 : s[i] \in S
    BY <1>1
  <2>2. /\ a \in Seq(S) /\ Len(a) = IF 1 <= p - 1 THEN (p - 1) - 1 + 1 ELSE 0
        /\ \A i \in 1 .. (p - 1) - 1 + 1 : a[i] = s[1 + i - 1]
    BY <2>1, SubSeqProperties
  <2> HIDE DEF a
  <2> QED
    BY <1>1, <2>2
<1>4. b \in Seq(S) /\ Len(b) = N - p /\ \A i \in 1 .. N - p : b[i] = s[p + i]
  <2>1. p + 1 \in Int /\ N \in Int /\ \A i \in p + 1 .. N : s[i] \in S
    BY <1>1
  <2>2. /\ b \in Seq(S) /\ Len(b) = IF p + 1 <= N THEN N - (p + 1) + 1 ELSE 0
        /\ \A i \in 1 .. N - (p + 1) + 1 : b[i] = s[(p + 1) + i - 1]
    BY <2>1, SubSeqProperties
  <2> HIDE DEF b, N
  <2>3. /\ N - (p + 1) + 1 = N - p /\ (IF p + 1 <= N THEN N - (p + 1) + 1 ELSE 0) = N - p
        /\ \A i \in 1 .. N - p : (p + 1) + i - 1 = p + i
    <3>1. p \in 1 .. N
      BY DEF N
    <3> QED
      BY <1>1, <3>1
  <2> QED
    BY <2>2, <2>3
<1> HIDE DEF a, b
<1>5. /\ r \in Seq(S) /\ Len(r) = Len(a) + Len(b)
      /\ \A i \in 1 .. Len(a) + Len(b) : r[i] = IF i <= Len(a) THEN a[i] ELSE b[i - Len(a)]
  BY <1>3, <1>4, ConcatProperties
<1> HIDE DEF r
<1>6. p \in 1 .. N
  OBVIOUS
<1> HIDE DEF N
<1>7. Len(r) = N - 1
  BY <1>1, <1>3, <1>4, <1>5, <1>6
<1>8. \A i \in 1 .. N - 1 : r[i] = IF i < p THEN s[i] ELSE s[i + 1]
  <2>1. \A i \in 1 .. p - 1 : r[i] = s[i]
    BY <1>1, <1>3, <1>4, <1>5, <1>6
  <2>2. \A i \in p .. N - 1 : r[i] = b[i - (p - 1)]
    BY <1>1, <1>3, <1>4, <1>5, <1>6
  <2>3. \A i \in p .. N - 1 : i - (p - 1) \in 1 .. N - p /\ p + (i - (p - 1)) = i + 1
    BY <1>1, <1>6
  <2>4. \A i \in p .. N - 1 : r[i] = s[i + 1]
    BY <1>4, <2>2, <2>3
  <2> QED
    BY <1>1, <1>6, <2>1, <2>4
<1> QED
  BY <1>2, <1>5, <1>7, <1>8 DEF N

\* The first of some places is one of them.
LEMMA FirstOf ==
  ASSUME NEW N \in Nat, NEW S, S \subseteq 1 .. N, S # {}
  PROVE  LET f == CHOOSE n \in S : \A p \in S : n <= p
         IN  f \in S /\ \A p \in S : f <= p
<1> DEFINE T == {n \in 0 .. N : (\E m \in S : m <= n) => \E m \in S : \A p \in S : m <= p}
<1>1. 0 \in T
  OBVIOUS
<1>2. \A k \in 1 .. N : k - 1 \in T => k \in T
  <2> SUFFICES ASSUME NEW k \in 1 .. N, k - 1 \in T PROVE k \in T
    OBVIOUS
  <2>1. CASE \E m \in S : m <= k - 1
    BY <2>1
  <2>2. CASE ~ \E m \in S : m <= k - 1
    <3>1. \A p \in S : k <= p
      BY <2>2
    <3> QED
      BY <3>1
  <2> QED
    BY <2>1, <2>2
<1>3. T \subseteq 0 .. N
  OBVIOUS
<1> HIDE DEF T
<1>4. T = 0 .. N
  BY <1>1, <1>2, <1>3, Reach
<1>5. \E m \in S : \A p \in S : m <= p
  <2>1. N \in T
    BY <1>4
  <2>2. PICK m \in S : TRUE
    OBVIOUS
  <2>3. m \in S /\ m <= N
    BY <2>2
  <2> QED
    BY <2>1, <2>3 DEF T
<1> QED
  BY <1>5, Zenon

-----------------------------------------------------------------------------
(* OamBands: the lists *)

\* The operators with their bands, each operator once.
ListsOK(l) == l \in Seq(OperNode) /\ InOrder(l)

LEMMA NodeIs ==
  ASSUME NEW x \in OperNode
  PROVE  x.oper \in OperSet /\ x.oper \in Nat /\ x.bands \in Seq(Band)
<1> DEFINE B == Seq(Band)
<1>1. x \in [oper : OperSet, bands : B]
  BY DEF OperNode
<1> HIDE DEF B
<1>2. x.oper \in OperSet /\ x.bands \in B
  BY <1>1
<1> QED
  BY <1>2, BandsAssumption DEF B

LEMMA NodesAre ==
  ASSUME NEW l \in Seq(OperNode), NEW n \in 1 .. Len(l)
  PROVE  l[n] \in OperNode /\ l[n].oper \in OperSet /\ l[n].oper \in Nat /\ l[n].bands \in Seq(Band)
<1>1. l[n] \in OperNode
  OBVIOUS
<1> QED
  BY <1>1, NodeIs

LEMMA OperAtIs ==
  ASSUME NEW l \in Seq(OperNode), NEW o
  PROVE  /\ OperAt(l, o) \in 0 .. Len(l)
         /\ OperAt(l, o) # 0 => l[OperAt(l, o)].oper = o
         /\ OperAt(l, o) = 0 => \A n \in 1 .. Len(l) : l[n].oper # o
<1> DEFINE hits == {n \in 1 .. Len(l) : l[n].oper = o}
           f == CHOOSE n \in hits : \A p \in hits : n <= p
<1>1. OperAt(l, o) = IF hits = {} THEN 0 ELSE f
  BY DEF OperAt
<1>2. hits \subseteq 1 .. Len(l) /\ Len(l) \in Nat
  OBVIOUS
<1>3. \A n : n \in hits <=> n \in 1 .. Len(l) /\ l[n].oper = o
  OBVIOUS
<1> HIDE DEF hits
<1>4. hits # {} => f \in hits
  BY <1>2, FirstOf
<1> HIDE DEF f
<1> QED
  BY <1>1, <1>2, <1>3, <1>4

LEMMA PlaceIs ==
  ASSUME NEW l \in Seq(OperNode), NEW o \in OperSet
  PROVE  /\ PlaceOf(l, o) \in 1 .. Len(l) + 1
         /\ PlaceOf(l, o) <= Len(l) => o <= l[PlaceOf(l, o)].oper
         /\ \A n \in 1 .. PlaceOf(l, o) - 1 : l[n].oper < o
<1> DEFINE after == {n \in 1 .. Len(l) : o <= l[n].oper}
           f == CHOOSE n \in after : \A p \in after : n <= p
<1>1. PlaceOf(l, o) = IF after = {} THEN Len(l) + 1 ELSE f
  BY DEF PlaceOf
<1>2. after \subseteq 1 .. Len(l) /\ Len(l) \in Nat
  OBVIOUS
<1>3. \A n : n \in after <=> n \in 1 .. Len(l) /\ o <= l[n].oper
  OBVIOUS
<1>4. o \in Nat /\ \A n \in 1 .. Len(l) : l[n].oper \in Nat
  BY NodesAre, BandsAssumption
<1> HIDE DEF after
<1>5. after # {} => f \in after /\ \A p \in after : f <= p
  BY <1>2, FirstOf
<1>6. CASE after = {}
  <2>1. PlaceOf(l, o) = Len(l) + 1
    BY <1>1, <1>6
  <2>2. \A n \in 1 .. Len(l) : l[n].oper < o
    BY <1>3, <1>4, <1>6
  <2> QED
    BY <1>2, <2>1, <2>2
<1>7. CASE after # {}
  <2>1. PlaceOf(l, o) = f
    BY <1>1, <1>7
  <2>2. f \in after /\ \A p \in after : f <= p
    BY <1>5, <1>7
  <2> HIDE DEF f
  <2>3. f \in 1 .. Len(l) /\ o <= l[f].oper
    BY <1>3, <2>2
  <2>4. \A n \in 1 .. f - 1 : l[n].oper < o
    <3> SUFFICES ASSUME NEW n \in 1 .. f - 1 PROVE l[n].oper < o
      OBVIOUS
    <3>1. n \notin after /\ n \in 1 .. Len(l)
      BY <1>2, <2>2, <2>3
    <3> QED
      BY <1>3, <1>4, <3>1
  <2> QED
    BY <1>2, <2>1, <2>3, <2>4
<1> QED
  BY <1>6, <1>7

LEMMA InsertOper ==
  ASSUME ListsOK(opers), NEW o \in OperSet, oam_oper_list_insert(o)
  PROVE  ListsOK(opers')
<1> DEFINE l == opers
           x == [oper |-> o, bands |-> <<>>]
           p == PlaceOf(l, o)
           r == opers'
<1>1. r = Seqs!InsertAt(l, p, x) /\ OperAt(l, o) = 0 /\ l \in Seq(OperNode)
  BY DEF oam_oper_list_insert, OperInserted, ListsOK
<1>2. x \in OperNode /\ x.oper = o
  BY DEF OperNode
<1>3. \A n \in 1 .. Len(l) : l[n].oper # o /\ l[n].oper \in Nat
  BY <1>1, OperAtIs, NodesAre
<1>4. /\ p \in 1 .. Len(l) + 1
      /\ p <= Len(l) => o <= l[p].oper
      /\ \A n \in 1 .. p - 1 : l[n].oper < o
  BY <1>1, PlaceIs
<1>5. \A n \in 1 .. Len(l) - 1 : l[n].oper < l[n + 1].oper
  BY DEF ListsOK, InOrder
<1>6. Len(l) \in Nat /\ o \in Nat
  BY <1>1, BandsAssumption
<1> HIDE DEF l, x, p, r
<1>7. /\ r \in Seq(OperNode) /\ Len(r) = Len(l) + 1
      /\ \A i \in 1 .. Len(r) : r[i] = IF i < p THEN l[i] ELSE IF i = p THEN x ELSE l[i - 1]
  BY <1>1, <1>2, <1>4, Inserted
<1>8. ASSUME NEW n \in 1 .. Len(r) - 1 PROVE r[n].oper < r[n + 1].oper
  <2>1. CASE n + 1 < p
    <3>1. r[n] = l[n] /\ r[n + 1] = l[n + 1] /\ n \in 1 .. Len(l) - 1
      BY <1>4, <1>6, <1>7, <2>1
    <3> QED
      BY <1>5, <3>1
  <2>2. CASE n + 1 = p
    <3>1. r[n] = l[n] /\ r[n + 1] = x /\ n \in 1 .. p - 1
      BY <1>4, <1>6, <1>7, <2>2
    <3> QED
      BY <1>2, <1>4, <3>1
  <2>3. CASE n = p
    <3>1. r[n] = x /\ r[n + 1] = l[p] /\ p \in 1 .. Len(l)
      BY <1>4, <1>6, <1>7, <2>3
    <3> QED
      BY <1>2, <1>3, <1>4, <1>6, <3>1
  <2>4. CASE n > p
    <3>1. r[n] = l[n - 1] /\ r[n + 1] = l[n] /\ n - 1 \in 1 .. Len(l) - 1 /\ (n - 1) + 1 = n
      BY <1>4, <1>6, <1>7, <2>4
    <3> QED
      BY <1>5, <3>1
  <2> QED
    BY <1>4, <1>6, <1>7, <2>1, <2>2, <2>3, <2>4
<1> QED
  BY <1>7, <1>8 DEF r, ListsOK, InOrder

LEMMA DeleteOper ==
  ASSUME ListsOK(opers), NEW o \in OperSet, oam_oper_list_delete(o)
  PROVE  ListsOK(opers')
<1> DEFINE l == opers
           p == OperAt(l, o)
           r == opers'
<1>1. l \in Seq(OperNode) /\ r = IF p = 0 THEN l ELSE Seqs!RemoveAt(l, p)
  BY DEF oam_oper_list_delete, ListsOK
<1>2. p \in 0 .. Len(l) /\ Len(l) \in Nat
  BY <1>1, OperAtIs
<1>3. \A n \in 1 .. Len(l) : l[n].oper \in Nat
  BY <1>1, NodesAre
<1>4. \A n \in 1 .. Len(l) - 1 : l[n].oper < l[n + 1].oper
  BY DEF ListsOK, InOrder
<1>5. CASE p = 0
  BY <1>1, <1>5
<1>6. CASE p # 0
  <2> HIDE DEF l, p, r
  <2>1. /\ r \in Seq(OperNode) /\ Len(r) = Len(l) - 1
        /\ \A i \in 1 .. Len(r) : r[i] = IF i < p THEN l[i] ELSE l[i + 1]
    <3>1. p \in 1 .. Len(l) /\ r = Seqs!RemoveAt(l, p)
      BY <1>1, <1>2, <1>6
    <3> QED
      BY <1>1, <3>1, Removed
  <2>2. ASSUME NEW n \in 1 .. Len(r) - 1 PROVE r[n].oper < r[n + 1].oper
    <3>1. n \in 1 .. Len(l) - 1 /\ n + 1 \in 1 .. Len(l) - 1 /\ n + 1 + 1 \in 1 .. Len(l)
      BY <1>2, <2>1
    <3>2. l[n].oper < l[n + 1].oper /\ l[n + 1].oper < l[n + 1 + 1].oper
      BY <1>4, <3>1
    <3>3. l[n].oper \in Nat /\ l[n + 1].oper \in Nat /\ l[n + 1 + 1].oper \in Nat
      BY <1>3, <3>1
    <3>4. /\ r[n] = l[n] \/ r[n] = l[n + 1]
          /\ r[n + 1] = l[n + 1] \/ r[n + 1] = l[n + 1 + 1]
          /\ r[n] = l[n + 1] => r[n + 1] = l[n + 1 + 1] \/ r[n] = l[n]
      BY <1>2, <2>1, <3>1
    <3> QED
      BY <3>2, <3>3, <3>4
  <2> QED
    BY <2>1, <2>2 DEF r, ListsOK, InOrder
<1> QED
  BY <1>5, <1>6

\* The bands of one operator may change.
LEMMA BandsChange ==
  ASSUME NEW l, ListsOK(l), NEW k \in 1 .. Len(l), NEW bs \in Seq(Band)
  PROVE  ListsOK([l EXCEPT ![k].bands = bs])
<1> DEFINE r == [l EXCEPT ![k].bands = bs]
<1>1. l \in Seq(OperNode) /\ \A n \in 1 .. Len(l) : l[n] \in OperNode
  BY DEF ListsOK
<1>2. [l[k] EXCEPT !.bands = bs] \in OperNode /\ [l[k] EXCEPT !.bands = bs].oper = l[k].oper
  BY <1>1 DEF OperNode
<1>3. r = [l EXCEPT ![k] = [l[k] EXCEPT !.bands = bs]]
  OBVIOUS
<1>4. /\ r \in Seq(OperNode) /\ Len(r) = Len(l)
      /\ \A n \in 1 .. Len(l) : r[n].oper = l[n].oper
  BY <1>1, <1>2, <1>3
<1> HIDE DEF r
<1>5. \A n \in 1 .. Len(l) - 1 : n + 1 \in 1 .. Len(l) /\ n \in 1 .. Len(l)
  BY <1>1
<1> QED
  BY <1>4, <1>5 DEF r, ListsOK, InOrder

LEMMA BandIs ==
  ASSUME NEW x \in Band
  PROVE  /\ x.workMode \in {FDD, TDD} /\ x.band \in Nat /\ x.priority \in Nat
         /\ \A p \in Nat : [x EXCEPT !.priority = p] \in Band
  BY DEF Band

LEMMA WithoutIs ==
  ASSUME NEW bs \in Seq(Band), NEW num
  PROVE  Without(bs, num) \in Seq(Band)
<1> DEFINE hits == {n \in 1 .. Len(bs) : bs[n].band = num}
           f == CHOOSE n \in hits : \A p \in hits : n <= p
<1>1. Without(bs, num) = IF hits = {} THEN bs ELSE Seqs!RemoveAt(bs, f)
  BY DEF Without
<1>2. hits \subseteq 1 .. Len(bs) /\ Len(bs) \in Nat
  OBVIOUS
<1> HIDE DEF hits
<1>3. hits # {} => f \in 1 .. Len(bs)
  BY <1>2, FirstOf
<1> HIDE DEF f
<1>4. f \in 1 .. Len(bs) => Seqs!RemoveAt(bs, f) \in Seq(Band)
  BY Removed
<1> QED
  BY <1>1, <1>3, <1>4

LEMMA ModifyPriority ==
  ASSUME ListsOK(opers), NEW o, NEW num, NEW p \in Nat, oam_band_prio_modify(o, num, p)
  PROVE  ListsOK(opers')
<1> DEFINE k == OperAt(opers, o)
           bs == opers[k].bands
           hits == {n \in 1 .. Len(bs) : bs[n].band = num}
           f == CHOOSE n \in hits : \A q \in hits : n <= q
           x == [bs[f] EXCEPT !.priority = p]
           cs == [bs EXCEPT ![f] = x]
<1>1. k # 0 /\ hits # {} /\ opers' = [opers EXCEPT ![k].bands[f].priority = p]
  BY DEF oam_band_prio_modify
<1>2. opers \in Seq(OperNode)
  BY DEF ListsOK
<1>3. k \in 1 .. Len(opers)
  <2>1. OperAt(opers, o) # 0 => OperAt(opers, o) \in 1 .. Len(opers)
    BY <1>2, OperAtIs
  <2>2. OperAt(opers, o) # 0
    BY <1>1
  <2> QED
    BY <2>1, <2>2
<1>4. bs \in Seq(Band)
  BY <1>2, <1>3, NodesAre
<1>5. opers' = [opers EXCEPT ![k].bands = cs]
  BY <1>1
<1>6. hits \subseteq 1 .. Len(bs) /\ Len(bs) \in Nat
  BY <1>4
<1> HIDE DEF k, bs, hits
<1>7. f \in 1 .. Len(bs)
  BY <1>1, <1>6, FirstOf
<1> HIDE DEF f
<1>8. x \in Band
  <2>1. bs[f] \in Band
    BY <1>4, <1>7
  <2> QED
    BY <2>1, BandIs
<1> HIDE DEF x
<1>9. cs \in Seq(Band)
  BY <1>4, <1>7, <1>8
<1> HIDE DEF cs
<1> QED
  BY <1>3, <1>5, <1>9, BandsChange

LEMMA ListsStep ==
  ASSUME ListsOK(opers), [BandsNext]_opers
  PROVE  ListsOK(opers')
<1> USE DEF ListsOK
<1>1. ASSUME NEW o \in OperSet, NEW b \in BandSet, oam_bands_list_insert(o, b)
      PROVE  ListsOK(opers')
  <2> DEFINE k == OperAt(opers, o)
             bs == opers[k].bands
  <2>1. opers' = IF k = 0 THEN opers ELSE [opers EXCEPT ![k].bands = Append(bs, b)]
    BY <1>1 DEF oam_bands_list_insert, BandInserted
  <2>2. k # 0 => k \in 1 .. Len(opers)
    BY OperAtIs
  <2>3. k # 0 => bs \in Seq(Band)
    BY <2>2, NodesAre
  <2>4. b \in Band
    BY BandsAssumption
  <2> HIDE DEF bs, k, ListsOK
  <2>5. k # 0 => Append(bs, b) \in Seq(Band)
    BY <2>3, <2>4
  <2> QED
    BY <2>1, <2>2, <2>5, BandsChange
<1>2. ASSUME NEW o \in OperSet, NEW b \in BandSet, oam_bands_list_delete(o, b.band)
      PROVE  ListsOK(opers')
  <2> DEFINE k == OperAt(opers, o)
             bs == opers[k].bands
             cs == Without(bs, b.band)
  <2>1. k # 0 /\ opers' = [opers EXCEPT ![k].bands = cs]
    BY <1>2 DEF oam_bands_list_delete
  <2>2. k \in 1 .. Len(opers)
    BY <2>1, OperAtIs
  <2>3. bs \in Seq(Band)
    BY <2>2, NodesAre
  <2> HIDE DEF bs, k, ListsOK
  <2>4. cs \in Seq(Band)
    BY <2>3, WithoutIs
  <2> HIDE DEF cs
  <2> QED
    BY <2>1, <2>2, <2>4, BandsChange
<1>3. ASSUME NEW o \in OperSet, NEW b \in BandSet, oam_band_prio_modify(o, b.band, b.priority)
      PROVE  ListsOK(opers')
  <2>1. b.priority \in Nat
    BY BandsAssumption DEF Band
  <2> HIDE DEF ListsOK
  <2> QED
    BY <1>3, <2>1, ModifyPriority
<1> HIDE DEF ListsOK
<1>4. CASE UNCHANGED opers
  BY <1>4
<1> QED
  BY <1>1, <1>2, <1>3, <1>4, InsertOper, DeleteOper DEF BandsNext

-----------------------------------------------------------------------------
(* OamBands: the band of highest priority *)

NoBand == [workMode |-> FDD, band |-> 0, priority |-> 0]

\* What the loop has after the first n bands: the first of the highest priority among those of the modes.
BestAmong(bs, modes, n, best) ==
  \/ /\ best = NoBand
     /\ \A m \in 1 .. n : bs[m].workMode \in modes => bs[m].priority = 0
  \/ \E k \in 1 .. n :
       /\ bs[k] = best /\ best.workMode \in modes /\ best.priority > 0
       /\ \A m \in 1 .. n : bs[m].workMode \in modes => bs[m].priority <= best.priority
       /\ \A m \in 1 .. k - 1 : bs[m].workMode \in modes => bs[m].priority < best.priority

LEMMA BestGoesOn ==
  ASSUME NEW bs \in Seq(Band), NEW modes, NEW n \in 1 .. Len(bs), NEW best, BestAmong(bs, modes, n - 1, best)
  PROVE  BestAmong(bs, modes, n, IF bs[n].workMode \in modes /\ Better(bs[n], best) THEN bs[n] ELSE best)
<1> DEFINE N == Len(bs)
<1>1. N \in Nat /\ \A m \in 1 .. N : bs[m].priority \in Nat
  <2>1. N \in Nat /\ \A m \in 1 .. N : bs[m] \in Band
    OBVIOUS
  <2> QED
    BY <2>1, BandIs
<1>2. n \in 1 .. N
  OBVIOUS
<1> HIDE DEF N
<1>3. \A m \in 1 .. n : m = n \/ m \in 1 .. n - 1
  BY <1>1, <1>2
<1>4. best.priority \in Nat /\ \A m \in 1 .. n - 1 : bs[m].workMode \in modes => bs[m].priority <= best.priority
  BY <1>1, <1>2 DEF BestAmong, NoBand
<1>5. CASE bs[n].workMode \in modes /\ Better(bs[n], best)
  <2>1. bs[n].priority > 0 /\ \A m \in 1 .. n - 1 : bs[m].workMode \in modes => bs[m].priority < bs[n].priority
    BY <1>1, <1>2, <1>4, <1>5, SMTT(30) DEF Better
  <2>2. \A m \in 1 .. n : bs[m].workMode \in modes => bs[m].priority <= bs[n].priority
    BY <1>1, <1>2, <1>3, <2>1
  <2>3. n \in 1 .. n
    BY <1>2
  <2> QED
    BY <1>5, <2>1, <2>2, <2>3 DEF BestAmong
<1>6. CASE ~(bs[n].workMode \in modes /\ Better(bs[n], best))
  <2>1. bs[n].workMode \in modes => bs[n].priority <= best.priority
    BY <1>1, <1>2, <1>4, <1>6 DEF Better
  <2>2. CASE /\ best = NoBand
             /\ \A m \in 1 .. n - 1 : bs[m].workMode \in modes => bs[m].priority = 0
    <3>1. bs[n].workMode \in modes => bs[n].priority = 0
      BY <1>1, <1>2, <2>1, <2>2 DEF NoBand
    <3> QED
      BY <1>3, <1>6, <2>2, <3>1 DEF BestAmong
  <2>3. ASSUME NEW k \in 1 .. n - 1, bs[k] = best, best.workMode \in modes, best.priority > 0,
               \A m \in 1 .. k - 1 : bs[m].workMode \in modes => bs[m].priority < best.priority
        PROVE  BestAmong(bs, modes, n, best)
    <3>1. k \in 1 .. n
      BY <1>2
    <3>2. \A m \in 1 .. n : bs[m].workMode \in modes => bs[m].priority <= best.priority
      BY <1>3, <1>4, <2>1
    <3> QED
      BY <2>3, <3>1, <3>2 DEF BestAmong
  <2> QED
    BY <1>6, <2>2, <2>3 DEF BestAmong
<1> QED
  BY <1>5, <1>6

LEMMA HighestIs ==
  ASSUME NEW bs \in Seq(Band), NEW modes
  PROVE  BestAmong(bs, modes, Len(bs), Highest(bs, modes))
<1> DEFINE N == Len(bs)
           Next2(k, x) == IF bs[k].workMode \in modes /\ Better(bs[k], x) THEN bs[k] ELSE x
           step == [kx \in (1 .. N) \X Band |-> Next2(kx[1], kx[2])]
           Is(g) == g = [n \in 0 .. N |-> IF n = 0 THEN NoBand ELSE Next2(n, g[n - 1])]
           best == CHOOSE g : Is(g)
<1>1. Highest(bs, modes) = best[N]
  BY Zenon DEF Highest, NoBand
<1>2. N \in Nat /\ \A k \in 1 .. N : bs[k] \in Band
  OBVIOUS
<1>3. NoBand \in Band
  BY DEF NoBand, Band
<1> HIDE DEF N
<1>4. \A k \in 1 .. N, x \in Band : step[<<k, x>>] = Next2(k, x) /\ Next2(k, x) \in Band
  BY <1>2
<1> HIDE DEF step
<1>5. PICK f \in [0 .. N -> Band] : Goes(f, N, NoBand, step)
  BY <1>2, <1>3, <1>4, StepsExist
<1>6. \A k \in 1 .. N : k \in 0 .. N /\ k - 1 \in 0 .. N /\ k # 0
  BY <1>2
<1>7. \A k \in 1 .. N : f[k] = Next2(k, f[k - 1])
  BY <1>4, <1>5, <1>6 DEF Goes
<1> HIDE DEF Next2
<1>8. Is(f)
  <2> DEFINE g == [k \in 0 .. N |-> IF k = 0 THEN NoBand ELSE Next2(k, f[k - 1])]
  <2>1. ASSUME NEW k \in 0 .. N PROVE f[k] = g[k]
    <3>1. CASE k = 0
      BY <1>5, <3>1 DEF Goes
    <3>2. CASE k # 0
      <4>1. k \in 1 .. N
        BY <1>2, <3>2
      <4> QED
        BY <1>7, <3>2, <4>1
    <3> QED
      BY <3>1, <3>2
  <2>2. f \in [0 .. N -> Band] /\ DOMAIN g = 0 .. N /\ g = [k \in DOMAIN g |-> g[k]]
    OBVIOUS
  <2> HIDE DEF g
  <2>3. f = g
    BY <2>1, <2>2
  <2> QED
    BY <2>3 DEF g
<1>9. Is(best)
  BY <1>8, Zenon
<1> HIDE DEF best
<1>10. best[0] = NoBand /\ \A k \in 1 .. N : best[k] = Next2(k, best[k - 1])
  <2>1. 0 \in 0 .. N
    BY <1>2
  <2>2. \A k \in 0 .. N : best[k] = IF k = 0 THEN NoBand ELSE Next2(k, best[k - 1])
    BY <1>9, Zenon
  <2> QED
    BY <1>6, <2>1, <2>2
<1> HIDE DEF Is
<1> DEFINE T == {k \in 0 .. N : BestAmong(bs, modes, k, best[k])}
<1>11. 0 \in T
  BY <1>2, <1>10 DEF BestAmong
<1>12. ASSUME NEW k \in 1 .. N, k - 1 \in T PROVE k \in T
  <2>1. BestAmong(bs, modes, k - 1, best[k - 1])
    BY <1>12
  <2>2. BestAmong(bs, modes, k, Next2(k, best[k - 1]))
    BY <2>1, BestGoesOn DEF N, Next2
  <2> QED
    BY <1>6, <1>10, <2>2
<1>13. T \subseteq 0 .. N
  OBVIOUS
<1> HIDE DEF T
<1>14. T = 0 .. N
  BY <1>2, <1>11, <1>12, <1>13, Reach
<1>15. N \in T
  BY <1>2, <1>14
<1> QED
  BY <1>1, <1>15 DEF T, N

LEMMA BandsOfIs ==
  ASSUME NEW l \in Seq(OperNode), NEW o
  PROVE  BandsOf(l, o) \in Seq(Band)
<1>1. CASE OperAt(l, o) = 0
  BY <1>1 DEF BandsOf
<1>2. CASE OperAt(l, o) # 0
  <2>1. OperAt(l, o) \in 1 .. Len(l)
    BY <1>2, OperAtIs
  <2> QED
    BY <1>2, <2>1, NodesAre DEF BandsOf
<1> QED
  BY <1>1, <1>2

\* What is chosen is one of the operator's bands.
LEMMA ChosenIsOffered ==
  ASSUME NEW l \in Seq(OperNode), NEW o, NEW modes, Highest(BandsOf(l, o), modes).band # 0
  PROVE  Offered(l, o, Highest(BandsOf(l, o), modes).band)
<1> DEFINE bs == BandsOf(l, o)
           best == Highest(bs, modes)
<1>1. bs \in Seq(Band)
  BY BandsOfIs
<1>2. best.band # 0
  OBVIOUS
<1> HIDE DEF bs
<1>3. BestAmong(bs, modes, Len(bs), best)
  BY <1>1, HighestIs
<1> HIDE DEF best
<1>4. \E k \in 1 .. Len(bs) : bs[k] = best
  BY <1>2, <1>3 DEF BestAmong, NoBand
<1> QED
  BY <1>4 DEF Offered, bs, best

LEMMA ListsInOrder == ListsOK(opers) => BandsInOrder
<1> SUFFICES ASSUME ListsOK(opers) PROVE BandsInOrder
  OBVIOUS
<1>1. opers \in Seq(OperNode) /\ InOrder(opers)
  BY DEF ListsOK
<1>2. \A n \in 1 .. Len(opers) : opers[n].oper \in OperSet
  BY <1>1, NodesAre
<1>3. ASSUME NEW bs \in Seq(Band)
      PROVE  LET best == Highest(bs, {FDD, TDD})
             IN  IF \A n \in 1 .. Len(bs) : bs[n].priority = 0 THEN best.band = 0
                 ELSE \E n \in 1 .. Len(bs) :
                        /\ bs[n] = best
                        /\ \A m \in 1 .. Len(bs) : bs[m].priority <= best.priority
                        /\ \A m \in 1 .. n - 1 : bs[m].priority < best.priority
  <2> DEFINE best == Highest(bs, {FDD, TDD})
             N == Len(bs)
  <2>1. BestAmong(bs, {FDD, TDD}, N, best)
    BY HighestIs
  <2>2. N \in Nat /\ \A m \in 1 .. N : bs[m].workMode \in {FDD, TDD} /\ bs[m].priority \in Nat
    <3>1. N \in Nat /\ \A m \in 1 .. N : bs[m] \in Band
      OBVIOUS
    <3> QED
      BY <3>1, BandIs
  <2> HIDE DEF best, N
  <2>3. CASE best = NoBand /\ \A m \in 1 .. N : bs[m].workMode \in {FDD, TDD} => bs[m].priority = 0
    BY <2>2, <2>3 DEF NoBand, best, N
  <2>4. ASSUME NEW k \in 1 .. N, bs[k] = best, best.priority > 0,
               \A m \in 1 .. N : bs[m].workMode \in {FDD, TDD} => bs[m].priority <= best.priority,
               \A m \in 1 .. k - 1 : bs[m].workMode \in {FDD, TDD} => bs[m].priority < best.priority
        PROVE  /\ ~ \A n \in 1 .. N : bs[n].priority = 0
               /\ \E n \in 1 .. N :
                    /\ bs[n] = best
                    /\ \A m \in 1 .. N : bs[m].priority <= best.priority
                    /\ \A m \in 1 .. n - 1 : bs[m].priority < best.priority
    <3>1. \A m \in 1 .. k - 1 : m \in 1 .. N
      BY <2>2
    <3>2. /\ \A m \in 1 .. N : bs[m].priority <= best.priority
          /\ \A m \in 1 .. k - 1 : bs[m].priority < best.priority
      BY <2>2, <2>4, <3>1
    <3>3. bs[k].priority # 0
      BY <2>2, <2>4
    <3> QED
      BY <2>4, <3>2, <3>3
  <2> QED
    BY <2>1, <2>3, <2>4 DEF BestAmong, best, N
<1>4. \A o \in OperSet : BandsOf(opers, o) \in Seq(Band)
  BY <1>1, BandsOfIs
<1> QED
  BY <1>1, <1>2, <1>3, <1>4 DEF BandsInOrder, BestOfOper

\* Whatever is inserted, deleted and changed: the operators stay in order, each once, and the band an
\* operator starts with is the first of the highest priority it has.
THEOREM ListsStayInOrder == BandsSpec => []BandsInOrder
<1>1. BandsInit => ListsOK(opers)
  BY DEF BandsInit, ListsOK, InOrder
<1>2. ListsOK(opers) /\ [BandsNext]_opers => ListsOK(opers)'
  BY ListsStep
<1> QED
  BY <1>1, <1>2, ListsInOrder, PTL DEF BandsSpec

-----------------------------------------------------------------------------
(* LteOam: the exchanges of the two threads *)

Item(c, a, k) == [cmd |-> c, arg |-> a, skip |-> k]

\* Steps of an environment scan and of the acquisition of a cell, which any thread may have.
ScanSteps ==
  [cmd : {"lock"}, arg : OperSet, skip : Nat] \cup [cmd : {"mode"}, arg : {"LTE"}, skip : Nat]
    \cup [cmd : {"band"}, arg : Nat, skip : Nat] \cup [cmd : {"cmgrmi"}, arg : {0}, skip : Nat]

\* And those of a search for a cell, which only main makes.
AnySteps ==
  ScanSteps \cup [cmd : {"build"}, arg : {0}, skip : Nat] \cup [cmd : {"mode"}, arg : {"GSM"}, skip : Nat]

Threads == {"main", "scan"}
Orders == {"para", "oper", "mode"}
Ahead(steps) == job["main"] = steps

\* The steps that can be left of an order, of a report that is made the unit's cell, and of a search
\* for a GSM cell.
Order3(o, b) == <<Item("lock", o, Stop), Item("mode", "LTE", Stop), Item("band", b, Stop)>>
Order2(b) == <<Item("mode", "LTE", Stop), Item("band", b, Stop)>>
Order1(b) == <<Item("band", b, Stop)>>
Report2 == <<Item("cmgrmi", 0, Stop), Item("build", 0, 0)>>
Report1 == <<Item("build", 0, 0)>>
Release3(o) == <<Item("lock", o, 0), Item("mode", "GSM", 0), Item("mode", "LTE", 0)>>
Release2 == <<Item("mode", "GSM", 0), Item("mode", "LTE", 0)>>
Release1 == <<Item("mode", "LTE", 0)>>

\* What main has left to do is the rest of the work it is at.
OrderJob ==
  Ahead(Order3(cn_oper, band)) \/ Ahead(Order2(band)) \/ Ahead(Order1(band)) \/ Ahead(<<>>)
CellJob ==
  \/ Ahead(Report2)
  \/ Ahead(Report1) /\ heard.oper \in OperSet
  \/ (\E o \in {CMCC, CUCC} : Ahead(Release3(o))) \/ Ahead(Release2) \/ Ahead(Release1) \/ Ahead(<<>>)
MainJob ==
  /\ goal \in {"none", "refused"} => Ahead(<<>>)
  /\ goal \in Orders => OrderJob /\ Offered(opers, cn_oper, band)
  /\ goal = "band" => Ahead(Order1(band)) \/ Ahead(<<>>)
  /\ goal = "env" => job["main"] \in Seq(ScanSteps)
  /\ goal = "cell" => CellJob

\* While the last order is under way or done, no scan is, and the modem is set as far as the order is
\* done.
OrderPending ==
  settled = "pending" =>
       /\ goal \in Orders \cup {"refused"}
       /\ goal \in Orders /\ (Ahead(Order2(band)) \/ Ahead(Order1(band))) => settings.lock = cn_oper
       /\ goal \in Orders /\ Ahead(<<>>) /\ ret => settings.lock = cn_oper /\ settings.band = band
OrderDone ==
  settled = "done" =>
       /\ goal \in {"none", "band", "cell"} /\ settings.lock = cn_oper /\ Offered(opers, cn_oper, band)
       /\ goal \in {"none", "cell"} => settings.band = band
       /\ goal = "band" /\ Ahead(<<>>) /\ ret => settings.band = band
       /\ goal = "cell" /\ Ahead(Report1) => heard = [oper |-> cn_oper, band |-> band]
       /\ goal = "cell" => \A o \in {CMCC, CUCC} : Ahead(Release3(o)) => o = cn_oper
Settled == (spc = "scan" => settled = "no") /\ OrderPending /\ OrderDone

OamTypes ==
  /\ cn_oper \in OperSet /\ band \in Nat /\ ret \in BOOLEAN /\ unrestored \in BOOLEAN
  /\ settings \in [lock : OperSet, mode : {"LTE", "GSM"}, band : Nat]
  /\ heard \in [oper : OperSet \cup {255}, band : Nat]
  /\ pbs \in [oper : OperSet, band : Nat]
  /\ goal = "oper" => old \in [oper : OperSet, band : Nat]
  /\ goal \in {"none", "refused", "band", "env", "cell"} \cup Orders
  /\ spc \in {"check", "wait", "begin", "scan"} /\ sync_var \in {0, 0 - 1}
  /\ settled \in {"no", "pending", "done"}
  /\ DOMAIN job = Threads
  /\ job["main"] \in Seq(AnySteps) /\ job["scan"] \in Seq(ScanSteps)
  /\ job["scan"] # <<>> => spc = "scan"

OamInv ==
  /\ ListsOK(opers) /\ OamTypes /\ MainJob /\ Settled
  /\ spc \in {"begin", "scan"} => scanType = asked
  /\ settings.mode = "LTE" \/ unrestored \/ (goal = "cell" /\ Ahead(Release1))

\* One step after another, and the steps after the first.
LEMMA Then ==
  ASSUME NEW S, NEW s \in Seq(S), NEW x \in S, NEW r \in Seq(S),
         Len(r) = Len(s) + 1, \A i \in 1 .. Len(s) : r[i] = s[i], r[Len(s) + 1] = x
  PROVE  s \o <<x>> = r
<1> DEFINE q == <<x>>
           c == s \o q
<1>1. q \in Seq(S) /\ Len(q) = 1 /\ q[1] = x
  OBVIOUS
<1>2. Len(s) \in Nat
  OBVIOUS
<1> HIDE DEF q
<1>3. /\ c \in Seq(S) /\ Len(c) = Len(s) + Len(q)
      /\ \A i \in 1 .. Len(s) + Len(q) : c[i] = IF i <= Len(s) THEN s[i] ELSE q[i - Len(s)]
  BY <1>1, ConcatProperties
<1> HIDE DEF c
<1>4. \A i \in 1 .. Len(r) : c[i] = r[i]
  <2> TAKE i \in 1 .. Len(r)
  <2>1. CASE i <= Len(s)
    <3>1. i \in 1 .. Len(s) /\ i \in 1 .. Len(s) + Len(q)
      BY <1>1, <1>2, <2>1
    <3> QED
      BY <1>3, <2>1, <3>1
  <2>2. CASE ~(i <= Len(s))
    <3>1. i = Len(s) + 1 /\ i - Len(s) = 1 /\ i \in 1 .. Len(s) + Len(q)
      BY <1>1, <1>2, <2>2
    <3>2. c[i] = q[i - Len(s)]
      BY <1>3, <2>2, <3>1
    <3> QED
      BY <1>1, <3>1, <3>2
  <2> QED
    BY <2>1, <2>2
<1>5. Len(c) = Len(r)
  BY <1>1, <1>3
<1>6. c = r
  BY <1>3, <1>4, <1>5, SeqEqual
<1> QED
  BY <1>6 DEF c, q

LEMMA Two == ASSUME NEW x, NEW y PROVE <<x>> \o <<y>> = <<x, y>>
<1> DEFINE S == {x, y}
           s == <<x>>
           r == <<x, y>>
<1>1. s \in Seq(S) /\ r \in Seq(S) /\ Len(s) = 1 /\ Len(r) = 2 /\ s[1] = x /\ r[1] = x /\ r[2] = y /\ y \in S
  OBVIOUS
<1> HIDE DEF s, r, S
<1>2. \A i \in 1 .. Len(s) : r[i] = s[i]
  BY <1>1
<1>3. Len(r) = Len(s) + 1 /\ r[Len(s) + 1] = y
  BY <1>1
<1>4. s \o <<y>> = r
  BY <1>1, <1>2, <1>3, Then
<1> QED
  BY <1>4 DEF s, r

LEMMA Three == ASSUME NEW x, NEW y, NEW z PROVE (<<x>> \o <<y>>) \o <<z>> = <<x, y, z>>
<1> DEFINE S == {x, y, z}
           s == <<x, y>>
           r == <<x, y, z>>
<1>1. /\ s \in Seq(S) /\ r \in Seq(S) /\ Len(s) = 2 /\ Len(r) = 3 /\ s[1] = x /\ s[2] = y
      /\ r[1] = x /\ r[2] = y /\ r[3] = z /\ z \in S
  OBVIOUS
<1> HIDE DEF s, r, S
<1>2. \A i \in 1 .. Len(s) : r[i] = s[i]
  BY <1>1
<1>3. Len(r) = Len(s) + 1 /\ r[Len(s) + 1] = z
  BY <1>1
<1>4. s \o <<z>> = r
  BY <1>1, <1>2, <1>3, Then
<1>5. <<x>> \o <<y>> = s
  BY Two DEF s
<1> QED
  BY <1>4, <1>5 DEF r

LEMMA Rests ==
  ASSUME NEW x, NEW y, NEW z
  PROVE  /\ Tail(<<x, y, z>>) = <<y, z>> /\ Tail(<<x, y>>) = <<y>> /\ Tail(<<x>>) = <<>>
         /\ Len(<<x, y>>) = 2 /\ Len(<<x>>) = 1 /\ Len(<<>>) = 0
         /\ <<x, y, z>> # <<>> /\ <<x, y>> # <<>> /\ <<x>> # <<>>
         /\ <<x, y, z>>[1] = x /\ <<x, y>>[1] = x /\ <<x>>[1] = x
OBVIOUS

\* The steps s begin with a command, are r after it, and f when it fails.
Begins(s, cmd, arg, r, f) ==
  /\ s # <<>> /\ s[1].cmd = cmd /\ s[1].arg = arg
  /\ Tail(s) = r /\ SubSeq(Tail(s), s[1].skip + 1, Len(Tail(s))) = f

LEMMA FirstIs ==
  ASSUME NEW s, NEW c, NEW a, NEW k, NEW r \in Seq(AnySteps), s # <<>>, s[1] = Item(c, a, k), Tail(s) = r,
         Len(r) <= 3
  PROVE  (k = 0 => Begins(s, c, a, r, r)) /\ (k = Stop => Begins(s, c, a, r, <<>>))
<1>1. s[1].cmd = c /\ s[1].arg = a /\ s[1].skip = k
  BY DEF Item
<1>2. Len(r) \in Nat
  OBVIOUS
<1>3. SubSeq(r, 1, Len(r)) = r
  BY SubSeqFull
<1>4. SubSeq(r, 10, Len(r)) = <<>>
  <2>1. 10 \in Int /\ Len(r) \in Int /\ Len(r) < 10
    BY <1>2
  <2> QED
    BY <2>1, SubSeqEmpty
<1>5. 0 + 1 = 1 /\ Stop + 1 = 10
  BY DEF Stop
<1> QED
  BY <1>1, <1>3, <1>4, <1>5 DEF Begins

LEMMA ItemsAre ==
  /\ \A o \in OperSet, k \in Nat : Item("lock", o, k) \in ScanSteps
  /\ \A b \in Nat, k \in Nat : Item("band", b, k) \in ScanSteps
  /\ \A k \in Nat : Item("mode", "LTE", k) \in ScanSteps /\ Item("cmgrmi", 0, k) \in ScanSteps
  /\ \A k \in Nat : Item("mode", "GSM", k) \in AnySteps /\ Item("build", 0, k) \in AnySteps
  /\ ScanSteps \subseteq AnySteps /\ Stop \in Nat
BY DEF Item, ScanSteps, AnySteps, Stop

LEMMA SeqsOf ==
  ASSUME NEW S, NEW x \in S, NEW y \in S, NEW z \in S
  PROVE  <<x, y, z>> \in Seq(S) /\ <<x, y>> \in Seq(S) /\ <<x>> \in Seq(S) /\ <<>> \in Seq(S)
OBVIOUS

\* An order is a lock, a mode and a band, and stops at the first that fails.
LEMMA OrderLeft ==
  ASSUME NEW o \in OperSet, NEW b \in Nat
  PROVE  /\ oam_set_eNB_para(o, b) = Order3(o, b) /\ Step("band", b, Stop) = Order1(b)
         /\ Order3(o, b) \in Seq(AnySteps) /\ Order2(b) \in Seq(AnySteps) /\ Order1(b) \in Seq(AnySteps)
         /\ Begins(Order3(o, b), "lock", o, Order2(b), <<>>)
         /\ Begins(Order2(b), "mode", "LTE", Order1(b), <<>>)
         /\ Begins(Order1(b), "band", b, <<>>, <<>>)
<1> DEFINE x == Item("lock", o, Stop)
           y == Item("mode", "LTE", Stop)
           z == Item("band", b, Stop)
<1>1. x \in AnySteps /\ y \in AnySteps /\ z \in AnySteps
  BY ItemsAre
<1>2. oam_set_eNB_para(o, b) = (<<x>> \o <<y>>) \o <<z>> /\ Step("band", b, Stop) = <<z>>
  BY DEF oam_set_eNB_para, Step, Item
<1>3. Order3(o, b) = <<x, y, z>> /\ Order2(b) = <<y, z>> /\ Order1(b) = <<z>>
  BY DEF Order3, Order2, Order1
<1>4. x = Item("lock", o, Stop) /\ y = Item("mode", "LTE", Stop) /\ z = Item("band", b, Stop)
  OBVIOUS
<1> HIDE DEF x, y, z
<1>5. oam_set_eNB_para(o, b) = <<x, y, z>>
  BY <1>2, Three
<1>6. /\ Order3(o, b) \in Seq(AnySteps) /\ Order2(b) \in Seq(AnySteps) /\ Order1(b) \in Seq(AnySteps)
      /\ <<>> \in Seq(AnySteps)
  BY <1>1, <1>3, SeqsOf
<1>7. /\ Tail(Order3(o, b)) = Order2(b) /\ Tail(Order2(b)) = Order1(b) /\ Tail(Order1(b)) = <<>>
      /\ Len(Order2(b)) <= 3 /\ Len(Order1(b)) <= 3 /\ Len(<<>>) <= 3
      /\ Order3(o, b) # <<>> /\ Order2(b) # <<>> /\ Order1(b) # <<>>
      /\ Order3(o, b)[1] = x /\ Order2(b)[1] = y /\ Order1(b)[1] = z
  BY <1>3, Rests
<1>8. Begins(Order3(o, b), "lock", o, Order2(b), <<>>)
  BY <1>4, <1>6, <1>7, FirstIs
<1>9. Begins(Order2(b), "mode", "LTE", Order1(b), <<>>)
  BY <1>4, <1>6, <1>7, FirstIs
<1>10. Begins(Order1(b), "band", b, <<>>, <<>>)
  BY <1>4, <1>6, <1>7, FirstIs
<1> QED
  BY <1>2, <1>3, <1>5, <1>6, <1>8, <1>9, <1>10

\* A search for a GSM cell is a lock and two modes, and goes on whatever fails.
LEMMA ReleaseLeft ==
  ASSUME NEW o \in OperSet
  PROVE  /\ get_rrc_conn_rel_para(o) = IF o \in {CMCC, CUCC} THEN Release3(o) ELSE <<>>
         /\ Release3(o) \in Seq(AnySteps) /\ Release2 \in Seq(AnySteps) /\ Release1 \in Seq(AnySteps)
         /\ Begins(Release3(o), "lock", o, Release2, Release2)
         /\ Begins(Release2, "mode", "GSM", Release1, Release1)
         /\ Begins(Release1, "mode", "LTE", <<>>, <<>>)
<1> DEFINE x == Item("lock", o, 0)
           y == Item("mode", "GSM", 0)
           z == Item("mode", "LTE", 0)
<1>1. x \in AnySteps /\ y \in AnySteps /\ z \in AnySteps
  BY ItemsAre
<1>2. get_rrc_conn_rel_para(o) = IF o \in {CMCC, CUCC} THEN (<<x>> \o <<y>>) \o <<z>> ELSE <<>>
  BY DEF get_rrc_conn_rel_para, Step, Item
<1>3. Release3(o) = <<x, y, z>> /\ Release2 = <<y, z>> /\ Release1 = <<z>>
  BY DEF Release3, Release2, Release1
<1>4. x = Item("lock", o, 0) /\ y = Item("mode", "GSM", 0) /\ z = Item("mode", "LTE", 0)
  OBVIOUS
<1> HIDE DEF x, y, z
<1>5. get_rrc_conn_rel_para(o) = IF o \in {CMCC, CUCC} THEN <<x, y, z>> ELSE <<>>
  BY <1>2, Three
<1>6. /\ Release3(o) \in Seq(AnySteps) /\ Release2 \in Seq(AnySteps) /\ Release1 \in Seq(AnySteps)
      /\ <<>> \in Seq(AnySteps)
  BY <1>1, <1>3, SeqsOf
<1>7. /\ Tail(Release3(o)) = Release2 /\ Tail(Release2) = Release1 /\ Tail(Release1) = <<>>
      /\ Len(Release2) <= 3 /\ Len(Release1) <= 3 /\ Len(<<>>) <= 3
      /\ Release3(o) # <<>> /\ Release2 # <<>> /\ Release1 # <<>>
      /\ Release3(o)[1] = x /\ Release2[1] = y /\ Release1[1] = z
  BY <1>3, Rests
<1>8. Begins(Release3(o), "lock", o, Release2, Release2)
  BY <1>4, <1>6, <1>7, FirstIs
<1>9. Begins(Release2, "mode", "GSM", Release1, Release1)
  BY <1>4, <1>6, <1>7, FirstIs
<1>10. Begins(Release1, "mode", "LTE", <<>>, <<>>)
  BY <1>4, <1>6, <1>7, FirstIs
<1> QED
  BY <1>3, <1>5, <1>6, <1>8, <1>9, <1>10

\* A report, and the cell that is built from it.
LEMMA ReportLeft ==
  /\ lte_cell_select = Report2
  /\ Report2 \in Seq(AnySteps) /\ Report1 \in Seq(AnySteps)
  /\ Begins(Report2, "cmgrmi", 0, Report1, <<>>)
  /\ Begins(Report1, "build", 0, <<>>, <<>>)
<1> DEFINE x == Item("cmgrmi", 0, Stop)
           y == Item("build", 0, 0)
<1>1. x \in AnySteps /\ y \in AnySteps
  BY ItemsAre
<1>2. lte_cell_select = <<x>> \o <<y>>
  BY DEF lte_cell_select, Step, Item
<1>3. Report2 = <<x, y>> /\ Report1 = <<y>>
  BY DEF Report2, Report1
<1>4. x = Item("cmgrmi", 0, Stop) /\ y = Item("build", 0, 0)
  OBVIOUS
<1> HIDE DEF x, y
<1>5. lte_cell_select = <<x, y>>
  BY <1>2, Two
<1>6. Report2 \in Seq(AnySteps) /\ Report1 \in Seq(AnySteps) /\ <<>> \in Seq(AnySteps)
  BY <1>1, <1>3, SeqsOf
<1>7. /\ Tail(Report2) = Report1 /\ Tail(Report1) = <<>>
      /\ Len(Report1) <= 3 /\ Len(<<>>) <= 3 /\ Report2 # <<>> /\ Report1 # <<>>
      /\ Report2[1] = x /\ Report1[1] = y
  BY <1>3, Rests
<1>8. Begins(Report2, "cmgrmi", 0, Report1, <<>>)
  BY <1>4, <1>6, <1>7, FirstIs
<1>9. Begins(Report1, "build", 0, <<>>, <<>>)
  BY <1>4, <1>6, <1>7, FirstIs
<1> QED
  BY <1>3, <1>5, <1>6, <1>8, <1>9

\* What an exchange leaves alone; what one that succeeds does; and one that fails.
Leaves(t) ==
  /\ UNCHANGED <<opers, cn_oper, band, goal, old, sync_var, scan_type, spc, scanType, asked, settled>>
  /\ DOMAIN job' = DOMAIN job /\ \A u \in Threads : u # t => job'[u] = job[u]
  /\ t # "main" => ret' = ret
Passed(t, c, a, r) ==
  /\ t = "main" => ret'
  /\ c \in {"lock", "mode", "band", "cmgrmi", "build"}
  /\ c = "lock" => settings' = [settings EXCEPT !.lock = a]
  /\ c = "mode" => settings' = [settings EXCEPT !.mode = a]
  /\ c = "band" => settings' = [settings EXCEPT !.band = a]
  /\ c \in {"cmgrmi", "build"} => settings' = settings
  /\ heard' = IF c = "cmgrmi" THEN [oper |-> settings.lock, band |-> settings.band] ELSE heard
  /\ c = "build" => pbs' = heard /\ job'[t] = r \o get_rrc_conn_rel_para(heard.oper)
  /\ c # "build" => pbs' = pbs /\ job'[t] = r
Failing(t, c, f) ==
  /\ t = "main" => ~ret'
  /\ c # "build" /\ job'[t] = f
  /\ settings' = settings /\ heard' = heard /\ pbs' = pbs

\* The mode is LTE again, or the command for it failed.
ModeStep(t, c, a) ==
  \/ c # "mode" /\ unrestored' = unrestored /\ settings'.mode = settings.mode
  \/ c = "mode" /\ a = "LTE" /\ settings'.mode = "LTE" /\ ~unrestored'
  \/ c = "mode" /\ a = "LTE" /\ settings'.mode = settings.mode /\ unrestored'
  \/ c = "mode" /\ a # "LTE" /\ unrestored' = unrestored

LEMMA ExchangeIs ==
  ASSUME OamTypes, NEW t \in Threads, Exchange(t), NEW c, NEW a, NEW r, NEW f, Begins(job[t], c, a, r, f)
  PROVE  Leaves(t) /\ (Passed(t, c, a, r) \/ Failing(t, c, f)) /\ ModeStep(t, c, a)
<1>1. /\ DOMAIN job = Threads /\ t \in DOMAIN job
      /\ settings \in [lock : OperSet, mode : {"LTE", "GSM"}, band : Nat]
  BY DEF OamTypes
<1>2. /\ job[t] # <<>> /\ job[t][1].cmd = c /\ job[t][1].arg = a
      /\ Tail(job[t]) = r /\ SubSeq(Tail(job[t]), job[t][1].skip + 1, Len(Tail(job[t]))) = f
  BY DEF Begins
<1>3. CASE LockOperator(t)
  <2>1. c = "lock" /\ settings' = [settings EXCEPT !.lock = a] /\ job' = [job EXCEPT ![t] = r] /\ heard' = heard /\ pbs' = pbs
    BY <1>2, <1>3 DEF LockOperator, Doing, Arg, Done, unitvars
  <2>2. Leaves(t)
    BY <1>1, <1>3 DEF LockOperator, Done, Result, Leaves, unitvars, scanvars, Threads
  <2>3. t = "main" => ret'
    BY <1>3 DEF LockOperator, Done, Result
  <2>4. unrestored' = unrestored
    BY <1>3 DEF LockOperator
  <2>5. Passed(t, c, a, r)
    BY <1>1, <2>1, <2>3 DEF Passed
  <2>6. ModeStep(t, c, a)
    BY <1>1, <2>1, <2>4 DEF ModeStep
  <2> QED
    BY <2>2, <2>5, <2>6
<1>4. CASE SetMode(t)
  <2>1. c = "mode" /\ settings' = [settings EXCEPT !.mode = a] /\ job' = [job EXCEPT ![t] = r] /\ heard' = heard /\ pbs' = pbs
    BY <1>2, <1>4 DEF SetMode, Doing, Arg, Done, unitvars
  <2>2. Leaves(t)
    BY <1>1, <1>4 DEF SetMode, Done, Result, Leaves, unitvars, scanvars, Threads
  <2>3. t = "main" => ret'
    BY <1>4 DEF SetMode, Done, Result
  <2>4. unrestored' = (unrestored /\ a # "LTE")
    BY <1>2, <1>4 DEF SetMode, Arg
  <2>5. Passed(t, c, a, r)
    BY <1>1, <2>1, <2>3 DEF Passed
  <2>6. settings'.mode = a
    BY <1>1, <2>1
  <2>7. unrestored \in BOOLEAN
    BY DEF OamTypes
  <2>8. ModeStep(t, c, a)
    <3>1. CASE a = "LTE"
      <4>1. ~unrestored'
        BY <2>4, <3>1
      <4> QED
        BY <2>1, <2>6, <3>1, <4>1 DEF ModeStep
    <3>2. CASE a # "LTE"
      <4>1. unrestored' = unrestored
        BY <2>4, <2>7, <3>2, Zenon
      <4> QED
        BY <2>1, <3>2, <4>1, Zenon DEF ModeStep
    <3> QED
      BY <3>1, <3>2
  <2> QED
    BY <2>2, <2>5, <2>8
<1>5. CASE SetBand(t)
  <2>1. c = "band" /\ settings' = [settings EXCEPT !.band = a] /\ job' = [job EXCEPT ![t] = r] /\ heard' = heard /\ pbs' = pbs
    BY <1>2, <1>5 DEF SetBand, Doing, Arg, Done, unitvars
  <2>2. Leaves(t)
    BY <1>1, <1>5 DEF SetBand, Done, Result, Leaves, unitvars, scanvars, Threads
  <2>3. t = "main" => ret'
    BY <1>5 DEF SetBand, Done, Result
  <2>4. unrestored' = unrestored
    BY <1>5 DEF SetBand
  <2>5. Passed(t, c, a, r)
    BY <1>1, <2>1, <2>3 DEF Passed
  <2>6. ModeStep(t, c, a)
    BY <1>1, <2>1, <2>4 DEF ModeStep
  <2> QED
    BY <2>2, <2>5, <2>6
<1>6. CASE GetCells(t)
  <2>1. /\ c = "cmgrmi" /\ settings' = settings /\ job' = [job EXCEPT ![t] = r] /\ pbs' = pbs
        /\ heard' = [oper |-> settings.lock, band |-> settings.band]
    BY <1>2, <1>6 DEF GetCells, Doing, Done, unitvars
  <2>2. Leaves(t)
    BY <1>1, <1>6 DEF GetCells, Done, Result, Leaves, unitvars, scanvars, Threads
  <2>3. t = "main" => ret'
    BY <1>6 DEF GetCells, Done, Result
  <2>4. unrestored' = unrestored
    BY <1>6 DEF GetCells
  <2>5. Passed(t, c, a, r)
    BY <1>1, <2>1, <2>3 DEF Passed
  <2>6. ModeStep(t, c, a)
    BY <2>1, <2>4 DEF ModeStep
  <2> QED
    BY <2>2, <2>5, <2>6
<1>7. CASE BuildCell(t)
  <2>1. /\ c = "build" /\ settings' = settings /\ heard' = heard /\ pbs' = heard
        /\ job' = [job EXCEPT ![t] = r \o get_rrc_conn_rel_para(heard.oper)]
    BY <1>2, <1>7 DEF BuildCell, Doing
  <2>2. Leaves(t)
    BY <1>1, <1>7 DEF BuildCell, Result, Leaves, scanvars, Threads
  <2>3. t = "main" => ret'
    BY <1>7 DEF BuildCell, Result
  <2>4. unrestored' = unrestored
    BY <1>7 DEF BuildCell
  <2>5. Passed(t, c, a, r)
    BY <1>1, <2>1, <2>3 DEF Passed
  <2>6. ModeStep(t, c, a)
    BY <2>1, <2>4 DEF ModeStep
  <2> QED
    BY <2>2, <2>5, <2>6
<1>8. CASE ExchangeFails(t)
  <2>1. /\ c # "build" /\ settings' = settings /\ heard' = heard /\ pbs' = pbs
        /\ job' = [job EXCEPT ![t] = f]
    BY <1>2, <1>8 DEF ExchangeFails, unitvars
  <2>2. Leaves(t)
    BY <1>1, <1>8 DEF ExchangeFails, Result, Leaves, unitvars, scanvars, Threads
  <2>3. t = "main" => ~ret'
    BY <1>8 DEF ExchangeFails, Result
  <2>4. unrestored' = (unrestored \/ (c = "mode" /\ a = "LTE"))
    BY <1>2, <1>8 DEF ExchangeFails, Doing, Arg
  <2>5. Failing(t, c, f)
    BY <1>1, <2>1, <2>3 DEF Failing
  <2>6. unrestored \in BOOLEAN
    BY DEF OamTypes
  <2>7. ModeStep(t, c, a)
    <3>1. CASE c = "mode" /\ a = "LTE"
      <4>1. unrestored'
        BY <2>4, <3>1
      <4> QED
        BY <2>1, <3>1, <4>1 DEF ModeStep
    <3>2. CASE ~(c = "mode" /\ a = "LTE")
      <4>1. unrestored' = unrestored
        BY <2>4, <2>6, <3>2, Zenon
      <4> QED
        BY <2>1, <3>2, <4>1, Zenon DEF ModeStep
    <3> QED
      BY <3>1, <3>2
  <2> QED
    BY <2>2, <2>5, <2>7
<1> QED
  BY <1>3, <1>4, <1>5, <1>6, <1>7, <1>8 DEF Exchange

LEMMA SettingsAre ==
  ASSUME OamTypes
  PROVE  /\ settings.lock \in OperSet /\ settings.mode \in {"LTE", "GSM"} /\ settings.band \in Nat
         /\ heard.oper \in OperSet \cup {255} /\ heard.band \in Nat
         /\ heard.oper \in OperSet => heard \in [oper : OperSet, band : Nat]
         /\ [oper |-> settings.lock, band |-> settings.band] \in [oper : OperSet \cup {255}, band : Nat]
BY DEF OamTypes

\* A step can be what a thread sends.
ArgOK(c, a) ==
  (c = "lock" => a \in OperSet) /\ (c = "mode" => a \in {"LTE", "GSM"}) /\ (c = "band" => a \in Nat)

LEMMA ExchangeTypes ==
  ASSUME OamTypes, NEW t \in Threads, Exchange(t), NEW c, NEW a, NEW r, NEW f, Begins(job[t], c, a, r, f),
         ArgOK(c, a), c = "build" => heard.oper \in OperSet,
         t = "main" => job'["main"] \in Seq(AnySteps), t = "scan" => job'["scan"] \in Seq(ScanSteps)
  PROVE  OamTypes'
<1>1. Leaves(t) /\ (Passed(t, c, a, r) \/ Failing(t, c, f)) /\ ModeStep(t, c, a)
  BY ExchangeIs
<1>2. settings' \in [lock : OperSet, mode : {"LTE", "GSM"}, band : Nat]
  BY <1>1 DEF Passed, Failing, ArgOK, OamTypes
<1>3. heard' \in [oper : OperSet \cup {255}, band : Nat]
  BY <1>1, SettingsAre DEF Passed, Failing, OamTypes
<1>4. pbs' \in [oper : OperSet, band : Nat]
  BY <1>1, SettingsAre DEF Passed, Failing, OamTypes
<1>5. ret' \in BOOLEAN
  <2>1. CASE t = "main"
    <3>1. ret' \/ ~ret'
      OBVIOUS
    <3>2. ret' = TRUE \/ ret' = FALSE
      BY <2>1 DEF Exchange, LockOperator, SetMode, SetBand, GetCells, BuildCell, ExchangeFails, Done, Result
    <3> QED
      BY <3>2
  <2>2. CASE t # "main"
    BY <1>1, <2>2, Zenon DEF Leaves, OamTypes
  <2> QED
    BY <2>1, <2>2
<1>6. unrestored' \in BOOLEAN
  <2>1. unrestored \in BOOLEAN
    BY DEF OamTypes
  <2>2. \/ unrestored' = unrestored
        \/ unrestored' = (unrestored /\ Arg(t) # "LTE")
        \/ unrestored' = (unrestored \/ (Doing(t, "mode") /\ Arg(t) = "LTE"))
    BY Zenon DEF Exchange, LockOperator, SetMode, SetBand, GetCells, BuildCell, ExchangeFails
  <2> QED
    BY <2>1, <2>2, Zenon
<1>7. /\ DOMAIN job' = Threads /\ job'["main"] \in Seq(AnySteps) /\ job'["scan"] \in Seq(ScanSteps)
      /\ job'["scan"] # <<>> => spc' = "scan"
  BY <1>1 DEF Leaves, OamTypes, Threads, Begins
<1> QED
  BY <1>1, <1>2, <1>3, <1>4, <1>5, <1>6, <1>7 DEF Leaves, OamTypes

\* The step at the head of a thread's sequence, and what is left of it.
LEMMA HeadIs ==
  ASSUME NEW S, S \subseteq AnySteps, NEW s \in Seq(S), s # <<>>
  PROVE  /\ s[1] \in S /\ s[1].skip \in Nat
         /\ Tail(s) \in Seq(S) /\ SubSeq(Tail(s), s[1].skip + 1, Len(Tail(s))) \in Seq(S)
         /\ Begins(s, s[1].cmd, s[1].arg, Tail(s), SubSeq(Tail(s), s[1].skip + 1, Len(Tail(s))))
<1>1. s[1] \in S /\ Tail(s) \in Seq(S)
  OBVIOUS
<1>2. s[1].skip \in Nat
  BY <1>1 DEF AnySteps, ScanSteps
<1> DEFINE r == Tail(s)
           k == s[1].skip
<1>3. r \in Seq(S) /\ k \in Nat
  BY <1>1, <1>2
<1> HIDE DEF r, k
<1>4. SubSeq(r, k + 1, Len(r)) \in Seq(S)
  <2>1. Len(r) \in Nat /\ k + 1 \in 1 .. k + 1 /\ \A i \in 1 .. Len(r) : r[i] \in S
    BY <1>3
  <2>2. \A i \in k + 1 .. Len(r) : r[i] \in S
    BY <1>3, <2>1
  <2> QED
    BY <1>3, <2>1, <2>2, SubSeqProperties
<1> QED
  BY <1>1, <1>2, <1>4 DEF Begins, r, k

ModeClause == settings.mode = "LTE" \/ unrestored \/ (goal = "cell" /\ Ahead(Release1))

LEMMA ModeKept ==
  ASSUME OamTypes, ModeClause, NEW t, NEW c, NEW a, ModeStep(t, c, a),
         c # "mode" /\ goal = "cell" /\ Ahead(Release1) => goal' = "cell" /\ Ahead(Release1)',
         c = "mode" /\ a # "LTE" => goal' = "cell" /\ Ahead(Release1)'
  PROVE  ModeClause'
<1>1. CASE c # "mode"
  <2>1. unrestored' = unrestored /\ settings'.mode = settings.mode
    BY <1>1, Zenon DEF ModeStep
  <2>2. CASE settings.mode = "LTE"
    BY <2>1, <2>2 DEF ModeClause
  <2>3. CASE unrestored
    <3>1. unrestored'
      BY <2>1, <2>3, Zenon
    <3> QED
      BY <3>1 DEF ModeClause
  <2>4. CASE goal = "cell" /\ Ahead(Release1)
    BY <1>1, <2>4 DEF ModeClause
  <2> QED
    BY <2>2, <2>3, <2>4 DEF ModeClause
<1>2. CASE c = "mode" /\ a = "LTE"
  BY <1>2 DEF ModeStep, ModeClause
<1>3. CASE c = "mode" /\ a # "LTE"
  BY <1>3 DEF ModeClause
<1> QED
  BY <1>1, <1>2, <1>3

\* The scanning thread sends its steps while main has no order that must hold.
LEMMA ScanExchange ==
  ASSUME OamInv, Exchange("scan")
  PROVE  OamInv' /\ pbs' = pbs
<1> DEFINE s == job["scan"]
           x == s[1]
           r == Tail(s)
           f == SubSeq(Tail(s), s[1].skip + 1, Len(Tail(s)))
<1>1. ListsOK(opers) /\ OamTypes /\ MainJob /\ Settled /\ ModeClause /\ (spc \in {"begin", "scan"} => scanType = asked)
  BY DEF OamInv, ModeClause
<1>2. s \in Seq(ScanSteps) /\ s # <<>>
  BY <1>1 DEF OamTypes, Exchange, LockOperator, SetMode, SetBand, GetCells, BuildCell, ExchangeFails, Doing
<1>3. /\ x \in ScanSteps /\ r \in Seq(ScanSteps) /\ f \in Seq(ScanSteps)
      /\ Begins(s, x.cmd, x.arg, r, f)
  BY <1>2, ItemsAre, HeadIs
<1>4. s = job["scan"]
  OBVIOUS
<1> HIDE DEF s, r, f
<1> DEFINE c == x.cmd
           a == x.arg
<1>5. ArgOK(c, a) /\ c # "build" /\ (c = "mode" => a = "LTE")
  BY <1>3 DEF ScanSteps, ArgOK
<1>6. Begins(job["scan"], c, a, r, f)
  BY <1>3, <1>4
<1> HIDE DEF c, a
<1>0. "scan" \in Threads /\ "main" \in Threads
  BY DEF Threads
<1>7. Leaves("scan") /\ (Passed("scan", c, a, r) \/ Failing("scan", c, f)) /\ ModeStep("scan", c, a)
  BY <1>0, <1>1, <1>6, ExchangeIs
<1>8. job'["scan"] \in Seq(ScanSteps) /\ pbs' = pbs
  BY <1>3, <1>5, <1>7 DEF Passed, Failing
<1>9. OamTypes'
  BY <1>0, <1>1, <1>5, <1>6, <1>8, ExchangeTypes
<1>10. /\ UNCHANGED <<opers, cn_oper, band, goal, old, sync_var, scan_type, spc, scanType, asked, settled>>
       /\ job'["main"] = job["main"] /\ ret' = ret
  BY <1>0, <1>7 DEF Leaves
<1>11. heard' = heard \/ heard'.oper = settings.lock
  BY <1>7 DEF Passed, Failing
<1>12. heard.oper \in OperSet => heard'.oper \in OperSet
  BY <1>1, <1>11, SettingsAre
<1>13. MainJob'
  BY <1>1, <1>10, <1>12 DEF MainJob, OrderJob, CellJob, Ahead
<1>14. Settled'
  <2>1. spc = "scan" /\ settled = "no"
    BY <1>1, <1>2, <1>4 DEF OamTypes, Settled
  <2>2. spc' = "scan" /\ settled' = "no"
    BY <1>10, <2>1
  <2> QED
    BY <2>2 DEF Settled, OrderPending, OrderDone
<1>15. ModeClause'
  BY <1>1, <1>5, <1>7, <1>10, ModeKept DEF Ahead
<1>16. ListsOK(opers)' /\ (spc \in {"begin", "scan"} => scanType = asked)'
  BY <1>1, <1>10
<1> QED
  BY <1>8, <1>9, <1>13, <1>14, <1>15, <1>16 DEF OamInv, ModeClause

\* What the sequences of main begin with.
LEMMA Apart ==
  ASSUME NEW o, NEW b
  PROVE  /\ Order3(o, b) # <<>> /\ Order3(o, b)[1].cmd = "lock"
         /\ Order2(b) # <<>> /\ Order2(b)[1].cmd = "mode" /\ Order1(b) # <<>> /\ Order1(b)[1].cmd = "band"
         /\ Report2 # <<>> /\ Report2[1].cmd = "cmgrmi" /\ Report1 # <<>> /\ Report1[1].cmd = "build"
         /\ Release3(o) # <<>> /\ Release3(o)[1].cmd = "lock" /\ Release3(o)[1].arg = o
         /\ Release2 # <<>> /\ Release2[1].cmd = "mode" /\ Release2[1].arg = "GSM"
         /\ Release1 # <<>> /\ Release1[1].cmd = "mode" /\ Release1[1].arg = "LTE"
BY Rests DEF Order3, Order2, Order1, Report2, Report1, Release3, Release2, Release1, Item

\* What is kept of the invariant by an exchange of main, whatever main is at.
LEMMA MainKeeps ==
  ASSUME OamInv, Exchange("main"), NEW c, NEW a, NEW r, NEW f, Begins(job["main"], c, a, r, f),
         ArgOK(c, a), c = "build" => heard.oper \in OperSet, job'["main"] \in Seq(AnySteps),
         MainJob', OrderPending', OrderDone',
         Ahead(Release1) => c = "mode",
         c = "mode" /\ a # "LTE" => goal = "cell" /\ job'["main"] = Release1
  PROVE  OamInv'
<1>0. "scan" \in Threads /\ "main" \in Threads /\ "main" # "scan"
  BY DEF Threads
<1>1. ListsOK(opers) /\ OamTypes /\ MainJob /\ Settled /\ ModeClause /\ (spc \in {"begin", "scan"} => scanType = asked)
  BY DEF OamInv, ModeClause
<1>2. Leaves("main") /\ ModeStep("main", c, a)
  BY <1>0, <1>1, ExchangeIs
<1>3. OamTypes'
  BY <1>0, <1>1, ExchangeTypes
<1>4. UNCHANGED <<opers, cn_oper, band, goal, old, sync_var, scan_type, spc, scanType, asked, settled>>
  BY <1>2 DEF Leaves
<1>5. ModeClause'
  BY <1>1, <1>2, <1>4, ModeKept DEF Ahead
<1>6. Settled'
  BY <1>1, <1>4 DEF Settled
<1> QED
  BY <1>1, <1>3, <1>4, <1>5, <1>6 DEF OamInv, ModeClause

LEMMA OrderExchange ==
  ASSUME OamInv, Exchange("main"), goal \in Orders
  PROVE  OamInv' /\ pbs' = pbs
<1>0. "scan" \in Threads /\ "main" \in Threads /\ "main" # "scan"
  BY DEF Threads
<1>1. ListsOK(opers) /\ OamTypes /\ OrderJob /\ Offered(opers, cn_oper, band) /\ OrderPending /\ OrderDone
  BY DEF OamInv, MainJob, Settled
<1>2. cn_oper \in OperSet /\ band \in Nat /\ settings \in [lock : OperSet, mode : {"LTE", "GSM"}, band : Nat]
  BY <1>1 DEF OamTypes
<1>3. job["main"] # <<>>
  BY DEF Exchange, LockOperator, SetMode, SetBand, GetCells, BuildCell, ExchangeFails, Doing
<1>4. settled # "done"
  BY <1>1 DEF OrderDone, Orders
<1> DEFINE s3 == Order3(cn_oper, band)
           s2 == Order2(band)
           s1 == Order1(band)
<1>13. <<>> \in Seq(AnySteps)
  OBVIOUS
<1>5. /\ s2 \in Seq(AnySteps) /\ s1 \in Seq(AnySteps)
      /\ Begins(s3, "lock", cn_oper, s2, <<>>) /\ Begins(s2, "mode", "LTE", s1, <<>>)
      /\ Begins(s1, "band", band, <<>>, <<>>)
  BY <1>2, OrderLeft
<1>6. /\ s2 # <<>> /\ s1 # <<>> /\ s1[1].cmd # s2[1].cmd
      /\ Release1 # s3 /\ Release1 # s1
  BY Apart
<1>7. ASSUME NEW c, NEW a, NEW r, Begins(job["main"], c, a, r, <<>>), ArgOK(c, a), c \in {"lock", "mode", "band"},
             r \in {s2, s1, <<>>}, c = "mode" => a = "LTE", Ahead(Release1) => c = "mode",
             r = s2 => c = "lock" /\ a = cn_oper, r = s1 => c = "mode" /\ (settled = "pending" => settings.lock = cn_oper),
             r = <<>> => c = "band" /\ a = band /\ (settled = "pending" => settings.lock = cn_oper)
      PROVE  OamInv' /\ pbs' = pbs
  <2>1. Leaves("main") /\ (Passed("main", c, a, r) \/ Failing("main", c, <<>>))
    BY <1>0, <1>1, <1>7, ExchangeIs
  <2>2. UNCHANGED <<opers, cn_oper, band, goal, settled>>
    BY <2>1 DEF Leaves
  <2>3. pbs' = pbs /\ job'["main"] \in {s2, s1, <<>>}
    BY <1>7, <2>1 DEF Passed, Failing
  <2>4. MainJob'
    BY <1>1, <2>2, <2>3 DEF MainJob, OrderJob, Ahead, Orders
  <2>5. OrderPending'
    <3> SUFFICES ASSUME settled = "pending"
                 PROVE  OrderPending'
      BY <2>2 DEF OrderPending
    <3>1. goal' \in Orders
      BY <2>2
    <3>2. CASE Failing("main", c, <<>>)
      <4>1. job'["main"] = <<>> /\ ~ret'
        BY <3>2 DEF Failing
      <4> QED
        BY <1>6, <2>2, <3>1, <4>1 DEF OrderPending, Ahead
    <3>3. CASE Passed("main", c, a, r)
      <4>1. job'["main"] = r
        BY <1>7, <3>3 DEF Passed
      <4>2. settings'.lock = cn_oper
        <5>1. CASE r = s2
          BY <1>2, <1>7, <3>3, <5>1 DEF Passed
        <5>2. CASE r = s1
          <6>1. settings' = [settings EXCEPT !.mode = a] /\ settings.lock = cn_oper
            BY <1>7, <3>3, <5>2 DEF Passed
          <6> QED
            BY <1>2, <6>1
        <5>3. CASE r = <<>>
          <6>1. settings' = [settings EXCEPT !.band = a] /\ settings.lock = cn_oper
            BY <1>7, <3>3, <5>3 DEF Passed
          <6> QED
            BY <1>2, <6>1
        <5> QED
          BY <1>7, <5>1, <5>2, <5>3
      <4>3. r = <<>> => settings'.band = band
        BY <1>2, <1>7, <3>3 DEF Passed
      <4> QED
        BY <1>6, <2>2, <3>1, <4>1, <4>2, <4>3 DEF OrderPending, Ahead
    <3> QED
      BY <2>1, <3>2, <3>3
  <2>6. OrderDone'
    BY <1>4, <2>2 DEF OrderDone
  <2>7. job'["main"] \in Seq(AnySteps) /\ c # "build"
    BY <1>5, <1>7, <1>13, <2>3
  <2>8. OamInv'
    BY <1>7, <2>4, <2>5, <2>6, <2>7, MainKeeps
  <2> QED
    BY <2>3, <2>8
<1>8. CASE Ahead(s3)
  <2>1. Begins(job["main"], "lock", cn_oper, s2, <<>>) /\ ArgOK("lock", cn_oper) /\ s2 # s1
    BY <1>2, <1>5, <1>6, <1>8 DEF Ahead, ArgOK
  <2> HIDE DEF s3, s2, s1
  <2> QED
    BY <1>6, <1>7, <1>8, <2>1 DEF Ahead
<1>9. CASE Ahead(s2)
  <2>1. Begins(job["main"], "mode", "LTE", s1, <<>>) /\ ArgOK("mode", "LTE") /\ s2 # s1
    BY <1>2, <1>5, <1>6, <1>9 DEF Ahead, ArgOK
  <2>2. settled = "pending" => settings.lock = cn_oper
    BY <1>1, <1>9 DEF OrderPending
  <2> HIDE DEF s3, s2, s1
  <2> QED
    BY <1>6, <1>7, <2>1, <2>2
<1>10. CASE Ahead(s1)
  <2>1. Begins(job["main"], "band", band, <<>>, <<>>) /\ ArgOK("band", band) /\ s2 # s1
    BY <1>2, <1>5, <1>6, <1>10 DEF Ahead, ArgOK
  <2>2. settled = "pending" => settings.lock = cn_oper
    BY <1>1, <1>10 DEF OrderPending
  <2> HIDE DEF s3, s2, s1
  <2> QED
    BY <1>6, <1>7, <1>10, <2>1, <2>2 DEF Ahead
<1> QED
  BY <1>1, <1>3, <1>8, <1>9, <1>10 DEF OrderJob, Ahead

LEMMA BandExchange ==
  ASSUME OamInv, Exchange("main"), goal = "band"
  PROVE  OamInv' /\ pbs' = pbs
<1>0. "scan" \in Threads /\ "main" \in Threads /\ "main" # "scan"
  BY DEF Threads
<1>1. /\ ListsOK(opers) /\ OamTypes /\ (Ahead(Order1(band)) \/ Ahead(<<>>)) /\ OrderPending /\ OrderDone
  BY DEF OamInv, MainJob, Settled
<1>2. cn_oper \in OperSet /\ band \in Nat /\ settings \in [lock : OperSet, mode : {"LTE", "GSM"}, band : Nat]
  BY <1>1 DEF OamTypes
<1>3. job["main"] # <<>>
  BY DEF Exchange, LockOperator, SetMode, SetBand, GetCells, BuildCell, ExchangeFails, Doing
<1>4. settled # "pending"
  BY <1>1 DEF OrderPending, Orders
<1> DEFINE s1 == Order1(band)
<1>5. <<>> \in Seq(AnySteps) /\ Begins(s1, "band", band, <<>>, <<>>)
  BY <1>2, OrderLeft
<1>6. Release1 # s1 /\ job["main"] = s1 /\ ArgOK("band", band)
  BY <1>1, <1>2, <1>3, Apart DEF Ahead, ArgOK
<1> HIDE DEF s1
<1>7. Begins(job["main"], "band", band, <<>>, <<>>)
  BY <1>5, <1>6
<1>8. Leaves("main") /\ (Passed("main", "band", band, <<>>) \/ Failing("main", "band", <<>>))
  BY <1>0, <1>1, <1>7, ExchangeIs
<1>9. UNCHANGED <<opers, cn_oper, band, goal, settled>> /\ job'["main"] = <<>> /\ pbs' = pbs
  BY <1>8 DEF Leaves, Passed, Failing
<1>10. MainJob'
  BY <1>9 DEF MainJob, Ahead, Orders
<1>11. OrderPending'
  BY <1>4, <1>9 DEF OrderPending
<1>12. settings'.lock = settings.lock /\ (ret' => settings'.band = band)
  BY <1>2, <1>8 DEF Passed, Failing
<1>13. OrderDone'
  BY <1>1, <1>9, <1>12 DEF OrderDone, Ahead
<1>14. OamInv'
  BY <1>5, <1>6, <1>7, <1>9, <1>10, <1>11, <1>13, MainKeeps DEF Ahead
<1> QED
  BY <1>9, <1>14

LEMMA EnvExchange ==
  ASSUME OamInv, Exchange("main"), goal = "env"
  PROVE  OamInv' /\ pbs' = pbs
<1> DEFINE s == job["main"]
           x == s[1]
           r == Tail(s)
           f == SubSeq(Tail(s), s[1].skip + 1, Len(Tail(s)))
<1>1. ListsOK(opers) /\ OamTypes /\ OrderPending /\ OrderDone
  BY DEF OamInv, Settled
<1>2. s \in Seq(ScanSteps) /\ s # <<>>
  BY DEF OamInv, MainJob, Exchange, LockOperator, SetMode, SetBand, GetCells, BuildCell, ExchangeFails, Doing
<1>3. /\ x \in ScanSteps /\ r \in Seq(ScanSteps) /\ f \in Seq(ScanSteps)
      /\ Begins(s, x.cmd, x.arg, r, f)
  BY <1>2, ItemsAre, HeadIs
<1>4. s = job["main"]
  OBVIOUS
<1>15. Ahead(Release1) => x.cmd = "mode"
  BY Apart DEF Ahead
<1> HIDE DEF s, r, f
<1> DEFINE c == x.cmd
           a == x.arg
<1>5. ArgOK(c, a) /\ c # "build" /\ (c = "mode" => a = "LTE")
  BY <1>3 DEF ScanSteps, ArgOK
<1>6. Begins(job["main"], c, a, r, f)
  BY <1>3, <1>4
<1>16. Ahead(Release1) => c = "mode"
  BY <1>15
<1> HIDE DEF c, a
<1>0. "scan" \in Threads /\ "main" \in Threads
  BY DEF Threads
<1>7. Leaves("main") /\ (Passed("main", c, a, r) \/ Failing("main", c, f))
  BY <1>0, <1>1, <1>6, ExchangeIs
<1>8. job'["main"] \in Seq(ScanSteps) /\ pbs' = pbs
  BY <1>3, <1>5, <1>7 DEF Passed, Failing
<1>9. job'["main"] \in Seq(AnySteps)
  <2>1. \A q \in Seq(ScanSteps) : q \in Seq(AnySteps)
    BY ItemsAre
  <2> QED
    BY <1>8, <2>1
<1>10. UNCHANGED <<goal, settled>>
  BY <1>7 DEF Leaves
<1>11. settled = "no"
  <2>1. settled \in {"no", "pending", "done"}
    BY <1>1 DEF OamTypes
  <2> QED
    BY <1>1, <2>1 DEF OrderPending, OrderDone, Orders
<1>12. MainJob' /\ OrderPending' /\ OrderDone'
  BY <1>8, <1>10, <1>11 DEF MainJob, OrderPending, OrderDone, Orders
<1>13. OamInv'
  BY <1>5, <1>6, <1>9, <1>12, <1>16, MainKeeps
<1> QED
  BY <1>8, <1>13

LEMMA CellExchange ==
  ASSUME OamInv, Exchange("main"), goal = "cell"
  PROVE  OamInv' /\ (pbs' # pbs => job["main"] = Report1 /\ pbs' = heard)
<1>0. "scan" \in Threads /\ "main" \in Threads /\ "main" # "scan"
  BY DEF Threads
<1>1. ListsOK(opers) /\ OamTypes /\ CellJob /\ OrderPending /\ OrderDone
  BY DEF OamInv, MainJob, Settled
<1>2. cn_oper \in OperSet /\ band \in Nat /\ settings \in [lock : OperSet, mode : {"LTE", "GSM"}, band : Nat]
  BY <1>1 DEF OamTypes
<1>3. job["main"] # <<>>
  BY DEF Exchange, LockOperator, SetMode, SetBand, GetCells, BuildCell, ExchangeFails, Doing
<1>4. settled # "pending"
  BY <1>1 DEF OrderPending, Orders
<1>5. <<>> \in Seq(AnySteps)
  OBVIOUS
<1>6. \A t : Leaves(t) => UNCHANGED <<opers, cn_oper, band, goal, settled>>
  BY DEF Leaves
<1>7. Leaves("main") => OrderPending'
  BY <1>4, <1>6 DEF OrderPending
<1>8. CASE Ahead(Report2)
  <2>1. Begins(job["main"], "cmgrmi", 0, Report1, <<>>) /\ ArgOK("cmgrmi", 0) /\ Report1 \in Seq(AnySteps)
    BY <1>8, ReportLeft DEF Ahead, ArgOK
  <2>2. Leaves("main") /\ (Passed("main", "cmgrmi", 0, Report1) \/ Failing("main", "cmgrmi", <<>>))
    BY <1>0, <1>1, <2>1, ExchangeIs
  <2>3. /\ UNCHANGED <<opers, cn_oper, band, goal, settled, pbs, settings>>
        /\ \/ job'["main"] = Report1 /\ heard' = [oper |-> settings.lock, band |-> settings.band]
           \/ job'["main"] = <<>>
    BY <1>6, <2>2 DEF Passed, Failing
  <2>4. job'["main"] \in Seq(AnySteps)
    BY <1>5, <2>1, <2>3
  <2>5. MainJob'
    <3>1. settings.lock \in OperSet
      BY <1>2
    <3> QED
      BY <2>3, <3>1 DEF MainJob, CellJob, Ahead, Orders
  <2>6. \A o : Release3(o) # Report1 /\ Release3(o) # <<>> /\ Report1 # <<>> /\ Report2 # Release1
    BY Apart
  <2>7. OrderDone'
    BY <1>1, <2>3, <2>6 DEF OrderDone, Ahead
  <2>8. OamInv'
    BY <1>7, <1>8, <2>1, <2>2, <2>4, <2>5, <2>6, <2>7, MainKeeps DEF Ahead
  <2> QED
    BY <2>3, <2>8
<1>9. CASE Ahead(Report1) /\ heard.oper \in OperSet
  <2> DEFINE w == get_rrc_conn_rel_para(heard.oper)
  <2>1. /\ Begins(job["main"], "build", 0, <<>>, <<>>) /\ ArgOK("build", 0)
        /\ w = IF heard.oper \in {CMCC, CUCC} THEN Release3(heard.oper) ELSE <<>>
        /\ Release3(heard.oper) \in Seq(AnySteps)
    BY <1>9, ReportLeft, ReleaseLeft DEF Ahead, ArgOK
  <2>2. Leaves("main") /\ (Passed("main", "build", 0, <<>>) \/ Failing("main", "build", <<>>))
    BY <1>0, <1>1, <2>1, ExchangeIs
  <2>3. UNCHANGED <<opers, cn_oper, band, goal, settled, settings, heard>> /\ pbs' = heard /\ job'["main"] = <<>> \o w
    BY <1>6, <2>2 DEF Passed, Failing
  <2>4. w \in Seq(AnySteps)
    BY <1>5, <2>1
  <2> HIDE DEF w
  <2>5. job'["main"] = w
    BY <2>3, <2>4, ConcatEmptySeq
  <2>6. MainJob'
    BY <2>1, <2>3, <2>5 DEF MainJob, CellJob, Ahead, Orders
  <2>7. \A o : /\ Release3(o) # Report1 /\ Release3(o) # <<>> /\ Report1 # <<>> /\ Report1 # Release1
               /\ Release3(o)[1].arg = o
    BY Apart
  <2>8. OrderDone'
    <3> SUFFICES ASSUME settled = "done" PROVE OrderDone'
      BY <2>3 DEF OrderDone
    <3>1. /\ Offered(opers, cn_oper, band) /\ settings.lock = cn_oper /\ settings.band = band
          /\ heard = [oper |-> cn_oper, band |-> band]
      BY <1>1, <1>9 DEF OrderDone
    <3>2. heard.oper = cn_oper
      BY <3>1
    <3>3. \A o : w = Release3(o) => o = cn_oper
      <4> TAKE o
      <4> HAVE w = Release3(o)
      <4>1. w = Release3(heard.oper)
        BY <2>1, <2>7
      <4> QED
        BY <2>7, <3>2, <4>1
    <3>4. w # Report1
      BY <2>1, <2>7
    <3> QED
      BY <2>3, <2>5, <3>1, <3>3, <3>4 DEF OrderDone, Ahead
  <2>9. OamInv'
    BY <1>7, <1>9, <2>1, <2>2, <2>4, <2>5, <2>6, <2>7, <2>8, MainKeeps DEF Ahead
  <2> QED
    BY <1>9, <2>3, <2>9 DEF Ahead
<1>10. ASSUME NEW o \in {CMCC, CUCC}, Ahead(Release3(o))
       PROVE  OamInv' /\ pbs' = pbs
  <2>0. o \in OperSet
    BY OamAssumption
  <2>1. Begins(job["main"], "lock", o, Release2, Release2) /\ ArgOK("lock", o) /\ Release2 \in Seq(AnySteps)
    BY <1>10, <2>0, ReleaseLeft DEF Ahead, ArgOK
  <2>2. Leaves("main") /\ (Passed("main", "lock", o, Release2) \/ Failing("main", "lock", Release2))
    BY <1>0, <1>1, <2>1, ExchangeIs
  <2>3. /\ UNCHANGED <<opers, cn_oper, band, goal, settled, pbs, heard>> /\ job'["main"] = Release2
        /\ settings' = [settings EXCEPT !.lock = o] \/ settings' = settings
    BY <1>6, <2>2 DEF Passed, Failing
  <2>5. MainJob'
    BY <2>3 DEF MainJob, CellJob, Ahead, Orders
  <2>6. \A p : /\ Release3(p) # Release2 /\ Release2 # Report1 /\ Release2 # <<>> /\ Release3(p) # Release1
    BY Apart
  <2>7. OrderDone'
    <3> SUFFICES ASSUME settled = "done" PROVE OrderDone'
      BY <2>3 DEF OrderDone
    <3>1. Offered(opers, cn_oper, band) /\ settings.lock = cn_oper /\ settings.band = band /\ o = cn_oper
      BY <1>1, <1>10 DEF OrderDone
    <3>2. settings'.lock = cn_oper /\ settings'.band = band
      BY <1>2, <2>3, <3>1
    <3> QED
      BY <2>3, <2>6, <3>1, <3>2 DEF OrderDone, Ahead
  <2>8. OamInv'
    BY <1>7, <1>10, <2>1, <2>2, <2>3, <2>5, <2>6, <2>7, MainKeeps DEF Ahead
  <2> QED
    BY <2>3, <2>8
<1>11. ASSUME NEW s, NEW a, NEW r \in Seq(AnySteps), Ahead(s), Begins(s, "mode", a, r, r),
              a \in {"LTE", "GSM"}, r \in {Release1, <<>>}, a # "LTE" => r = Release1
       PROVE  OamInv' /\ pbs' = pbs
  <2>1. Begins(job["main"], "mode", a, r, r) /\ ArgOK("mode", a)
    BY <1>11 DEF Ahead, ArgOK
  <2>2. Leaves("main") /\ (Passed("main", "mode", a, r) \/ Failing("main", "mode", r))
    BY <1>0, <1>1, <2>1, ExchangeIs
  <2>3. /\ UNCHANGED <<opers, cn_oper, band, goal, settled, pbs, heard>> /\ job'["main"] = r
        /\ settings' = [settings EXCEPT !.mode = a] \/ settings' = settings
    BY <1>6, <2>2 DEF Passed, Failing
  <2>5. MainJob'
    BY <1>11, <2>3 DEF MainJob, CellJob, Ahead, Orders
  <2>6. \A p : /\ Release3(p) # Release1 /\ Release1 # Report1 /\ Release3(p) # <<>> /\ Report1 # <<>>
    BY Apart
  <2>7. OrderDone'
    <3> SUFFICES ASSUME settled = "done" PROVE OrderDone'
      BY <2>3 DEF OrderDone
    <3>1. Offered(opers, cn_oper, band) /\ settings.lock = cn_oper /\ settings.band = band
      BY <1>1 DEF OrderDone
    <3>2. settings'.lock = cn_oper /\ settings'.band = band
      BY <1>2, <2>3, <3>1
    <3> QED
      BY <1>11, <2>3, <2>6, <3>1, <3>2 DEF OrderDone, Ahead
  <2>8. OamInv'
    BY <1>7, <1>11, <2>1, <2>2, <2>3, <2>5, <2>7, MainKeeps
  <2> QED
    BY <2>3, <2>8
<1>12. CMCC \in OperSet
  BY OamAssumption
<1>13. CASE Ahead(Release2)
  <2>1. Release1 \in Seq(AnySteps) /\ Begins(Release2, "mode", "GSM", Release1, Release1)
    BY <1>12, ReleaseLeft
  <2> QED
    BY <1>11, <1>13, <2>1
<1>14. CASE Ahead(Release1)
  <2>1. Begins(Release1, "mode", "LTE", <<>>, <<>>)
    BY <1>12, ReleaseLeft
  <2> QED
    BY <1>5, <1>11, <1>14, <2>1
<1> QED
  BY <1>1, <1>3, <1>8, <1>9, <1>10, <1>13, <1>14 DEF CellJob, Ahead

\* What main sends to the modem.
LEMMA MainExchange ==
  ASSUME OamInv, Exchange("main")
  PROVE  OamInv' /\ (pbs' # pbs => goal = "cell" /\ job["main"] = Report1 /\ pbs' = heard)
<1>1. goal \in {"none", "refused", "band", "env", "cell"} \cup Orders
  BY DEF OamInv, OamTypes
<1>2. job["main"] # <<>>
  BY DEF Exchange, LockOperator, SetMode, SetBand, GetCells, BuildCell, ExchangeFails, Doing
<1>3. goal \notin {"none", "refused"}
  BY <1>2 DEF OamInv, MainJob, Ahead
<1> QED
  BY <1>1, <1>3, OrderExchange, BandExchange, EnvExchange, CellExchange

\* The sequences of a loop together are one of the same steps.
LEMMA JoinedIs ==
  ASSUME NEW S, NEW N \in Nat, NEW parts \in [1 .. N -> Seq(S)]
  PROVE  Joined(parts) \in Seq(S)
<1> DEFINE X == Seq(S)
           step == [kx \in (1 .. N) \X X |-> kx[2] \o parts[kx[1]]]
           Is(g) == g = [n \in 0 .. N |-> IF n = 0 THEN <<>> ELSE g[n - 1] \o parts[n]]
           upto == CHOOSE g : Is(g)
<1>0. Len(parts) = N
  OBVIOUS
<1>1. Joined(parts) = upto[N]
  BY <1>0, Zenon DEF Joined
<1>2. <<>> \in X /\ \A k \in 1 .. N, x \in X : x \o parts[k] \in X
  <2>1. ASSUME NEW k \in 1 .. N, NEW x \in Seq(S) PROVE x \o parts[k] \in Seq(S)
    <3>1. parts[k] \in Seq(S)
      OBVIOUS
    <3> QED
      BY <3>1, ConcatProperties
  <2>2. <<>> \in Seq(S)
    OBVIOUS
  <2> QED
    BY <2>1, <2>2
<1>3. X = Seq(S)
  OBVIOUS
<1> HIDE DEF X
<1>4. \A k \in 1 .. N, x \in X : step[<<k, x>>] = x \o parts[k] /\ step[<<k, x>>] \in X
  BY <1>2
<1> HIDE DEF step
<1>5. PICK f \in [0 .. N -> X] : Goes(f, N, <<>>, step)
  BY <1>2, <1>4, StepsExist
<1>6. \A k \in 1 .. N : k \in 0 .. N /\ k - 1 \in 0 .. N /\ k # 0
  OBVIOUS
<1>7. \A k \in 1 .. N : f[k] = f[k - 1] \o parts[k]
  BY <1>4, <1>5, <1>6 DEF Goes
<1>8. Is(f)
  <2> DEFINE g == [k \in 0 .. N |-> IF k = 0 THEN <<>> ELSE f[k - 1] \o parts[k]]
  <2>1. ASSUME NEW k \in 0 .. N PROVE f[k] = g[k]
    <3>1. CASE k = 0
      BY <1>5, <3>1 DEF Goes
    <3>2. CASE k # 0
      <4>1. k \in 1 .. N
        BY <3>2
      <4> QED
        BY <1>7, <3>2, <4>1
    <3> QED
      BY <3>1, <3>2
  <2>2. f \in [0 .. N -> X] /\ DOMAIN g = 0 .. N /\ g = [k \in DOMAIN g |-> g[k]]
    OBVIOUS
  <2> HIDE DEF g
  <2>3. f = g
    BY <2>1, <2>2
  <2> QED
    BY <2>3 DEF g
<1>9. Is(upto)
  BY <1>8, Zenon
<1> HIDE DEF upto
<1>10. upto[0] = <<>> /\ \A k \in 1 .. N : upto[k] = upto[k - 1] \o parts[k]
  <2>1. 0 \in 0 .. N
    OBVIOUS
  <2>2. \A k \in 0 .. N : upto[k] = IF k = 0 THEN <<>> ELSE upto[k - 1] \o parts[k]
    BY <1>9, Zenon
  <2> QED
    BY <1>6, <2>1, <2>2
<1> HIDE DEF Is
<1> DEFINE T == {k \in 0 .. N : upto[k] \in X}
<1>11. 0 \in T
  BY <1>2, <1>10
<1>12. ASSUME NEW k \in 1 .. N, k - 1 \in T PROVE k \in T
  BY <1>2, <1>6, <1>10, <1>12
<1>13. T \subseteq 0 .. N
  OBVIOUS
<1> HIDE DEF T
<1>14. T = 0 .. N
  BY <1>11, <1>12, <1>13, Reach
<1>15. N \in T
  BY <1>14
<1> QED
  BY <1>1, <1>3, <1>15 DEF T

\* A scan of the bands is made of steps that may mix with those of the other thread.
LEMMA EnvScanSteps ==
  ASSUME opers \in Seq(OperNode)
  PROVE  oam_env_bands_scan \in Seq(ScanSteps)
<1> DEFINE S == ScanSteps
           SetBands(bands) == [k \in 1 .. Len(bands) |-> [cmd |-> "band", arg |-> bands[k].band, skip |-> 0]]
           turn(n) == Step("lock", opers[n].oper, 0) \o SetBands(opers[n].bands)
           parts == [n \in 1 .. Len(opers) |-> turn(n)]
           m == Step("mode", "LTE", Stop)
           j == Joined(parts)
<1>1. oam_env_bands_scan = m \o j
  BY DEF oam_env_bands_scan
<1>2. m \in Seq(S)
  <2>1. m = <<Item("mode", "LTE", Stop)>>
    BY DEF Step, Item
  <2>2. Item("mode", "LTE", Stop) \in S
    BY ItemsAre
  <2>3. <<Item("mode", "LTE", Stop)>> \in Seq(S)
    BY <2>2, SeqsOf
  <2> QED
    BY <2>1, <2>3
<1>3. ASSUME NEW n \in 1 .. Len(opers) PROVE turn(n) \in Seq(S)
  <2> DEFINE l == Step("lock", opers[n].oper, 0)
             bs == opers[n].bands
             b == SetBands(bs)
  <2>1. opers[n].oper \in OperSet /\ bs \in Seq(Band)
    BY <1>3, NodesAre
  <2>2. l = <<Item("lock", opers[n].oper, 0)>>
    BY DEF Step, Item
  <2>8. Item("lock", opers[n].oper, 0) \in S
    BY <2>1, ItemsAre
  <2>9. <<Item("lock", opers[n].oper, 0)>> \in Seq(S)
    BY <2>8, SeqsOf
  <2>3. l \in Seq(S)
    BY <2>2, <2>9
  <2>4. ASSUME NEW k \in 1 .. Len(bs) PROVE [cmd |-> "band", arg |-> bs[k].band, skip |-> 0] \in S
    <3>1. bs[k] \in Band
      BY <2>1
    <3>2. bs[k].band \in Nat
      BY <3>1, BandIs
    <3> QED
      BY <3>2, ItemsAre DEF Item
  <2>5. Len(bs) \in Nat
    BY <2>1
  <2>6. b \in Seq(S)
    BY <2>4, <2>5
  <2> HIDE DEF l, b
  <2>7. l \o b \in Seq(S)
    BY <2>3, <2>6, ConcatProperties
  <2> QED
    BY <2>7 DEF l, b
<1>4. parts \in [1 .. Len(opers) -> Seq(S)] /\ Len(opers) \in Nat
  BY <1>3
<1> HIDE DEF parts
<1>5. j \in Seq(S)
  BY <1>4, JoinedIs
<1> HIDE DEF m, j
<1>6. m \o j \in Seq(S)
  BY <1>2, <1>5, ConcatProperties
<1> QED
  BY <1>1, <1>6

\* And so is the acquisition of the cell that is imitated.
LEMMA AcquireSteps ==
  ASSUME pbs \in [oper : OperSet, band : Nat]
  PROVE  lte_cells_para_acquire \in Seq(ScanSteps)
<1> DEFINE x == Item("lock", pbs.oper, Stop)
           y == Item("mode", "LTE", 2)
           z == Item("band", pbs.band, 1)
           w == Item("cmgrmi", 0, Stop)
           t == <<x, y, z>>
           u == <<w>>
<1>1. pbs.oper \in OperSet /\ pbs.band \in Nat
  OBVIOUS
<1>2. x \in ScanSteps /\ y \in ScanSteps /\ z \in ScanSteps /\ w \in ScanSteps
  BY <1>1, ItemsAre
<1>3. lte_cells_para_acquire = ((<<x>> \o <<y>>) \o <<z>>) \o <<w>>
  BY DEF lte_cells_para_acquire, Step, Item
<1> HIDE DEF x, y, z, w
<1>4. t \in Seq(ScanSteps) /\ u \in Seq(ScanSteps)
  BY <1>2, SeqsOf
<1>5. (<<x>> \o <<y>>) \o <<z>> = t
  BY Three
<1> HIDE DEF t
<1>6. lte_cells_para_acquire = t \o u
  BY <1>3, <1>5
<1> HIDE DEF u
<1> QED
  BY <1>4, <1>6, ConcatProperties

\* A request begins, for which main does nothing else.
LEMMA Begun ==
  ASSUME OamInv, NEW g, NEW steps \in Seq(AnySteps), Begin(g, steps), cn_oper' \in OperSet, band' \in Nat,
         g \in {"refused", "band", "cell"} \cup Orders, settled' \in {"no", "pending", "done"},
         spc = "scan" => settled' = "no", MainJob', OrderPending', OrderDone'
  PROVE  OamInv' /\ pbs' = pbs
<1>1. ListsOK(opers) /\ OamTypes /\ Settled /\ ModeClause /\ (spc \in {"begin", "scan"} => scanType = asked)
  BY DEF OamInv, ModeClause
<1>2. /\ goal = "none" /\ goal' = g /\ job' = [job EXCEPT !["main"] = steps] /\ pbs' = pbs
      /\ UNCHANGED <<opers, settings, ret, heard, unrestored, sync_var, scan_type, spc, scanType, asked>>
      /\ old' = IF g = "oper" THEN [oper |-> cn_oper, band |-> band] ELSE NoCell
  BY DEF Begin, scanvars
<1>3. DOMAIN job' = Threads /\ job'["main"] = steps /\ job'["scan"] = job["scan"]
  BY <1>1, <1>2 DEF OamTypes, Threads
<1>4. goal' = "oper" => old' \in [oper : OperSet, band : Nat]
  BY <1>1, <1>2 DEF OamTypes
<1>5. OamTypes'
  BY <1>1, <1>2, <1>3, <1>4 DEF OamTypes
<1>6. Settled'
  BY <1>2 DEF Settled
<1>7. ModeClause'
  <2>1. settings.mode = "LTE" \/ unrestored
    BY <1>1, <1>2 DEF ModeClause
  <2>2. settings' = settings /\ (unrestored => unrestored')
    BY <1>2
  <2> QED
    BY <2>1, <2>2 DEF ModeClause
<1>8. ListsOK(opers)' /\ (spc \in {"begin", "scan"} => scanType = asked)'
  BY <1>1, <1>2
<1> QED
  BY <1>2, <1>5, <1>6, <1>7, <1>8 DEF OamInv, ModeClause

LEMMA BestIs ==
  ASSUME NEW l \in Seq(OperNode), NEW o, NEW modes
  PROVE  Highest(BandsOf(l, o), modes).band \in Nat
<1> DEFINE bs == BandsOf(l, o)
           best == Highest(bs, modes)
<1>1. bs \in Seq(Band)
  BY BandsOfIs
<1> HIDE DEF bs
<1>2. BestAmong(bs, modes, Len(bs), best)
  BY <1>1, HighestIs
<1> HIDE DEF best
<1>5. NoBand \in Band
  BY DEF NoBand, Band
<1>6. \A k \in 1 .. Len(bs) : bs[k] \in Band
  BY <1>1
<1>3. best \in Band
  BY <1>2, <1>5, <1>6 DEF BestAmong
<1>4. best.band \in Nat
  BY <1>3, BandIs
<1> QED
  BY <1>4 DEF bs, best

\* A new order: an operator and a band that it offers.
LEMMA OrderBegins ==
  ASSUME OamInv, NEW o \in OperSet, NEW b \in Nat, Offered(opers, o, b), Current(o, b), NEW g \in Orders,
         Begin(g, oam_set_eNB_para(o, b)), Ordered
  PROVE  OamInv' /\ pbs' = pbs
<1> DEFINE s3 == Order3(o, b)
<1>1. OamTypes
  BY DEF OamInv
<1>2. s3 \in Seq(AnySteps) /\ oam_set_eNB_para(o, b) = s3
  BY OrderLeft
<1>3. s3 # <<>> /\ s3 # Order2(b) /\ s3 # Order1(b)
  BY Apart
<1>4. s3 = Order3(o, b)
  OBVIOUS
<1> HIDE DEF s3
<1>5. Begin(g, s3)
  BY <1>2
<1>6. goal' = g /\ job'["main"] = s3 /\ UNCHANGED <<opers, spc>> /\ cn_oper' = o /\ band' = b
  BY <1>1, <1>5 DEF Begin, OamTypes, Threads, scanvars, Current
<1>7. MainJob'
  BY <1>4, <1>6 DEF MainJob, OrderJob, Ahead, Orders
<1>8. settled' \in {"no", "pending"} /\ (spc = "scan" => settled' = "no")
  BY DEF Ordered
<1>9. OrderPending' /\ OrderDone'
  BY <1>3, <1>6, <1>8 DEF OrderPending, OrderDone, Ahead
<1> QED
  BY <1>2, <1>5, <1>6, <1>7, <1>8, <1>9, Begun

LEMMA ParaBegins ==
  ASSUME OamInv, NEW o \in OperSet, NEW b \in Nat, ParaReq(o, b)
  PROVE  OamInv' /\ pbs' = pbs
<1> DEFINE best == BestOfOper(opers, o).band
<1>1. opers \in Seq(OperNode) /\ OamTypes
  BY DEF OamInv, ListsOK
<1>2. best \in Nat /\ band \in Nat
  BY <1>1, BestIs DEF BestOfOper, OamTypes
<1>3. Ordered
  BY DEF ParaReq
<1>4. settled' \in {"no", "pending"} /\ (spc = "scan" => settled' = "no")
  BY <1>3 DEF Ordered
<1>5. ASSUME NEW p \in Nat, Current(o, p), Begin("refused", <<>>)
      PROVE  OamInv' /\ pbs' = pbs
  <2>1. goal' = "refused" /\ job'["main"] = <<>> /\ cn_oper' = o /\ band' = p
    BY <1>1, <1>5 DEF Begin, OamTypes, Threads, Current
  <2>2. MainJob' /\ OrderPending' /\ OrderDone'
    BY <1>4, <2>1 DEF MainJob, OrderPending, OrderDone, Ahead, Orders
  <2>3. <<>> \in Seq(AnySteps)
    OBVIOUS
  <2> QED
    BY <1>4, <1>5, <2>1, <2>2, <2>3, Begun
<1>6. CASE b = 255
  <2> DEFINE p == IF best = 0 THEN band ELSE best
  <2>1. p \in Nat /\ Current(o, p) /\ Begin("refused", <<>>)
    BY <1>2, <1>6 DEF ParaReq
  <2> HIDE DEF p
  <2> QED
    BY <1>5, <2>1
<1>7. CASE b # 255 /\ Offered(opers, o, b)
  <2>1. Current(o, b) /\ Begin("para", oam_set_eNB_para(o, b)) /\ "para" \in Orders
    BY <1>7 DEF ParaReq, Orders
  <2> QED
    BY <1>3, <1>7, <2>1, OrderBegins
<1>8. CASE b # 255 /\ ~Offered(opers, o, b)
  <2>1. Current(o, b) /\ Begin("refused", <<>>)
    BY <1>8 DEF ParaReq
  <2> QED
    BY <1>5, <2>1
<1> QED
  BY <1>6, <1>7, <1>8

LEMMA BandBegins ==
  ASSUME OamInv, NEW b \in Nat, BandReq(b)
  PROVE  OamInv' /\ pbs' = pbs
<1> DEFINE s1 == Order1(b)
<1>1. OamTypes /\ Settled /\ goal = "none"
  BY DEF OamInv, BandReq, Begin
<1>2. cn_oper \in OperSet
  BY <1>1 DEF OamTypes
<1>3. s1 \in Seq(AnySteps) /\ Step("band", b, Stop) = s1
  BY <1>2, OrderLeft
<1>4. s1 = Order1(b) /\ s1 # <<>>
  BY Apart
<1> HIDE DEF s1
<1>5. Begin("band", s1) /\ Offered(opers, cn_oper, b) /\ settled' = settled
  BY <1>3 DEF BandReq
<1>6. goal' = "band" /\ job'["main"] = s1 /\ UNCHANGED <<opers, spc, settings>> /\ cn_oper' = cn_oper /\ band' = b
  BY <1>1, <1>5 DEF Begin, OamTypes, Threads, scanvars, Current, BandReq
<1>7. MainJob'
  BY <1>4, <1>6 DEF MainJob, Ahead, Orders
<1>8. settled \in {"no", "done"} /\ (spc = "scan" => settled' = "no")
  <2>1. settled \in {"no", "pending", "done"}
    BY <1>1 DEF OamTypes
  <2> QED
    BY <1>1, <1>5, <2>1 DEF Settled, OrderPending, Orders
<1>9. OrderPending' /\ OrderDone'
  BY <1>1, <1>4, <1>5, <1>6, <1>8 DEF Settled, OrderPending, OrderDone, Ahead
<1>10. settled' \in {"no", "pending", "done"}
  BY <1>5, <1>8
<1>11. OamInv' /\ pbs' = pbs
  BY <1>2, <1>3, <1>5, <1>6, <1>7, <1>8, <1>9, <1>10, Begun
<1> QED
  BY <1>11

LEMMA CellBegins ==
  ASSUME OamInv, CellGet
  PROVE  OamInv' /\ pbs' = pbs
<1>1. OamTypes /\ Settled /\ goal = "none"
  BY DEF OamInv, CellGet, Begin
<1>2. cn_oper \in OperSet /\ band \in Nat
  BY <1>1 DEF OamTypes
<1>3. Report2 \in Seq(AnySteps) /\ lte_cell_select = Report2
  BY ReportLeft
<1>4. Report2 # Report1 /\ \A o : Report2 # Release3(o)
  BY Apart
<1>5. Begin("cell", Report2) /\ settled' = settled
  BY <1>3 DEF CellGet
<1>6. goal' = "cell" /\ job'["main"] = Report2 /\ UNCHANGED <<opers, spc, settings>> /\ cn_oper' = cn_oper /\ band' = band
  BY <1>1, <1>5 DEF Begin, OamTypes, Threads, scanvars, Current, CellGet
<1>7. MainJob'
  BY <1>6 DEF MainJob, CellJob, Ahead, Orders
<1>8. settled \in {"no", "done"} /\ (spc = "scan" => settled' = "no")
  <2>1. settled \in {"no", "pending", "done"}
    BY <1>1 DEF OamTypes
  <2> QED
    BY <1>1, <1>5, <2>1 DEF Settled, OrderPending, Orders
<1>9. OrderPending' /\ OrderDone'
  BY <1>1, <1>4, <1>5, <1>6, <1>8 DEF Settled, OrderPending, OrderDone, Ahead
<1>10. settled' \in {"no", "pending", "done"}
  BY <1>5, <1>8
<1>11. OamInv' /\ pbs' = pbs
  BY <1>2, <1>3, <1>5, <1>6, <1>7, <1>8, <1>9, <1>10, Begun
<1> QED
  BY <1>11

\* An operator or a mode is ordered with the best of its bands.
LEMMA ChoiceBegins ==
  ASSUME OamInv, ModeReq \/ \E o \in OperSet : OperReq(o)
  PROVE  OamInv' /\ pbs' = pbs
<1>1. opers \in Seq(OperNode) /\ OamTypes
  BY DEF OamInv, ListsOK
<1>2. cn_oper \in OperSet
  BY <1>1 DEF OamTypes
<1>3. CASE ModeReq
  <2> DEFINE to == IF Duplex(pbs.band) = TDD THEN FDD ELSE TDD
             best == BestOfMode(opers, cn_oper, to).band
  <2>1. best # 0 /\ Current(cn_oper, best) /\ Begin("mode", oam_set_eNB_para(cn_oper, best)) /\ Ordered
    BY <1>3 DEF ModeReq
  <2>2. best \in Nat /\ Offered(opers, cn_oper, best) /\ "mode" \in Orders
    BY <1>1, <2>1, BestIs, ChosenIsOffered DEF BestOfMode, Orders
  <2> HIDE DEF best
  <2> QED
    BY <1>2, <2>1, <2>2, OrderBegins
<1>4. ASSUME NEW o \in OperSet, OperReq(o) PROVE OamInv' /\ pbs' = pbs
  <2> DEFINE best == BestOfOper(opers, o).band
  <2>1. best # 0 /\ Current(o, best) /\ Begin("oper", oam_set_eNB_para(o, best)) /\ Ordered
    BY <1>4 DEF OperReq
  <2>2. best \in Nat /\ Offered(opers, o, best) /\ "oper" \in Orders
    BY <1>1, <2>1, BestIs, ChosenIsOffered DEF BestOfOper, Orders
  <2> HIDE DEF best
  <2> QED
    BY <1>4, <2>1, <2>2, OrderBegins
<1> QED
  BY <1>3, <1>4

LEMMA FinishKeeps ==
  ASSUME OamInv, Finish
  PROVE  OamInv' /\ pbs' = pbs
<1> DEFINE ok == ret /\ goal # "refused"
<1>1. ListsOK(opers) /\ OamTypes /\ MainJob /\ Settled /\ ModeClause /\ (spc \in {"begin", "scan"} => scanType = asked)
  BY DEF OamInv, ModeClause
<1>2. /\ goal # "none" /\ job["main"] = <<>> /\ goal' = "none" /\ pbs' = pbs
      /\ UNCHANGED <<opers, settings, job, ret, unrestored, heard, sync_var, scan_type, spc, scanType, asked>>
  BY DEF Finish, Finished, modemvars, scanvars
<1>3. /\ IF goal = "oper" /\ ~ok THEN Current(old.oper, old.band) ELSE Current(cn_oper, band)
      /\ settled' = IF goal \in {"env", "cell"} THEN settled
                    ELSE IF ok /\ settled # "no" THEN "done" ELSE "no"
  BY DEF Finish
<1>4. cn_oper' \in OperSet /\ band' \in Nat
  <2>1. CASE goal = "oper" /\ ~ok
    <3>1. cn_oper' = old.oper /\ band' = old.band /\ old \in [oper : OperSet, band : Nat]
      BY <1>1, <1>3, <2>1 DEF OamTypes, Current
    <3> QED
      BY <3>1
  <2>2. CASE ~(goal = "oper" /\ ~ok)
    BY <1>1, <1>3, <2>2 DEF OamTypes, Current
  <2> QED
    BY <2>1, <2>2
<1>5. settled' \in {"no", "pending", "done"}
  BY <1>1, <1>3 DEF OamTypes
<1>6. OamTypes'
  BY <1>1, <1>2, <1>4, <1>5 DEF OamTypes
<1>7. MainJob'
  BY <1>2 DEF MainJob, Ahead, Orders
<1>8. spc' = "scan" => settled' = "no"
  BY <1>1, <1>2, <1>3 DEF Settled
<1>9. settled' # "pending"
  BY <1>1, <1>3 DEF Settled, OrderPending, Orders
<1>10. OrderDone'
  <2> SUFFICES ASSUME settled' = "done"
               PROVE  OrderDone'
    BY DEF OrderDone
  <2>1. goal \in Orders \/ goal = "band" \/ goal = "cell"
    <3>1. goal \in {"none", "refused", "band", "env", "cell"} \cup Orders /\ settled # "no"
      BY <1>1, <1>3 DEF OamTypes
    <3>2. goal # "refused"
      BY <1>3
    <3>3. goal # "env"
      BY <1>1, <1>3 DEF Settled, OrderDone
    <3> QED
      BY <1>2, <3>1, <3>2, <3>3
  <2>2. cn_oper' = cn_oper /\ band' = band
    BY <1>3 DEF Current
  <2>3. Offered(opers, cn_oper, band) /\ settings.lock = cn_oper /\ settings.band = band
    <3>1. CASE goal \in Orders
      <4>1. settled # "no" /\ ret /\ settled # "done" /\ settled \in {"no", "pending", "done"}
        BY <1>1, <1>3, <3>1 DEF Settled, OrderDone, OamTypes, Orders
      <4> QED
        BY <1>1, <1>2, <3>1, <4>1 DEF Settled, OrderPending, MainJob, Ahead
    <3>2. CASE goal = "band"
      <4>1. settled # "no" /\ ret /\ settled # "pending" /\ settled \in {"no", "pending", "done"}
        BY <1>1, <1>3, <3>2 DEF Settled, OrderPending, OamTypes, Orders
      <4> QED
        BY <1>1, <1>2, <3>2, <4>1 DEF Settled, OrderDone, Ahead
    <3>3. CASE goal = "cell"
      <4>1. settled = "done"
        BY <1>3, <3>3
      <4> QED
        BY <1>1, <3>3, <4>1 DEF Settled, OrderDone
    <3> QED
      BY <2>1, <3>1, <3>2, <3>3
  <2> QED
    BY <1>2, <2>2, <2>3 DEF OrderDone
<1>11. ModeClause'
  <2>1. settings.mode = "LTE" \/ unrestored
    BY <1>1, <1>2, Apart DEF ModeClause, Ahead
  <2>2. settings' = settings /\ (unrestored => unrestored')
    BY <1>2
  <2> QED
    BY <2>1, <2>2 DEF ModeClause
<1>12. ListsOK(opers)' /\ (spc \in {"begin", "scan"} => scanType = asked)' /\ OrderPending'
  BY <1>1, <1>2, <1>9 DEF OrderPending
<1> QED
  BY <1>2, <1>6, <1>7, <1>8, <1>10, <1>11, <1>12 DEF OamInv, ModeClause, Settled

\* The scan thread, and what asks it.
LEMMA ScanSteps1 ==
  ASSUME OamInv,
         \/ EnvScanTimeout \/ CellsParaReq
         \/ ScanWait \/ ScanTake \/ ScanEnd
  PROVE  OamInv' /\ pbs' = pbs
<1>1. ListsOK(opers) /\ OamTypes /\ MainJob /\ Settled /\ ModeClause /\ (spc \in {"begin", "scan"} => scanType = asked)
  BY DEF OamInv, ModeClause
<1>2. UNCHANGED <<opers, unitvars, settings, job, ret, unrestored, goal, old, heard, settled>>
  BY DEF EnvScanTimeout, CellsParaReq, ScanWait, ScanTake, ScanEnd, modemvars
<1>3. /\ cn_oper' = cn_oper /\ band' = band /\ pbs' = pbs /\ opers' = opers /\ settings' = settings
      /\ job' = job /\ ret' = ret /\ unrestored' = unrestored /\ goal' = goal /\ old' = old
      /\ heard' = heard /\ settled' = settled
  BY <1>2 DEF unitvars
<1>4. spc' = spc \/ (spc \in {"check", "wait", "begin"} /\ spc' \in {"check", "wait", "begin"})
                 \/ (spc = "scan" /\ spc' = "check" /\ job["scan"] = <<>>)
  BY DEF EnvScanTimeout, CellsParaReq, oam_band_cell_scan, Signalled, ScanWait, ScanTake, ScanEnd
<1>5. spc \in {"check", "wait", "begin", "scan"} /\ sync_var \in {0, 0 - 1}
  BY <1>1 DEF OamTypes
<1>6. sync_var' \in {0, 0 - 1} /\ spc' \in {"check", "wait", "begin", "scan"}
  BY <1>4, <1>5 DEF EnvScanTimeout, CellsParaReq, oam_band_cell_scan, ScanWait, ScanTake, ScanEnd
<1>7. job["scan"] # <<>> => spc' = "scan"
  BY <1>1, <1>4 DEF OamTypes
<1>8. OamTypes'
  BY <1>1, <1>3, <1>6, <1>7 DEF OamTypes
<1>9. MainJob' /\ ModeClause'
  BY <1>1, <1>3 DEF MainJob, OrderJob, CellJob, Ahead, ModeClause
<1>10. Settled'
  <2>1. spc' = "scan" => spc = "scan"
    BY <1>4
  <2> QED
    BY <1>1, <1>3, <2>1 DEF Settled, OrderPending, OrderDone, Ahead
<1>11. (spc \in {"begin", "scan"} => scanType = asked)'
  <2>1. CASE ScanTake
    BY <2>1 DEF ScanTake
  <2>2. CASE ~ScanTake
    <3>1. scanType' = scanType /\ asked' = asked
      BY <2>2 DEF EnvScanTimeout, CellsParaReq, ScanWait, ScanEnd
    <3>2. spc' \in {"begin", "scan"} => spc \in {"begin", "scan"}
      BY <2>2 DEF EnvScanTimeout, CellsParaReq, oam_band_cell_scan, Signalled, ScanWait, ScanEnd
    <3> QED
      BY <1>1, <3>1, <3>2
  <2> QED
    BY <2>1, <2>2
<1> QED
  BY <1>1, <1>3, <1>8, <1>9, <1>10, <1>11 DEF OamInv, ModeClause

LEMMA ScanBegins ==
  ASSUME OamInv, ScanBegin
  PROVE  OamInv' /\ pbs' = pbs
<1> DEFINE w == IF Dispatched = "ENV_BANDS_SCAN" THEN oam_env_bands_scan ELSE lte_cells_para_acquire
<1>1. ListsOK(opers) /\ OamTypes /\ MainJob /\ Settled /\ ModeClause /\ (spc \in {"begin", "scan"} => scanType = asked)
  BY DEF OamInv, ModeClause
<1>2. /\ spc = "begin" /\ spc' = "scan" /\ scanType' = scanType /\ asked' = asked /\ settled' = "no"
      /\ cn_oper' = cn_oper /\ band' = band /\ pbs' = pbs /\ opers' = opers /\ settings' = settings
      /\ ret' = ret /\ unrestored' = unrestored /\ goal' = goal /\ old' = old
      /\ heard' = heard /\ sync_var' = sync_var /\ job' = [job EXCEPT !["scan"] = w]
  BY DEF ScanBegin, Dispatched, unitvars
<1>3. w \in Seq(ScanSteps)
  BY <1>1, EnvScanSteps, AcquireSteps DEF ListsOK, OamTypes
<1> HIDE DEF w
<1>4. DOMAIN job' = Threads /\ job'["main"] = job["main"] /\ job'["scan"] = w
  BY <1>1, <1>2 DEF OamTypes, Threads
<1>5. OamTypes'
  BY <1>1, <1>2, <1>3, <1>4 DEF OamTypes
<1>6. MainJob' /\ ModeClause'
  BY <1>1, <1>2, <1>4 DEF MainJob, OrderJob, CellJob, Ahead, ModeClause
<1>7. Settled'
  BY <1>2 DEF Settled, OrderPending, OrderDone
<1> QED
  BY <1>1, <1>2, <1>5, <1>6, <1>7 DEF OamInv, ModeClause

LEMMA EnvBegins ==
  ASSUME OamInv, EnvScanReq
  PROVE  OamInv' /\ pbs' = pbs
<1> DEFINE w == oam_env_bands_scan
<1>1. ListsOK(opers) /\ OamTypes /\ MainJob /\ Settled /\ ModeClause /\ (spc \in {"begin", "scan"} => scanType = asked)
  BY DEF OamInv, ModeClause
<1>2. /\ spc' = spc /\ scanType' = scanType /\ asked' = asked /\ settled' = "no"
      /\ cn_oper' = cn_oper /\ band' = band /\ pbs' = pbs /\ opers' = opers /\ settings' = settings
      /\ ret' = ret /\ unrestored' = unrestored /\ goal = "none" /\ goal' = "env" /\ old' = old
      /\ heard' = heard /\ sync_var' = sync_var /\ job' = [job EXCEPT !["main"] = w]
  BY DEF EnvScanReq, unitvars
<1>3. w \in Seq(ScanSteps) /\ w \in Seq(AnySteps)
  <2>1. w \in Seq(ScanSteps)
    BY <1>1, EnvScanSteps DEF ListsOK
  <2>2. \A q \in Seq(ScanSteps) : q \in Seq(AnySteps)
    BY ItemsAre
  <2> QED
    BY <2>1, <2>2
<1> HIDE DEF w
<1>4. DOMAIN job' = Threads /\ job'["main"] = w /\ job'["scan"] = job["scan"]
  BY <1>1, <1>2 DEF OamTypes, Threads
<1>5. OamTypes'
  BY <1>1, <1>2, <1>3, <1>4 DEF OamTypes
<1>6. MainJob' /\ ModeClause'
  BY <1>1, <1>2, <1>3, <1>4 DEF MainJob, ModeClause, Orders
<1>7. Settled'
  BY <1>2 DEF Settled, OrderPending, OrderDone
<1> QED
  BY <1>1, <1>2, <1>5, <1>6, <1>7 DEF OamInv, ModeClause

LEMMA OamStarts == OamInit => OamInv
<1> SUFFICES ASSUME OamInit PROVE OamInv
  OBVIOUS
<1> USE DEF OamInit, ListsInit, OamUnitInit
<1>1. ListsOK(opers)
  BY OamAssumption DEF ListsOK
<1>2. job["main"] = <<>> /\ job["scan"] = <<>> /\ DOMAIN job = Threads
  BY DEF Threads
<1>3. CMCC \in OperSet /\ CUCC \in OperSet
  BY OamAssumption
<1>7. settings \in [lock : OperSet, mode : {"LTE", "GSM"}, band : Nat] /\ pbs \in [oper : OperSet, band : Nat]
  BY <1>3
<1>8. heard \in [oper : OperSet \cup {255}, band : Nat]
  BY DEF NoCell
<1>9. job["main"] \in Seq(AnySteps) /\ job["scan"] \in Seq(ScanSteps)
  BY <1>2
<1>4. OamTypes
  BY <1>2, <1>3, <1>7, <1>8, <1>9 DEF OamTypes
<1>5. MainJob
  BY <1>2 DEF MainJob, Ahead, Orders
<1>6. Settled
  BY DEF Settled, OrderPending, OrderDone
<1> QED
  BY <1>1, <1>4, <1>5, <1>6 DEF OamInv

\* Every step keeps the invariant, and only a report that is made the unit's cell changes that.
LEMMA OamSteps ==
  ASSUME OamInv, OamNext
  PROVE  OamInv' /\ (pbs' # pbs => goal = "cell" /\ job["main"] = Report1 /\ pbs' = heard)
<1>1. ASSUME NEW o \in OperSet, NEW b \in {r.band : r \in BandSet} \cup {255}, ParaReq(o, b)
      PROVE  OamInv' /\ pbs' = pbs
  <2>1. b \in Nat
    BY BandsAssumption, BandIs
  <2> QED
    BY <1>1, <2>1, ParaBegins
<1>2. ASSUME NEW b \in {r.band : r \in BandSet}, BandReq(b)
      PROVE  OamInv' /\ pbs' = pbs
  <2>1. b \in Nat
    BY BandsAssumption, BandIs
  <2> QED
    BY <1>2, <2>1, BandBegins
<1>3. CASE (\E o \in OperSet : OperReq(o)) \/ ModeReq
  BY <1>3, ChoiceBegins
<1>4. CASE CellGet \/ Finish
  BY <1>4, CellBegins, FinishKeeps
<1>5. CASE CellsParaReq \/ EnvScanTimeout \/ ScanWait \/ ScanTake \/ ScanEnd
  BY <1>5, ScanSteps1
<1>6. CASE EnvScanReq \/ ScanBegin
  BY <1>6, EnvBegins, ScanBegins
<1>7. CASE Exchange("main")
  BY <1>7, MainExchange
<1>8. CASE Exchange("scan")
  BY <1>8, ScanExchange
<1> QED
  BY <1>1, <1>2, <1>3, <1>4, <1>5, <1>6, <1>7, <1>8, Zenon DEF OamNext, ScanThread

LEMMA OamStill == OamInv /\ UNCHANGED oamvars => OamInv'
<1> SUFFICES ASSUME OamInv, UNCHANGED oamvars PROVE OamInv'
  OBVIOUS
<1>1. /\ cn_oper' = cn_oper /\ band' = band /\ pbs' = pbs /\ opers' = opers /\ settings' = settings
      /\ job' = job /\ ret' = ret /\ unrestored' = unrestored /\ goal' = goal /\ old' = old
      /\ heard' = heard /\ settled' = settled /\ sync_var' = sync_var /\ spc' = spc
      /\ scanType' = scanType /\ asked' = asked
  BY DEF oamvars, scanvars
<1>2. OamTypes'
  BY <1>1 DEF OamInv, OamTypes
<1>3. MainJob'
  BY <1>1 DEF OamInv, MainJob, OrderJob, CellJob, Ahead
<1>4. Settled'
  BY <1>1 DEF OamInv, Settled, OrderPending, OrderDone, Ahead
<1>5. ModeClause'
  BY <1>1 DEF OamInv, ModeClause, Ahead
<1> QED
  BY <1>1, <1>2, <1>3, <1>4, <1>5 DEF OamInv, ModeClause

\* Whatever exchange of whichever thread fails and in whatever order they run: what main has left to do
\* is the rest of its order, and while an order is under way or done the modem is set as far as the
\* order is, for no scan runs (lte_oam.c:464, 822, 1302; lte_cell_sel.c:280).
THEOREM OamInvariant == OamSpec => []OamInv
<1>1. OamInv /\ [OamNext]_oamvars => OamInv'
  BY OamSteps, OamStill
<1> QED
  BY OamStarts, <1>1, PTL DEF OamSpec

LEMMA OamTyped == OamInv => OamTypeOK /\ LteRestored
<1> SUFFICES ASSUME OamInv PROVE OamTypeOK /\ LteRestored
  OBVIOUS
<1>1. settings.mode \in {"LTE", "GSM"} /\ settings.lock \in OperSet
  BY SettingsAre DEF OamInv
<1>2. OamTypeOK
  BY <1>1 DEF OamInv, OamTypes, MainJob, Ahead, Orders, OamTypeOK
<1>3. LteRestored
  <2> SUFFICES ASSUME goal = "none" PROVE settings.mode = "LTE" \/ unrestored
    BY DEF LteRestored
  <2> QED
    BY DEF OamInv
<1> QED
  BY <1>2, <1>3

\* The cell the unit comes to imitate is the one that was ordered, the lists it is chosen from stay in
\* order, and the modem returns to LTE (lte_oam.c:465, 912, lte_cell_sel.c:381, 1181).
THEOREM ImitatesOrderedCell == OamSpec => CellAsOrdered
<1>1. OamInv => BandsInOrder
  BY ListsInOrder DEF OamInv
<1>2. OamInv /\ OamNext => (Doing("main", "build") /\ settled = "done" /\ pbs' # pbs
        => pbs' = [oper |-> cn_oper, band |-> band] /\ Offered(opers, cn_oper, band))
  <2> SUFFICES ASSUME OamInv, OamNext, settled = "done", pbs' # pbs
               PROVE  pbs' = [oper |-> cn_oper, band |-> band] /\ Offered(opers, cn_oper, band)
    OBVIOUS
  <2>1. goal = "cell" /\ Ahead(Report1) /\ pbs' = heard
    BY OamSteps DEF Ahead
  <2> QED
    BY <2>1 DEF OamInv, Settled, OrderDone
<1>3. UNCHANGED oamvars => pbs' = pbs
  BY DEF oamvars
<1>4. OamInv /\ [OamNext]_oamvars =>
        [Doing("main", "build") /\ settled = "done" /\ pbs' # pbs
          => pbs' = [oper |-> cn_oper, band |-> band] /\ Offered(opers, cn_oper, band)]_oamvars
  BY <1>2
<1>5. OamSpec => OrderedCell
  BY OamInvariant, <1>4, PTL DEF OamSpec, OrderedCell
<1>6. OamSpec => [](OamTypeOK /\ BandsInOrder /\ LteRestored)
  BY OamInvariant, OamTyped, <1>1, PTL
<1> QED
  BY <1>5, <1>6 DEF CellAsOrdered

\* A scan is of the kind that was asked for when it was taken, whatever is asked for after that
\* (lte_oam.c:55-58).
THEOREM ScansAsAsked == OamSpec => []ScanAsAsked
<1>1. OamInv => ScanAsAsked
  BY DEF OamInv, ScanAsAsked
<1> QED
  BY OamInvariant, <1>1, PTL

-----------------------------------------------------------------------------
(* GsmSm: the start of the GSM unit *)

Channel(t) == IF t = 2 /\ bts_mode = 3 THEN 14 ELSE 19
Types == {"cap", "amp", "time", "para", "alarm", "power", "rf", "change"}
Items == [type : Types, trx : 0 .. 2, value : {0, 1, 14, 19}]

\* What a program may send before the script.
Early(r) == r.type = "cap" \/ r.type = "time" \/ (r.type = "amp" /\ r.value = Off)
\* The amplifier is switched on by the last request of the script.
Late(r) == r.type = "amp" /\ r.value # Off
\* A transceiver that runs is tuned, to its own channel; an amplifier is off or on.
Tuning(r) ==
  /\ r.type = "para" => r.trx \in TrxOf[bts_mode] /\ r.value = Channel(r.trx)
  /\ r.type = "amp" => r.value \in {0, 1}

GsmTypes ==
  /\ bts_mode \in 1 .. 3 /\ gstate \in {"idle", "running"}
  /\ gslot \in {0, 1, NoSlot} /\ timer_id \in {0, 1}
  /\ event_index \in 0 .. Len(Script[bts_mode]) /\ misses \in 0 .. GsmLosses /\ broken \in BOOLEAN
  /\ amp \in {0, 1} /\ tuned \in [Trx -> {0, 19, 14}]
  /\ tounit \in Seq(Items) /\ tohost \in Seq({"cap", "amp", "time"})
  /\ arfcn = IF bts_mode = 3 /\ event_index >= 5 THEN 14 ELSE 19

Elems(s) == {s[n] : n \in 1 .. Len(s)}

\* An idle program has begun nothing.
IdleOK ==
  gstate = "idle" => event_index = 0 /\ (\A t \in Trx : tuned[t] = 0) /\ \A r \in Elems(tounit) : Early(r)

\* The amplifier was switched off before the clocks were set: it is off until the script ends.
Asked == \/ gstate = "running" \/ (\E a \in Elems(tohost) : a # "cap")
         \/ \E r \in Elems(tounit) : r.type = "time"
Silent == Asked => amp = Off \/ (AllRun /\ tounit = <<>>)

\* The request that switches the amplifier on is the last of all, and not lost unseen.
LateOK == \A n \in 1 .. Len(tounit) : Late(tounit[n]) => AllRun /\ n = Len(tounit)
SwitchedOn == AllRun /\ ~broken => IF tounit = <<>> THEN amp # Off ELSE Late(tounit[Len(tounit)])

TunedOK ==
  /\ \A r \in Elems(tounit) : Tuning(r)
  /\ \A t \in Trx : tuned[t] # 0 => t \in TrxOf[bts_mode] /\ tuned[t] = Channel(t)

GsmInv == GsmTypes /\ IdleOK /\ Silent /\ LateOK /\ SwitchedOn /\ TunedOK

-----------------------------------------------------------------------------
(* The script *)

LEMMA TrxIs == /\ TrxOf[1] = {1} /\ TrxOf[2] = {2} /\ TrxOf[3] = {1, 2}
               /\ \A m \in 1 .. 3 : TrxOf[m] \subseteq Trx
  BY DEF TrxOf, Trx

LEMMA RequestIs ==
  ASSUME NEW y \in Types, NEW t \in 0 .. 2, NEW v \in {0, 1, 14, 19}
  PROVE  /\ Request(y, t, v) \in Items /\ Request(y, t, v).type = y
         /\ Request(y, t, v).trx = t /\ Request(y, t, v).value = v
  BY DEF Request, Items

LEMMA FieldsAre ==
  ASSUME NEW x \in Items
  PROVE  /\ x.type \in Types /\ x.trx \in 0 .. 2 /\ x.value \in {0, 1, 14, 19}
         /\ \A v \in {0, 1, 14, 19} : LET y == [x EXCEPT !.value = v]
                                      IN  y \in Items /\ y.type = x.type /\ y.trx = x.trx /\ y.value = v
  BY DEF Items

\* What stands at place i of the script of mode m, of length len.
EntryOK(m, len, i, r) ==
  /\ r \in Items /\ r.type \notin {"cap", "time"}
  /\ r.type = "amp" <=> i = len
  /\ r.type = "amp" => r.value = 1
  /\ r.type = "change" <=> m = 3 /\ i = 5
  /\ r.type = "para" => r.trx \in TrxOf[m] /\ (m = 3 => (i > 5 <=> r.trx = 2))

LEMMA ConfigureIs ==
  ASSUME NEW m \in 1 .. 3, NEW t \in TrxOf[m], NEW k \in {0, 5}, NEW len \in {5, 10}, k < len - 4,
         m = 3 => (k = 5 <=> t = 2) 
  PROVE  /\ Configure(t) \in Seq(Items) /\ Len(Configure(t)) = 4
         /\ \A i \in 1 .. 4 : EntryOK(m, len, i + k, Configure(t)[i])
<1>1. t \in {1, 2} /\ t \in 0 .. 2
  BY TrxIs DEF Trx
<1> DEFINE x1 == Request("para", t, 0)
           x2 == Request("alarm", t, 0)
           x3 == Request("power", t, 0)
           x4 == Request("rf", t, 0)
           c == <<x1, x2, x3, x4>>
<1>2. Configure(t) = c
  BY DEF Configure
<1>3. /\ x1 \in Items /\ x2 \in Items /\ x3 \in Items /\ x4 \in Items
      /\ x1.type = "para" /\ x2.type = "alarm" /\ x3.type = "power" /\ x4.type = "rf" /\ x1.trx = t
  BY <1>1, RequestIs DEF Types
<1> HIDE DEF x1, x2, x3, x4
<1>4. c \in Seq(Items) /\ Len(c) = 4 /\ c[1] = x1 /\ c[2] = x2 /\ c[3] = x3 /\ c[4] = x4
  BY <1>3
<1> HIDE DEF c
<1>5. EntryOK(m, len, 1 + k, x1)
  BY <1>1, <1>3 DEF EntryOK
<1>6. EntryOK(m, len, 2 + k, x2) /\ EntryOK(m, len, 3 + k, x3) /\ EntryOK(m, len, 4 + k, x4)
  BY <1>3 DEF EntryOK
<1>7. \A i \in 1 .. 4 : EntryOK(m, len, i + k, c[i])
  BY <1>4, <1>5, <1>6
<1> QED
  BY <1>2, <1>4, <1>7

LEMMA LastIs ==
  ASSUME NEW m \in 1 .. 3, NEW len \in {5, 10}, m = 3 => len = 10
  PROVE  /\ AmpOn \in Seq(Items) /\ Len(AmpOn) = 1 /\ EntryOK(m, len, len, AmpOn[1])
<1> DEFINE x == Request("amp", 0, 1)
<1>1. x \in Items /\ x.type = "amp" /\ x.value = 1 
  BY RequestIs DEF Types
<1>2. AmpOn = <<x>>
  BY DEF AmpOn
<1> HIDE DEF x
<1>3. EntryOK(m, len, len, x)
  BY <1>1 DEF EntryOK
<1> QED
  BY <1>1, <1>2, <1>3

\* A script is what transceivers are sent, and then the amplifier.
LEMMA ScriptIs ==
  ASSUME NEW m \in 1 .. 3
  PROVE  /\ Len(Script[m]) = IF m = 3 THEN 10 ELSE 5
         /\ \A i \in 1 .. Len(Script[m]) : EntryOK(m, Len(Script[m]), i, Script[m][i])
<1>1. /\ Script[1] = Configure(1) \o AmpOn
      /\ Script[2] = Configure(2) \o AmpOn
      /\ Script[3] = ((Configure(1) \o <<Request("change", 1, 0)>>) \o Configure(2)) \o AmpOn
  BY DEF Script
<1>2. ASSUME NEW t \in TrxOf[m], m # 3, Script[m] = Configure(t) \o AmpOn
      PROVE  Len(Script[m]) = 5 /\ \A i \in 1 .. 5 : EntryOK(m, 5, i, Script[m][i])
  <2> DEFINE c == Configure(t)
             q == AmpOn
             s == c \o q
  <2>1. c \in Seq(Items) /\ Len(c) = 4 /\ \A i \in 1 .. 4 : EntryOK(m, 5, i + 0, c[i])
    BY <1>2, ConfigureIs
  <2>2. q \in Seq(Items) /\ Len(q) = 1 /\ EntryOK(m, 5, 5, q[1])
    BY <1>2, LastIs
  <2> HIDE DEF c, q
  <2>3. /\ s \in Seq(Items) /\ Len(s) = Len(c) + Len(q)
        /\ \A i \in 1 .. Len(c) + Len(q) : s[i] = IF i <= Len(c) THEN c[i] ELSE q[i - Len(c)]
    BY <2>1, <2>2, ConcatProperties
  <2> HIDE DEF s
  <2>4. Len(s) = 5 /\ \A i \in 1 .. 5 : EntryOK(m, 5, i, s[i])
    <3>1. ASSUME NEW i \in 1 .. 5 PROVE EntryOK(m, 5, i, s[i])
      <4>1. CASE i <= 4
        <5>1. i \in 1 .. 4 /\ i + 0 = i /\ s[i] = c[i]
          BY <2>1, <2>2, <2>3, <4>1
        <5>2. EntryOK(m, 5, i + 0, c[i])
          BY <2>1, <5>1
        <5> QED
          BY <5>1, <5>2
      <4>2. CASE ~(i <= 4)
        <5>1. i = 5 /\ s[i] = q[1]
          BY <2>1, <2>2, <2>3, <4>2
        <5> QED
          BY <2>2, <5>1
      <4> QED
        BY <4>1, <4>2
    <3> QED
      BY <2>1, <2>2, <2>3, <3>1
  <2> QED
    BY <1>2, <2>4 DEF s, c, q
<1>3. CASE m = 1
  <2>1. 1 \in TrxOf[m] /\ m # 3 /\ Script[m] = Configure(1) \o AmpOn
    BY <1>1, <1>3, TrxIs
  <2>2. Len(Script[m]) = 5 /\ \A i \in 1 .. 5 : EntryOK(m, 5, i, Script[m][i])
    BY <1>2, <2>1
  <2> QED
    BY <1>3, <2>2
<1>4. CASE m = 2
  <2>1. 2 \in TrxOf[m] /\ m # 3 /\ Script[m] = Configure(2) \o AmpOn
    BY <1>1, <1>4, TrxIs
  <2>2. Len(Script[m]) = 5 /\ \A i \in 1 .. 5 : EntryOK(m, 5, i, Script[m][i])
    BY <1>2, <2>1
  <2> QED
    BY <1>4, <2>2
<1>5. CASE m = 3
  <2> DEFINE c == Configure(1)
             x == Request("change", 1, 0)
             d == <<x>>
             e == Configure(2)
             q == AmpOn
             cd == c \o d
             f == cd \o e
             s == f \o q
  <2>0. 1 \in TrxOf[m] /\ 2 \in TrxOf[m]
    BY <1>5, TrxIs
  <2>1. c \in Seq(Items) /\ Len(c) = 4 /\ \A i \in 1 .. 4 : EntryOK(m, 10, i + 0, c[i])
    BY <1>5, <2>0, ConfigureIs
  <2>2. e \in Seq(Items) /\ Len(e) = 4 /\ \A i \in 1 .. 4 : EntryOK(m, 10, i + 5, e[i])
    BY <1>5, <2>0, ConfigureIs
  <2>3. q \in Seq(Items) /\ Len(q) = 1 /\ EntryOK(m, 10, 10, q[1])
    BY <1>5, LastIs
  <2>4. x \in Items /\ x.type = "change"
    BY RequestIs DEF Types
  <2> HIDE DEF c, e, q, x
  <2>5. d \in Seq(Items) /\ Len(d) = 1 /\ EntryOK(m, 10, 5, d[1])
    <3>1. EntryOK(m, 10, 5, x)
      BY <1>5, <2>4 DEF EntryOK
    <3> QED
      BY <2>4, <3>1
  <2> HIDE DEF d
  <2>6. /\ cd \in Seq(Items) /\ Len(cd) = Len(c) + Len(d)
        /\ \A i \in 1 .. Len(c) + Len(d) : cd[i] = IF i <= Len(c) THEN c[i] ELSE d[i - Len(c)]
    BY <2>1, <2>5, ConcatProperties
  <2> HIDE DEF cd
  <2>7. /\ f \in Seq(Items) /\ Len(f) = Len(cd) + Len(e)
        /\ \A i \in 1 .. Len(cd) + Len(e) : f[i] = IF i <= Len(cd) THEN cd[i] ELSE e[i - Len(cd)]
    <3>1. cd \in Seq(Items) /\ e \in Seq(Items)
      BY <2>2, <2>6
    <3> QED
      BY <3>1, ConcatProperties
  <2> HIDE DEF f
  <2>8. /\ s \in Seq(Items) /\ Len(s) = Len(f) + Len(q)
        /\ \A i \in 1 .. Len(f) + Len(q) : s[i] = IF i <= Len(f) THEN f[i] ELSE q[i - Len(f)]
    <3>1. f \in Seq(Items) /\ q \in Seq(Items)
      BY <2>3, <2>7
    <3> QED
      BY <3>1, ConcatProperties
  <2> HIDE DEF s
  <2>9. ASSUME NEW i \in 1 .. 10 PROVE EntryOK(m, 10, i, s[i])
    <3>1. CASE i <= 4
      <4>1. i \in 1 .. 4 /\ i + 0 = i /\ s[i] = c[i]
        <5>1. s[i] = f[i]
          BY <2>1, <2>2, <2>3, <2>5, <2>6, <2>7, <2>8, <3>1
        <5>2. f[i] = cd[i]
          BY <2>1, <2>2, <2>5, <2>6, <2>7, <3>1
        <5>3. cd[i] = c[i]
          BY <2>1, <2>5, <2>6, <3>1
        <5> QED
          BY <3>1, <5>1, <5>2, <5>3
      <4>2. EntryOK(m, 10, i + 0, c[i])
        BY <2>1, <4>1
      <4> QED
        BY <4>1, <4>2
    <3>2. CASE i = 5
      <4>1. s[5] = f[5]
        BY <2>1, <2>2, <2>3, <2>5, <2>6, <2>7, <2>8
      <4>2. f[5] = cd[5]
        BY <2>1, <2>2, <2>5, <2>6, <2>7
      <4>3. cd[5] = d[1]
        BY <2>1, <2>5, <2>6
      <4> QED
        BY <2>5, <3>2, <4>1, <4>2, <4>3
    <3>3. CASE i \in 6 .. 9
      <4>1. s[i] = f[i]
        BY <2>1, <2>2, <2>3, <2>5, <2>6, <2>7, <2>8, <3>3
      <4>2. f[i] = e[i - 5]
        BY <2>1, <2>2, <2>5, <2>6, <2>7, <3>3
      <4>3. i - 5 \in 1 .. 4 /\ (i - 5) + 5 = i
        BY <3>3
      <4>4. EntryOK(m, 10, (i - 5) + 5, e[i - 5])
        BY <2>2, <4>3
      <4> QED
        BY <4>1, <4>2, <4>3, <4>4
    <3>4. CASE i = 10
      <4>1. s[10] = q[1]
        BY <2>1, <2>2, <2>3, <2>5, <2>6, <2>7, <2>8
      <4> QED
        BY <2>3, <3>4, <4>1
    <3> QED
      BY <3>1, <3>2, <3>3, <3>4
  <2>10. Len(s) = 10
    BY <2>1, <2>2, <2>3, <2>5, <2>6, <2>7, <2>8
  <2>11. Script[m] = s
    BY <1>1, <1>5 DEF s, f, cd, d, c, e, q, x
  <2> QED
    BY <1>5, <2>9, <2>10, <2>11
<1> QED
  BY <1>3, <1>4, <1>5

-----------------------------------------------------------------------------
(* The start *)

\* The requests for the clocks are those of the transceivers that run.
LEMMA ClocksAre ==
  ASSUME bts_mode \in 1 .. 3
  PROVE  /\ ClockRequests \in Seq(Items)
         /\ \A n \in 1 .. Len(ClockRequests) : ClockRequests[n].type = "time"
<1> DEFINE S == {Request("time", t, 0) : t \in TrxOf[bts_mode]}
           N == Cardinality(S)
<1>1. TrxOf[bts_mode] \in {{1}, {2}, {1, 2}}
  BY TrxIs
<1>2. \A x \in S : x \in Items /\ x.type = "time"
  BY <1>1, RequestIs DEF Types
<1>3. IsFiniteSet(S)
  <2> DEFINE A == {Request("time", 1, 0)}
             B == {Request("time", 2, 0)}
  <2>1. IsFiniteSet(A) /\ IsFiniteSet(B)
    BY FS_Singleton
  <2>2. S \in {A, B, A \cup B}
    BY <1>1
  <2> HIDE DEF S, A, B
  <2>3. IsFiniteSet(A \cup B)
    BY <2>1, FS_Union
  <2> QED
    BY <2>1, <2>2, <2>3
<1> HIDE DEF S
<1>4. N \in Nat /\ ExistsBijection(1 .. N, S)
  BY <1>3, FS_CardinalityType
<1> HIDE DEF N
<1>5. \E f \in [1 .. N -> S] : IsInjective(f)
  BY <1>4 DEF ExistsBijection, Bijection, Injection, IsInjective
<1>6. SetToSeq(S) \in [1 .. N -> S]
  BY <1>5 DEF SetToSeq, N
<1>7. ClockRequests = SetToSeq(S)
  BY DEF ClockRequests, S
<1>8. ClockRequests \in Seq(S) /\ Len(ClockRequests) = N
  BY <1>4, <1>6, <1>7
<1> QED
  BY <1>2, <1>6, <1>7, <1>8

LEMMA Appended ==
  ASSUME NEW S, NEW s \in Seq(S), NEW x \in S
  PROVE  LET u == Append(s, x)
         IN  /\ u \in Seq(S) /\ u # <<>> /\ Len(u) = Len(s) + 1 /\ u[Len(u)] = x
             /\ \A n \in 1 .. Len(s) : u[n] = s[n]
             /\ Elems(u) = Elems(s) \cup {x}
<1> DEFINE u == Append(s, x)
<1>1. /\ u \in Seq(S) /\ Len(u) = Len(s) + 1 /\ u[Len(s) + 1] = x
      /\ \A n \in 1 .. Len(s) : u[n] = s[n]
  OBVIOUS
<1>2. Len(s) \in Nat
  OBVIOUS
<1> HIDE DEF u
<1>3. u # <<>>
  BY <1>1, <1>2
<1>4. \A n : n \in 1 .. Len(u) <=> n \in 1 .. Len(s) \/ n = Len(s) + 1
  BY <1>1, <1>2
<1>5. Elems(u) = Elems(s) \cup {x}
  BY <1>1, <1>4 DEF Elems
<1> QED
  BY <1>1, <1>3, <1>5 DEF u

LEMMA TailIs ==
  ASSUME NEW S, NEW s \in Seq(S), s # <<>>
  PROVE  /\ Tail(s) \in Seq(S) /\ Len(s) \in Nat /\ Len(s) >= 1 /\ Len(Tail(s)) = Len(s) - 1
         /\ \A n \in 1 .. Len(Tail(s)) : Tail(s)[n] = s[n + 1] /\ n + 1 \in 1 .. Len(s)
         /\ Elems(Tail(s)) \subseteq Elems(s) /\ Head(s) = s[1] /\ Head(s) \in Elems(s) /\ Head(s) \in S
         /\ Tail(s) = <<>> <=> Len(s) = 1
<1> DEFINE r == Tail(s)
<1>1. Len(s) \in Nat /\ Len(s) >= 1
  OBVIOUS
<1>2. r \in Seq(S) /\ Len(r) = Len(s) - 1 /\ \A n \in 1 .. Len(r) : r[n] = s[n + 1]
  OBVIOUS
<1>3. Head(s) = s[1] /\ 1 \in 1 .. Len(s) /\ s[1] \in S
  BY <1>1
<1> HIDE DEF r
<1>4. \A n \in 1 .. Len(r) : n + 1 \in 1 .. Len(s)
  BY <1>1, <1>2
<1>5. Elems(r) \subseteq Elems(s)
  BY <1>2, <1>4 DEF Elems
<1>6. r = <<>> <=> Len(s) = 1
  BY <1>1, <1>2
<1> QED
  BY <1>1, <1>2, <1>3, <1>4, <1>5, <1>6 DEF Elems, r

LEMMA ElemsAre ==
  ASSUME NEW S, NEW s \in Seq(S), NEW t \in Seq(S)
  PROVE  /\ Elems(s) \subseteq S /\ (Elems(s) = {} <=> s = <<>>)
         /\ s \o t \in Seq(S) /\ Elems(s \o t) = Elems(s) \cup Elems(t)
<1> DEFINE u == s \o t
<1>1. Len(s) \in Nat /\ Len(t) \in Nat
  OBVIOUS
<1>2. /\ u \in Seq(S) /\ Len(u) = Len(s) + Len(t)
      /\ \A i \in 1 .. Len(s) + Len(t) : u[i] = IF i <= Len(s) THEN s[i] ELSE t[i - Len(s)]
  BY ConcatProperties
<1> HIDE DEF u
<1>3. Elems(u) \subseteq Elems(s) \cup Elems(t)
  <2> SUFFICES ASSUME NEW i \in 1 .. Len(u) PROVE u[i] \in Elems(s) \cup Elems(t)
    BY DEF Elems
  <2>1. CASE i <= Len(s)
    <3>1. i \in 1 .. Len(s) /\ u[i] = s[i]
      BY <1>1, <1>2, <2>1
    <3> QED
      BY <3>1 DEF Elems
  <2>2. CASE ~(i <= Len(s))
    <3>1. i - Len(s) \in 1 .. Len(t) /\ u[i] = t[i - Len(s)]
      BY <1>1, <1>2, <2>2
    <3> QED
      BY <3>1 DEF Elems
  <2> QED
    BY <2>1, <2>2
<1>4. Elems(s) \subseteq Elems(u)
  <2> SUFFICES ASSUME NEW i \in 1 .. Len(s) PROVE s[i] \in Elems(u)
    BY DEF Elems
  <2>1. i \in 1 .. Len(u) /\ u[i] = s[i]
    BY <1>1, <1>2
  <2> QED
    BY <2>1 DEF Elems
<1>5. Elems(t) \subseteq Elems(u)
  <2> SUFFICES ASSUME NEW i \in 1 .. Len(t) PROVE t[i] \in Elems(u)
    BY DEF Elems
  <2>1. Len(s) + i \in 1 .. Len(u) /\ ~(Len(s) + i <= Len(s)) /\ (Len(s) + i) - Len(s) = i
    BY <1>1, <1>2
  <2>2. u[Len(s) + i] = t[i]
    BY <1>2, <2>1
  <2> QED
    BY <2>1, <2>2 DEF Elems
<1>6. Elems(s) \subseteq S
  BY DEF Elems
<1>7. Elems(s) = {} <=> s = <<>>
  <2>1. s # <<>> => 1 \in 1 .. Len(s)
    OBVIOUS
  <2>2. s = <<>> => 1 .. Len(s) = {}
    OBVIOUS
  <2> QED
    BY <2>1, <2>2 DEF Elems
<1> QED
  BY <1>2, <1>3, <1>4, <1>5, <1>6, <1>7 DEF u

\* Before the script is done there is nothing that switches the amplifier on.
LEMMA NotYet ==
  ASSUME GsmInv
  PROVE  /\ Len(Script[bts_mode]) \in {5, 10} /\ event_index \in 0 .. Len(Script[bts_mode])
         /\ gstate = "idle" => ~AllRun
         /\ ~AllRun => \A n \in 1 .. Len(tounit) : ~Late(tounit[n])
         /\ Asked /\ ~AllRun => amp = Off
         /\ Asked /\ tounit # <<>> => amp = Off
<1>1. bts_mode \in 1 .. 3 /\ event_index \in 0 .. Len(Script[bts_mode])
  BY DEF GsmInv, GsmTypes
<1>2. Len(Script[bts_mode]) \in {5, 10}
  BY <1>1, ScriptIs
<1>3. gstate = "idle" => ~AllRun
  <2> DEFINE L == Len(Script[bts_mode])
  <2>1. gstate = "idle" => event_index = 0
    BY DEF GsmInv, IdleOK
  <2>2. L \in {5, 10}
    BY <1>2
  <2>3. AllRun <=> event_index = L
    BY DEF AllRun
  <2> HIDE DEF L
  <2> QED
    BY <2>1, <2>2, <2>3
<1> QED
  BY <1>1, <1>2, <1>3 DEF GsmInv, LateOK, Silent

\* What an idle program sends changes none of it.
LEMMA IdleSends ==
  ASSUME GsmInv, gstate = "idle", gstate' = "idle", tounit' \in Seq(Items),
         NEW E, Elems(tounit') = Elems(tounit) \cup E, \A r \in E : Early(r) /\ r.type # "para",
         Asked' => Asked,
         UNCHANGED <<bts_mode, event_index, arfcn, amp, tuned, misses, broken>>,
         gslot' \in {0, 1, NoSlot}, timer_id' \in {0, 1}, tohost' \in Seq({"cap", "amp", "time"})
  PROVE  GsmInv'
<1>1. GsmTypes /\ IdleOK /\ TunedOK /\ Silent
  BY DEF GsmInv
<1>2. GsmTypes'
  BY <1>1 DEF GsmTypes
<1>3. ~AllRun /\ ~AllRun' /\ (Asked => amp = Off)
  BY NotYet DEF AllRun
<1>4. IdleOK'
  BY <1>1 DEF IdleOK, Early
<1>5. Silent'
  BY <1>3 DEF Silent
<1>6. LateOK'
  <2> SUFFICES ASSUME NEW n \in 1 .. Len(tounit') PROVE ~Late(tounit'[n])
    BY DEF LateOK, Late
  <2>1. tounit'[n] \in Elems(tounit')
    BY DEF Elems
  <2>2. Early(tounit'[n])
    BY <1>4, <2>1 DEF IdleOK, Early
  <2> QED
    BY <2>2 DEF Early, Late
<1>7. SwitchedOn'
  BY <1>3 DEF SwitchedOn
<1>8. TunedOK'
  BY <1>1 DEF TunedOK, Tuning, Channel, Early, Off
<1> QED
  BY <1>2, <1>4, <1>5, <1>6, <1>7, <1>8 DEF GsmInv

\* The slots and the numbers of the timer.
LEMMA Slots ==
  ASSUME gslot \in {0, 1, NoSlot}, timer_id \in {0, 1}
  PROVE  FreeSlot \in {0, 1} /\ AfterDelete \in {0, 1, NoSlot}
  BY DEF FreeSlot, AfterDelete

LEMMA GsmTypesHold ==
  ASSUME GsmInv
  PROVE  /\ bts_mode \in 1 .. 3 /\ gstate \in {"idle", "running"} /\ gslot \in {0, 1, NoSlot} /\ timer_id \in {0, 1}
         /\ tounit \in Seq(Items) /\ tohost \in Seq({"cap", "amp", "time"}) /\ tuned \in [Trx -> {0, 19, 14}]
         /\ amp \in {0, 1} /\ misses \in 0 .. GsmLosses /\ broken \in BOOLEAN
  BY DEF GsmInv, GsmTypes

LEMMA FirstRequests ==
  LET c == Request("cap", 0, 0)
      o == Request("amp", 0, Off)
  IN  /\ c \in Items /\ Early(c) /\ c.type = "cap" /\ ~Late(c)
      /\ o \in Items /\ Early(o) /\ o.type = "amp" /\ ~Late(o)
BY RequestIs DEF Types, Early, Late, Off

LEMMA TimeoutStep == ASSUME GsmInv, CapGetTimeout PROVE GsmInv'
<1>1. UNCHANGED <<bts_mode, event_index, arfcn, tohost, amp, tuned, misses, broken>>
  BY DEF CapGetTimeout
<1>2. CASE gstate = "idle"
  <2> DEFINE x == Request("cap", 0, 0)
             u == Append(tounit, x)
  <2>1. gstate' = "idle" /\ tounit' = u /\ gslot' = FreeSlot /\ timer_id' = FreeSlot
    BY <1>2 DEF CapGetTimeout, gsm_sm_start
  <2>2. x \in Items /\ Early(x) /\ x.type = "cap"
    BY FirstRequests
  <2> HIDE DEF x
  <2>3. u \in Seq(Items) /\ Elems(u) = Elems(tounit) \cup {x}
    BY <2>2, GsmTypesHold, Appended
  <2>4. gslot' \in {0, 1, NoSlot} /\ timer_id' \in {0, 1}
    BY <2>1, GsmTypesHold, Slots
  <2> HIDE DEF u
  <2>5. Asked' => Asked
    BY <1>1, <1>2, <2>1, <2>2, <2>3 DEF Asked
  <2>6. tohost' \in Seq({"cap", "amp", "time"})
    BY <1>1, GsmTypesHold
  <2> DEFINE E == {x}
  <2>7. /\ tounit' \in Seq(Items) /\ Elems(tounit') = Elems(tounit) \cup E
        /\ \A r \in E : Early(r) /\ r.type # "para"
    BY <2>1, <2>2, <2>3
  <2> HIDE DEF E
  <2> QED
    BY <1>1, <1>2, <2>1, <2>4, <2>5, <2>6, <2>7, IdleSends
<1>3. CASE gstate # "idle"
  <2>1. gslot' = NoSlot /\ UNCHANGED <<gstate, tounit, timer_id>>
    BY <1>3 DEF CapGetTimeout
  <2>2. GsmTypes'
    BY <1>1, <2>1 DEF GsmInv, GsmTypes
  <2>3. IdleOK'
    BY <1>1, <2>1 DEF GsmInv, IdleOK
  <2>4. Silent' /\ LateOK' /\ SwitchedOn'
    BY <1>1, <2>1 DEF GsmInv, Silent, Asked, LateOK, SwitchedOn, AllRun
  <2>5. TunedOK'
    BY <1>1, <2>1 DEF GsmInv, TunedOK, Tuning, Channel
  <2> QED
    BY <2>2, <2>3, <2>4, <2>5 DEF GsmInv
<1> QED
  BY <1>2, <1>3

LEMMA MachineStep == ASSUME GsmInv, gsm_state_machine PROVE GsmInv'
<1> DEFINE H == {"cap", "amp", "time"}
           a == Head(tohost)
<1>1. /\ UNCHANGED <<bts_mode, timer_id, event_index, arfcn, amp, tuned, misses, broken>>
      /\ tohost # <<>> /\ tohost' = Tail(tohost)
  BY DEF gsm_state_machine
<1>2. tohost' \in Seq(H) /\ Elems(tohost') \subseteq Elems(tohost) /\ a \in Elems(tohost) /\ a \in H
  <2>1. tohost \in Seq(H)
    BY GsmTypesHold
  <2> HIDE DEF H
  <2> QED
    BY <1>1, <2>1, TailIs
<1>3. timer_id' \in {0, 1}
  BY <1>1, GsmTypesHold
<1>4. CASE gstate = "idle" /\ a = "cap"
  <2> DEFINE x == Request("amp", 0, Off)
             u == Append(tounit, x)
  <2>1. gstate' = "idle" /\ tounit' = u /\ gslot' = AfterDelete
    BY <1>4 DEF gsm_state_machine, Idle
  <2>2. x \in Items /\ Early(x) /\ x.type = "amp"
    BY FirstRequests
  <2> HIDE DEF x
  <2>3. u \in Seq(Items) /\ Elems(u) = Elems(tounit) \cup {x}
    BY <2>2, GsmTypesHold, Appended
  <2>4. gslot' \in {0, 1, NoSlot}
    BY <2>1, GsmTypesHold, Slots
  <2> HIDE DEF u
  <2>5. Asked' => Asked
    BY <1>2, <1>4, <2>1, <2>2, <2>3 DEF Asked
  <2> DEFINE E == {x}
  <2>7. /\ tounit' \in Seq(Items) /\ Elems(tounit') = Elems(tounit) \cup E
        /\ \A r \in E : Early(r) /\ r.type # "para"
    BY <2>1, <2>2, <2>3
  <2> HIDE DEF E
  <2> QED
    BY <1>1, <1>2, <1>3, <1>4, <2>1, <2>4, <2>5, <2>7, IdleSends
<1>5. CASE gstate = "idle" /\ a = "amp"
  <2> DEFINE c == ClockRequests
  <2>1. gstate' = "idle" /\ tounit' = tounit \o c /\ gslot' = gslot
    BY <1>5 DEF gsm_state_machine, Idle
  <2>2. c \in Seq(Items) /\ \A r \in Elems(c) : r.type = "time"
    BY GsmTypesHold, ClocksAre DEF Elems
  <2> HIDE DEF c
  <2>3. tounit' \in Seq(Items) /\ Elems(tounit') = Elems(tounit) \cup Elems(c)
    BY <2>1, <2>2, GsmTypesHold, ElemsAre
  <2>4. gslot' \in {0, 1, NoSlot}
    BY <2>1, GsmTypesHold
  <2>5. Asked
    BY <1>2, <1>5 DEF Asked
  <2>7. \A r \in Elems(c) : Early(r) /\ r.type # "para"
    BY <2>2 DEF Early
  <2> QED
    BY <1>1, <1>2, <1>3, <1>5, <2>1, <2>3, <2>4, <2>5, <2>7, IdleSends
<1>6. CASE (gstate = "idle" /\ a = "time") \/ gstate = "running"
  <2>1. gstate' = "running" /\ tounit' = tounit /\ gslot' = gslot
    BY <1>6 DEF gsm_state_machine, Idle
  <2>2. Asked
    BY <1>2, <1>6 DEF Asked
  <2>3. GsmTypes'
    BY <1>1, <1>2, <2>1 DEF GsmInv, GsmTypes
  <2>4. IdleOK'
    BY <2>1 DEF IdleOK
  <2>5. Silent' /\ LateOK' /\ SwitchedOn'
    BY <1>1, <2>1, <2>2 DEF GsmInv, Silent, LateOK, SwitchedOn, AllRun
  <2>6. TunedOK'
    BY <1>1, <2>1 DEF GsmInv, TunedOK, Tuning, Channel
  <2> QED
    BY <2>3, <2>4, <2>5, <2>6 DEF GsmInv
<1> QED
  BY <1>2, <1>4, <1>5, <1>6, GsmTypesHold

\* A request of the script goes out.
LEMMA EventStep == ASSUME GsmInv, gsm_run_event PROVE GsmInv'
<1> DEFINE L == Len(Script[bts_mode])
           i == event_index + 1
           entry == Script[bts_mode][i]
<1>1. /\ UNCHANGED <<bts_mode, gstate, gslot, timer_id, tohost, amp, tuned, misses, broken>>
      /\ gstate = "running" /\ event_index < L /\ event_index' = i
  BY DEF gsm_run_event
<1>2. L \in {5, 10} /\ event_index \in 0 .. L /\ (bts_mode = 3 <=> L = 10) /\ bts_mode \in 1 .. 3
      /\ \A k \in 1 .. L : EntryOK(bts_mode, L, k, Script[bts_mode][k])
  <2>1. bts_mode \in 1 .. 3 /\ event_index \in 0 .. L
    BY DEF GsmInv, GsmTypes
  <2>2. /\ L = IF bts_mode = 3 THEN 10 ELSE 5
        /\ \A k \in 1 .. L : EntryOK(bts_mode, L, k, Script[bts_mode][k])
    BY <2>1, ScriptIs
  <2> HIDE DEF L
  <2> QED
    BY <2>1, <2>2
<1>3. L' = L /\ (AllRun' <=> i = L) /\ ~AllRun
  BY <1>1, <1>2 DEF AllRun
<1> HIDE DEF L
<1>4. i \in 1 .. L /\ event_index = i - 1 /\ i \in Nat
  BY <1>1, <1>2
<1>5. EntryOK(bts_mode, L, i, entry)
  BY <1>2, <1>4
<1>6. /\ IF entry.type = "change" THEN arfcn' = 14 /\ UNCHANGED tounit
         ELSE /\ tounit' = Append(tounit, IF entry.type = "para" THEN [entry EXCEPT !.value = arfcn] ELSE entry)
              /\ UNCHANGED arfcn
  BY DEF gsm_run_event
<1>7. arfcn = IF bts_mode = 3 /\ i - 1 >= 5 THEN 14 ELSE 19
  BY <1>4 DEF GsmInv, GsmTypes
<1> HIDE DEF entry
<1>8. ~(\E n \in 1 .. Len(tounit) : Late(tounit[n])) /\ amp = Off
  <2>1. Asked
    BY <1>1 DEF Asked
  <2> QED
    BY <1>3, <2>1, NotYet
<1>9. event_index' \in 0 .. L'
  BY <1>1, <1>3, <1>4
<1>10. IdleOK' /\ Silent'
  BY <1>1, <1>8 DEF IdleOK, Silent
<1>11. CASE entry.type = "change"
  <2>1. arfcn' = 14 /\ tounit' = tounit /\ bts_mode = 3 /\ i = 5
    BY <1>5, <1>6, <1>11 DEF EntryOK
  <2>2. i # L
    BY <1>2, <2>1
  <2>3. arfcn' = IF bts_mode' = 3 /\ event_index' >= 5 THEN 14 ELSE 19
    BY <1>1, <2>1
  <2>4. GsmTypes'
    BY <1>1, <1>9, <2>1, <2>3 DEF GsmInv, GsmTypes, L
  <2>5. LateOK' /\ SwitchedOn'
    BY <1>3, <1>8, <2>1, <2>2 DEF LateOK, SwitchedOn, Late
  <2>6. TunedOK'
    BY <1>1, <2>1 DEF GsmInv, TunedOK, Tuning, Channel
  <2> QED
    BY <1>10, <2>4, <2>5, <2>6 DEF GsmInv
<1>12. CASE entry.type # "change"
  <2> DEFINE x == IF entry.type = "para" THEN [entry EXCEPT !.value = arfcn] ELSE entry
             u == Append(tounit, x)
  <2>1. arfcn' = arfcn /\ tounit' = u
    BY <1>6, <1>12
  <2>2. x \in Items /\ x.type = entry.type /\ (x.type # "para" => x = entry)
        /\ (x.type = "para" => x.trx = entry.trx /\ x.value = arfcn)
    <3>1. entry \in Items /\ arfcn \in {0, 1, 14, 19}
      BY <1>5, <1>7 DEF EntryOK
    <3> QED
      BY <3>1, FieldsAre
  <2> HIDE DEF x
  <2>3. /\ u \in Seq(Items) /\ u # <<>> /\ Len(u) = Len(tounit) + 1 /\ u[Len(u)] = x
        /\ \A n \in 1 .. Len(tounit) : u[n] = tounit[n]
        /\ Elems(u) = Elems(tounit) \cup {x} /\ Len(tounit) \in Nat
    BY <2>2, GsmTypesHold, Appended
  <2> HIDE DEF u
  <2>4. arfcn' = IF bts_mode' = 3 /\ event_index' >= 5 THEN 14 ELSE 19
    <3>1. bts_mode = 3 => i # 5
      BY <1>5, <1>12 DEF EntryOK
    <3> QED
      BY <1>1, <1>4, <1>7, <2>1, <3>1
  <2>5. GsmTypes'
    BY <1>1, <1>9, <2>1, <2>3, <2>4 DEF GsmInv, GsmTypes, L
  <2>6. Late(x) <=> i = L
    BY <1>5, <2>2 DEF EntryOK, Late, Off
  <2>7. LateOK'
    <3> SUFFICES ASSUME NEW n \in 1 .. Len(u), Late(u[n]) PROVE AllRun' /\ n = Len(u)
      BY <2>1 DEF LateOK, Late
    <3>1. n = Len(u)
      <4>1. n \in 1 .. Len(tounit) \/ n = Len(u)
        BY <2>3
      <4> QED
        BY <1>8, <2>3, <4>1
    <3> QED
      BY <1>3, <2>3, <2>6, <3>1
  <2>8. SwitchedOn'
    BY <1>3, <2>1, <2>3, <2>6 DEF SwitchedOn, Late
  <2>9. Tuning(x)
    <3>4. x.type = "amp" => x.value \in {0, 1}
      BY <1>5, <2>2 DEF EntryOK
    <3> SUFFICES ASSUME x.type = "para" PROVE x.trx \in TrxOf[bts_mode] /\ x.value = Channel(x.trx)
      BY <3>4 DEF Tuning
    <3>1. x.trx = entry.trx /\ x.value = arfcn /\ entry.type = "para"
      BY <2>2
    <3>2. entry.trx \in TrxOf[bts_mode] /\ (bts_mode = 3 => (i > 5 <=> entry.trx = 2))
      BY <1>5, <3>1 DEF EntryOK
    <3>3. arfcn = Channel(entry.trx)
      BY <1>4, <1>7, <3>2 DEF Channel
    <3> QED
      BY <3>1, <3>2, <3>3
  <2>10. TunedOK'
    <3>1. \A r \in Elems(tounit) \cup {x} : Tuning(r)
      BY <2>9 DEF GsmInv, TunedOK
    <3> QED
      BY <1>1, <2>1, <2>3, <3>1 DEF GsmInv, TunedOK, Tuning, Channel
  <2> QED
    BY <1>10, <2>5, <2>7, <2>8, <2>10 DEF GsmInv
<1> QED
  BY <1>11, <1>12

\* The unit takes a request.
LEMMA UnitStep == ASSUME GsmInv, UnitAnswers PROVE GsmInv' /\ (tuned' # tuned => amp = Off)
<1> DEFINE H == {"cap", "amp", "time"}
           r == Head(tounit)
           w == Tail(tounit)
<1>1. /\ UNCHANGED <<bts_mode, gstate, gslot, timer_id, event_index, arfcn, misses, broken>>
      /\ tounit # <<>> /\ tounit' = w
      /\ amp' = IF r.type = "amp" THEN r.value ELSE amp
      /\ tuned' = IF r.type = "para" THEN [tuned EXCEPT ![r.trx] = r.value] ELSE tuned
      /\ tohost' = IF r.type \in H THEN Append(tohost, r.type) ELSE tohost
  BY DEF UnitAnswers
<1>2. /\ w \in Seq(Items) /\ Len(tounit) \in Nat /\ Len(tounit) >= 1 /\ Len(w) = Len(tounit) - 1
      /\ \A n \in 1 .. Len(w) : w[n] = tounit[n + 1] /\ n + 1 \in 1 .. Len(tounit)
      /\ Elems(w) \subseteq Elems(tounit) /\ r = tounit[1] /\ r \in Elems(tounit) /\ r \in Items
      /\ w = <<>> <=> Len(tounit) = 1
  BY <1>1, GsmTypesHold, TailIs
<1> HIDE DEF r, w
<1>3. /\ tohost' \in Seq(H)
      /\ Elems(tohost') \subseteq Elems(tohost) \/ (r.type \in H /\ Elems(tohost') = Elems(tohost) \cup {r.type})
  <2>1. tohost \in Seq(H)
    BY GsmTypesHold
  <2> DEFINE y == r.type
             u == Append(tohost, y)
  <2>2. tohost' = IF y \in H THEN u ELSE tohost
    BY <1>1
  <2> HIDE DEF H, y
  <2>3. y \in H => u \in Seq(H) /\ Elems(u) = Elems(tohost) \cup {y}
    BY <2>1, Appended
  <2> HIDE DEF u
  <2>4. /\ tohost' \in Seq(H)
        /\ Elems(tohost') \subseteq Elems(tohost) \/ (y \in H /\ Elems(tohost') = Elems(tohost) \cup {y})
    BY <2>1, <2>2, <2>3
  <2> QED
    BY <2>4 DEF y
<1>4. bts_mode \in 1 .. 3 /\ tuned \in [Trx -> {0, 19, 14}] /\ amp \in {0, 1}
  BY GsmTypesHold
<1>5. Late(r) => AllRun /\ w = <<>>
  <2>1. 1 \in 1 .. Len(tounit)
    BY <1>2
  <2> QED
    BY <1>2, <2>1 DEF GsmInv, LateOK
<1>6. r.type = "para" => r.trx \in TrxOf[bts_mode] /\ r.value = Channel(r.trx) /\ r.trx \in Trx /\ Channel(r.trx) \in {19, 14}
  BY <1>2, <1>4, TrxIs DEF GsmInv, TunedOK, Tuning, Channel
<1>7. gstate = "idle" => Early(r) /\ r.type # "para"
  BY <1>2 DEF GsmInv, IdleOK, Early
<1>8. r.type = "para" => amp = Off
  <2> SUFFICES ASSUME r.type = "para" PROVE amp = Off
    OBVIOUS
  <2>1. gstate = "running"
    BY <1>7, GsmTypesHold
  <2>2. Asked
    BY <2>1 DEF Asked
  <2> QED
    BY <1>1, <2>2, NotYet
<1>9. tuned' \in [Trx -> {0, 19, 14}] /\ \A t \in Trx : tuned'[t] # tuned[t] => tuned'[t] = Channel(t) /\ t \in TrxOf[bts_mode]
  <2>1. CASE r.type = "para"
    BY <1>1, <1>4, <1>6, <2>1
  <2>2. CASE r.type # "para"
    BY <1>1, <1>4, <2>2
  <2> QED
    BY <2>1, <2>2
<1>10. amp' \in {0, 1}
  <2>1. r.type = "amp" => r.value \in {0, 1}
    BY <1>2 DEF GsmInv, TunedOK, Tuning
  <2> QED
    BY <1>1, <1>4, <2>1
<1>11. GsmTypes'
  BY <1>1, <1>2, <1>3, <1>9, <1>10 DEF GsmInv, GsmTypes
<1>12. IdleOK'
  BY <1>1, <1>2, <1>7 DEF GsmInv, IdleOK
<1>13. AllRun' <=> AllRun
  BY <1>1 DEF AllRun
<1>14. Silent'
  <2> SUFFICES ASSUME Asked' PROVE amp' = Off \/ (AllRun' /\ tounit' = <<>>)
    BY DEF Silent
  <2>1. CASE r.type = "amp"
    <3>1. amp' = r.value
      BY <1>1, <2>1
    <3>2. r.value = Off \/ Late(r)
      BY <2>1 DEF Late
    <3> QED
      BY <1>1, <1>5, <1>13, <3>1, <3>2
  <2>2. CASE r.type # "amp"
    <3>1. Asked
      <4>1. CASE r.type = "time"
        BY <1>2, <4>1 DEF Asked
      <4>2. CASE r.type # "time"
        <5>1. \A a \in Elems(tohost') : a # "cap" => a \in Elems(tohost)
          BY <1>3, <2>2, <4>2
        <5> QED
          BY <1>1, <1>2, <5>1 DEF Asked
      <4> QED
        BY <4>1, <4>2
    <3>2. amp = Off
      BY <1>1, <3>1, NotYet
    <3> QED
      BY <1>1, <2>2, <3>2
  <2> QED
    BY <2>1, <2>2
<1>15. LateOK'
  <2> SUFFICES ASSUME NEW n \in 1 .. Len(w), Late(w[n]) PROVE AllRun' /\ n = Len(w)
    BY <1>1 DEF LateOK, Late
  <2>1. Late(tounit[n + 1]) /\ n + 1 \in 1 .. Len(tounit) /\ n \in Int
    BY <1>2
  <2>2. AllRun /\ n + 1 = Len(tounit)
    BY <2>1 DEF GsmInv, LateOK
  <2> QED
    BY <1>2, <1>13, <2>1, <2>2
<1>16. SwitchedOn'
  <2> SUFFICES ASSUME AllRun, ~broken PROVE IF w = <<>> THEN amp' # Off ELSE Late(w[Len(w)])
    BY <1>1, <1>13 DEF SwitchedOn, Late
  <2>1. Late(tounit[Len(tounit)])
    BY <1>1 DEF GsmInv, SwitchedOn
  <2>2. CASE w = <<>>
    <3>1. Late(r)
      BY <1>2, <2>1, <2>2
    <3> QED
      BY <1>1, <2>2, <3>1 DEF Late
  <2>3. CASE w # <<>>
    <3>1. Len(w) \in 1 .. Len(w) /\ Len(w) + 1 = Len(tounit)
      BY <1>2, <2>3
    <3>2. w[Len(w)] = tounit[Len(w) + 1]
      BY <1>2, <3>1
    <3> QED
      BY <2>1, <2>3, <3>1, <3>2
  <2> QED
    BY <2>2, <2>3
<1>17. TunedOK'
  <2>1. \A q \in Elems(w) : Tuning(q)
    BY <1>2 DEF GsmInv, TunedOK
  <2>2. \A t \in Trx : tuned'[t] # 0 => t \in TrxOf[bts_mode] /\ tuned'[t] = Channel(t)
    BY <1>9 DEF GsmInv, TunedOK
  <2> QED
    BY <1>1, <2>1, <2>2 DEF TunedOK, Tuning, Channel
<1>18. tuned' # tuned => amp = Off
  BY <1>1, <1>8
<1> QED
  BY <1>11, <1>12, <1>14, <1>15, <1>16, <1>17, <1>18 DEF GsmInv

\* A datagram is lost.
LEMMA LoseStep == ASSUME GsmInv, Lose PROVE GsmInv' /\ tuned' = tuned
<1> DEFINE H == {"cap", "amp", "time"}
           w == Tail(tounit)
<1>1. /\ UNCHANGED <<bts_mode, gstate, gslot, timer_id, event_index, arfcn, amp, tuned>>
      /\ misses < GsmLosses /\ misses' = misses + 1
      /\ \/ /\ tounit # <<>> /\ tounit' = w /\ tohost' = tohost
            /\ broken' = (broken \/ Head(tounit).type # "cap")
         \/ /\ tohost # <<>> /\ tohost' = Tail(tohost) /\ tounit' = tounit
            /\ broken' = (broken \/ Head(tohost) # "cap")
  BY DEF Lose
<1>2. misses' \in 0 .. GsmLosses
  BY <1>1, GsmTypesHold, GsmAssumption
<1>3. broken' \in BOOLEAN /\ (broken => broken')
  <2>1. broken \in BOOLEAN
    BY GsmTypesHold
  <2> QED
    BY <1>1, <2>1, Zenon
<1>4. AllRun' <=> AllRun
  BY <1>1 DEF AllRun
<1>5. CASE tounit # <<>> /\ tounit' = w /\ tohost' = tohost /\ broken' = (broken \/ Head(tounit).type # "cap")
  <2> DEFINE r == Head(tounit)
  <2>1. /\ w \in Seq(Items) /\ Len(tounit) \in Nat /\ Len(tounit) >= 1 /\ Len(w) = Len(tounit) - 1
        /\ \A n \in 1 .. Len(w) : w[n] = tounit[n + 1] /\ n + 1 \in 1 .. Len(tounit)
        /\ Elems(w) \subseteq Elems(tounit) /\ r = tounit[1]
        /\ w = <<>> <=> Len(tounit) = 1
    BY <1>5, GsmTypesHold, TailIs
  <2>2. broken' = (broken \/ r.type # "cap")
    BY <1>5
  <2> HIDE DEF w, r
  <2>3. GsmTypes'
    BY <1>1, <1>2, <1>3, <1>5, <2>1 DEF GsmInv, GsmTypes
  <2>4. IdleOK'
    BY <1>1, <1>5, <2>1 DEF GsmInv, IdleOK
  <2>5. Silent'
    <3> SUFFICES ASSUME Asked' PROVE amp' = Off
      BY DEF Silent
    <3>1. Asked
      BY <1>1, <1>5, <2>1 DEF Asked
    <3> QED
      BY <1>1, <1>5, <3>1, NotYet
  <2>6. LateOK'
    <3> SUFFICES ASSUME NEW n \in 1 .. Len(w), Late(w[n]) PROVE AllRun' /\ n = Len(w)
      BY <1>5 DEF LateOK, Late
    <3>1. Late(tounit[n + 1]) /\ n + 1 \in 1 .. Len(tounit) /\ n \in Int
      BY <2>1
    <3>2. AllRun /\ n + 1 = Len(tounit)
      BY <3>1 DEF GsmInv, LateOK
    <3> QED
      BY <1>4, <2>1, <3>1, <3>2
  <2>7. SwitchedOn'
    <3> SUFFICES ASSUME AllRun, ~broken' PROVE IF w = <<>> THEN amp' # Off ELSE Late(w[Len(w)])
      BY <1>4, <1>5 DEF SwitchedOn, Late
    <3>1. Late(tounit[Len(tounit)]) /\ r.type = "cap"
      BY <1>3, <1>5, <2>2 DEF GsmInv, SwitchedOn
    <3>2. w # <<>>
      BY <2>1, <3>1 DEF Late
    <3>3. Len(w) \in 1 .. Len(w) /\ Len(w) + 1 = Len(tounit)
      BY <2>1, <3>2
    <3>4. w[Len(w)] = tounit[Len(w) + 1]
      BY <2>1, <3>3
    <3> QED
      BY <3>1, <3>2, <3>3, <3>4
  <2>8. TunedOK'
    BY <1>1, <1>5, <2>1 DEF GsmInv, TunedOK, Tuning, Channel
  <2> QED
    BY <1>1, <2>3, <2>4, <2>5, <2>6, <2>7, <2>8 DEF GsmInv
<1>6. CASE tohost # <<>> /\ tohost' = Tail(tohost) /\ tounit' = tounit
  <2>1. tohost' \in Seq(H) /\ Elems(tohost') \subseteq Elems(tohost)
    <3>1. tohost \in Seq(H)
      BY GsmTypesHold
    <3> HIDE DEF H
    <3> QED
      BY <1>6, <3>1, TailIs
  <2>2. GsmTypes'
    BY <1>1, <1>2, <1>3, <1>6, <2>1 DEF GsmInv, GsmTypes
  <2>3. IdleOK'
    BY <1>1, <1>6 DEF GsmInv, IdleOK
  <2>4. Silent'
    <3>1. Asked' => Asked
      BY <1>1, <1>6, <2>1 DEF Asked
    <3> QED
      BY <1>1, <1>4, <1>6, <3>1 DEF GsmInv, Silent
  <2>5. LateOK' /\ SwitchedOn'
    BY <1>1, <1>3, <1>4, <1>6 DEF GsmInv, LateOK, SwitchedOn, Late
  <2>6. TunedOK'
    BY <1>1, <1>6 DEF GsmInv, TunedOK, Tuning, Channel
  <2> QED
    BY <1>1, <2>2, <2>3, <2>4, <2>5, <2>6 DEF GsmInv
<1> QED
  BY <1>1, <1>5, <1>6

LEMMA GsmStarts == GsmInit => GsmInv
<1> SUFFICES ASSUME GsmInit PROVE GsmInv
  OBVIOUS
<1> USE DEF GsmInit
<1> DEFINE x == Request("cap", 0, 0)
           L == Len(Script[bts_mode])
<1>1. x \in Items /\ Early(x) /\ ~Late(x) /\ x.type = "cap" /\ x # Request("amp", 0, Off)
  BY FirstRequests
<1>2. tounit = <<x>>
  OBVIOUS
<1> HIDE DEF x
<1>3. tounit \in Seq(Items) /\ Len(tounit) = 1 /\ tounit[1] = x /\ tounit # <<>>
  BY <1>1, <1>2
<1>4. Elems(tounit) = {x} /\ Elems(tohost) = {}
  <2>1. Elems(tounit) = {x}
    BY <1>3 DEF Elems
  <2>2. Len(tohost) = 0
    OBVIOUS
  <2> QED
    BY <2>1, <2>2 DEF Elems
<1>5. L \in {5, 10}
  BY ScriptIs
<1>6. AllRun <=> event_index = L
  BY DEF AllRun
<1> HIDE DEF L
<1>7. ~AllRun /\ event_index \in 0 .. L
  BY <1>5, <1>6
<1>8. tuned \in [Trx -> {0, 19, 14}] /\ tohost \in Seq({"cap", "amp", "time"}) /\ amp \in {0, 1} /\ misses \in 0 .. GsmLosses
  BY GsmAssumption
<1>14. event_index \in 0 .. Len(Script[bts_mode])
  BY <1>7 DEF L
<1>15. arfcn = IF bts_mode = 3 /\ event_index >= 5 THEN 14 ELSE 19
  OBVIOUS
<1>16. gstate \in {"idle", "running"} /\ gslot \in {0, 1, NoSlot} /\ timer_id \in {0, 1} /\ broken \in BOOLEAN /\ bts_mode \in 1 .. 3
  OBVIOUS
<1>9. GsmTypes
  BY <1>3, <1>8, <1>14, <1>15, <1>16, Zenon DEF GsmTypes
<1>10. IdleOK
  BY <1>1, <1>4 DEF IdleOK
<1>11. Silent
  BY <1>1, <1>4 DEF Silent, Asked
<1>12. LateOK /\ SwitchedOn
  BY <1>1, <1>3, <1>7 DEF LateOK, SwitchedOn
<1>13. TunedOK
  BY <1>1, <1>4 DEF TunedOK, Tuning
<1> QED
  BY <1>9, <1>10, <1>11, <1>12, <1>13 DEF GsmInv

LEMMA GsmStill == GsmInv /\ UNCHANGED gsmvars => GsmInv'
<1> SUFFICES ASSUME GsmInv, UNCHANGED gsmvars PROVE GsmInv'
  OBVIOUS
<1>1. UNCHANGED <<bts_mode, gstate, gslot, timer_id, event_index, arfcn, tounit, tohost, amp, tuned, misses, broken>>
  BY DEF gsmvars
<1>2. GsmTypes' /\ IdleOK'
  BY <1>1 DEF GsmInv, GsmTypes, IdleOK
<1>3. Silent'
  BY <1>1 DEF GsmInv, Silent, Asked, AllRun
<1>4. LateOK' /\ SwitchedOn'
  BY <1>1 DEF GsmInv, LateOK, SwitchedOn, AllRun
<1>5. TunedOK'
  BY <1>1 DEF GsmInv, TunedOK, Tuning, Channel
<1> QED
  BY <1>2, <1>3, <1>4, <1>5 DEF GsmInv

LEMMA GsmStep == GsmInv /\ [GsmNext]_gsmvars => GsmInv' /\ [tuned' # tuned => amp = Off]_gsmvars
<1> SUFFICES ASSUME GsmInv, [GsmNext]_gsmvars PROVE GsmInv' /\ [tuned' # tuned => amp = Off]_gsmvars
  OBVIOUS
<1>1. CASE CapGetTimeout
  BY <1>1, TimeoutStep DEF CapGetTimeout
<1>2. CASE gsm_state_machine
  BY <1>2, MachineStep DEF gsm_state_machine
<1>3. CASE gsm_run_event
  BY <1>3, EventStep DEF gsm_run_event
<1>4. CASE UnitAnswers
  BY <1>4, UnitStep
<1>5. CASE Lose
  BY <1>5, LoseStep
<1>6. CASE UNCHANGED gsmvars
  BY <1>6, GsmStill
<1> QED
  BY <1>1, <1>2, <1>3, <1>4, <1>5, <1>6 DEF GsmNext, GsmSteps

LEMMA GsmMeans == GsmInv => GsmTypeOK /\ ChannelsApart /\ AmpStaysOn
<1> SUFFICES ASSUME GsmInv PROVE GsmTypeOK /\ ChannelsApart /\ AmpStaysOn
  OBVIOUS
<1>1. GsmTypeOK
  BY DEF GsmInv, GsmTypes, GsmTypeOK
<1>2. ChannelsApart
  <2>1. 1 \in Trx /\ 2 \in Trx /\ bts_mode \in 1 .. 3
    BY GsmTypesHold DEF Trx
  <2> SUFFICES ASSUME tuned[1] # 0, tuned[1] = tuned[2] PROVE FALSE
    BY DEF ChannelsApart
  <2>2. tuned[1] = Channel(1) /\ 1 \in TrxOf[bts_mode] /\ tuned[2] = Channel(2) /\ 2 \in TrxOf[bts_mode]
    BY <2>1 DEF GsmInv, TunedOK
  <2>3. bts_mode = 3
    BY <2>1, <2>2, TrxIs
  <2>4. Channel(1) = 19 /\ Channel(2) = 14
    BY <2>3 DEF Channel
  <2>5. Channel(1) = Channel(2)
    BY <2>2, Zenon
  <2>6. 19 = 14
    BY <2>4, <2>5, Zenon
  <2> QED
    BY <2>6
<1>3. AmpStaysOn
  BY DEF GsmInv, SwitchedOn, AmpStaysOn
<1> QED
  BY <1>1, <1>2, <1>3

\* The unit starts in silence: no transceiver is tuned while the amplifier is on, and the two are not tuned
\* to one channel, whatever is late or lost.  The script leaves the amplifier on, whatever is late, if
\* nothing that follows the exchange about the capacity is lost: a request of the script is made once
\* (gsm.c:195-235, gsm_sm.c:475-524).
THEOREM SilentStart == GsmSpec => TunedInSilence /\ [](GsmTypeOK /\ ChannelsApart /\ AmpStaysOn)
<1>1. GsmSpec => []GsmInv
  BY GsmStarts, GsmStep, PTL DEF GsmSpec
<1>2. GsmSpec => TunedInSilence
  BY <1>1, GsmStep, PTL DEF GsmSpec, TunedInSilence
<1> QED
  BY <1>1, <1>2, GsmMeans, PTL

-----------------------------------------------------------------------------
(* MCUnits: the parts in one behaviour *)

\* What holds of every part; where the lists are the part that runs, nothing uses them.
UnitsInv ==
  /\ part \in Parts
  /\ TypeOK /\ Supervised /\ ReadyMeansHeard /\ Retried /\ Saved
  /\ IF part = "bands" THEN ListsOK(opers) /\ OamUnitInit ELSE OamInv
  /\ GsmInv

LEMMA StartedIs == GsmStarted => GsmInv
<1> SUFFICES ASSUME GsmStarted PROVE GsmInv
  OBVIOUS
<1> DEFINE L == Len(Script[bts_mode])
<1>1. /\ bts_mode = 3 /\ gstate = "running" /\ gslot = NoSlot /\ timer_id = 0
      /\ event_index = L /\ arfcn = 14 /\ tounit = <<>> /\ tohost = <<>>
      /\ amp = 1 /\ tuned = <<19, 14>> /\ misses = 0 /\ broken = FALSE
  BY DEF GsmStarted
<1>2. L = 10
  BY <1>1, ScriptIs
<1> DEFINE s == tounit
           h == tohost
<1>3. s \in Seq(Items) /\ h \in Seq({"cap", "amp", "time"}) /\ Len(s) = 0 /\ Len(h) = 0
  BY <1>1
<1>4. Elems(s) = {} /\ Elems(h) = {} /\ 1 .. Len(s) = {}
  BY <1>3 DEF Elems
<1>5. tuned \in [Trx -> {0, 19, 14}] /\ tuned[1] = 19 /\ tuned[2] = 14
  BY <1>1 DEF Trx
<1>6. /\ bts_mode \in 1 .. 3 /\ gstate \in {"idle", "running"} /\ gslot \in {0, 1, NoSlot} /\ timer_id \in {0, 1}
      /\ event_index \in 0 .. L /\ misses \in 0 .. GsmLosses /\ broken \in BOOLEAN /\ amp \in {0, 1}
      /\ arfcn = IF bts_mode = 3 /\ event_index >= 5 THEN 14 ELSE 19
  <2>1. event_index \in 0 .. L
    BY <1>1, <1>2
  <2>2. misses \in 0 .. GsmLosses
    BY <1>1, GsmAssumption
  <2>3. event_index = 10
    BY <1>1, <1>2
  <2>4. arfcn = IF bts_mode = 3 /\ event_index >= 5 THEN 14 ELSE 19
    BY <1>1, <2>3
  <2>5. broken \in BOOLEAN
    BY <1>1, Zenon
  <2>6. bts_mode \in 1 .. 3
    BY <1>1
  <2>7. gstate \in {"idle", "running"} /\ gslot \in {0, 1, NoSlot} /\ timer_id \in {0, 1} /\ amp \in {0, 1}
    BY <1>1, Zenon
  <2> QED
    BY <2>1, <2>2, <2>4, <2>5, <2>6, <2>7, Zenon
<1> HIDE DEF L
<1>7. GsmTypes
  BY <1>3, <1>5, <1>6, Zenon DEF GsmTypes, L
<1>8. AllRun
  BY <1>1 DEF AllRun, L
<1>9. IdleOK /\ Silent /\ LateOK /\ SwitchedOn
  BY <1>1, <1>4, <1>8 DEF IdleOK, Silent, LateOK, SwitchedOn, Off
<1>10. \A t \in Trx : t \in TrxOf[bts_mode] /\ tuned[t] = Channel(t)
  <2>1. Channel(1) = 19 /\ Channel(2) = 14
    BY <1>1 DEF Channel
  <2>2. TrxOf[bts_mode] = {1, 2}
    BY <1>1, TrxIs
  <2> QED
    BY <1>5, <2>1, <2>2 DEF Trx
<1>11. TunedOK
  BY <1>4, <1>10 DEF TunedOK
<1> QED
  BY <1>7, <1>9, <1>11 DEF GsmInv

LEMMA UnitsStart == UnitsInit => UnitsInv
<1> SUFFICES ASSUME UnitsInit PROVE UnitsInv
  OBVIOUS
<1>1. part \in Parts /\ Init /\ OamUnitInit
  BY DEF UnitsInit
<1>2. TypeOK /\ Supervised /\ ReadyMeansHeard /\ Retried /\ Saved
  <2>1. TypeOK
    BY <1>1, Zero DEF Init, TypeOK, Events, Requests, States
  <2> QED
    BY <1>1, <2>1 DEF Init, Supervised, ReadyMeansHeard, Retried, Saved
<1>3. GsmInv
  BY GsmStarts, StartedIs DEF UnitsInit
<1>4. CASE part = "bands"
  <2>1. opers = <<>>
    BY <1>4 DEF UnitsInit, BandsInit
  <2>2. ListsOK(opers)
    BY <2>1 DEF ListsOK, InOrder
  <2> QED
    BY <1>1, <1>2, <1>3, <1>4, <2>2 DEF UnitsInv
<1>5. CASE part # "bands"
  <2>1. OamInit
    BY <1>1, <1>5 DEF UnitsInit, OamInit
  <2> QED
    BY <1>1, <1>2, <1>3, <1>5, <2>1, OamStarts DEF UnitsInv
<1> QED
  BY <1>4, <1>5

\* A step is one of a part, and leaves the other parts.
LEMMA StepIsOfPart ==
  ASSUME UnitsInv, [UnitsNext]_unitsvars
  PROVE  /\ part' = part /\ [Next]_vars /\ [GsmNext]_gsmvars
         /\ part = "bands" =>
              [BandsNext]_opers /\ UNCHANGED <<modemvars, unitvars, scanvars, goal, old, heard, settled>>
         /\ part # "bands" => [OamNext]_oamvars
<1> USE DEF unitsvars, UnitsOthers
<1>1. CASE UnitsOthers("link") /\ Next
  BY <1>1 DEF oamvars, modemvars, unitvars
<1>2. CASE UnitsOthers("oam") /\ OamNext
  BY <1>2
<1>3. CASE UnitsOthers("bands") /\ BandsNext
  BY <1>3
<1>4. CASE UnitsOthers("gsm") /\ GsmNext
  BY <1>4 DEF oamvars, modemvars, unitvars
<1>5. CASE UNCHANGED unitsvars
  BY <1>5 DEF oamvars, modemvars, unitvars
<1> QED
  BY <1>1, <1>2, <1>3, <1>4, <1>5 DEF UnitsNext

LEMMA UnitsStep == UnitsInv /\ [UnitsNext]_unitsvars => UnitsInv'
<1> SUFFICES ASSUME UnitsInv, [UnitsNext]_unitsvars PROVE UnitsInv'
  OBVIOUS
<1>1. part' = part /\ part \in Parts /\ [Next]_vars /\ [GsmNext]_gsmvars
  BY StepIsOfPart DEF UnitsInv
<1>2. TypeOK' /\ Supervised' /\ ReadyMeansHeard' /\ Retried' /\ Saved'
  <2>1. TypeOK /\ Supervised /\ ReadyMeansHeard /\ Retried /\ Saved
    BY DEF UnitsInv
  <2>2. TypeOK'
    BY <1>1, <2>1, TypeStep
  <2> QED
    BY <1>1, <2>1, <2>2, SupervisedStep, HeardStep, RetriedStep, SavedStep
<1>3. GsmInv'
  BY <1>1, GsmStep DEF UnitsInv
<1>4. CASE part = "bands"
  <2>1. ListsOK(opers) /\ OamUnitInit
    BY <1>4 DEF UnitsInv
  <2>2. [BandsNext]_opers /\ UNCHANGED <<modemvars, unitvars, scanvars, goal, old, heard, settled>>
    BY <1>4, StepIsOfPart
  <2>3. ListsOK(opers)'
    BY <2>1, <2>2, ListsStep
  <2>4. OamUnitInit'
    BY <2>1, <2>2 DEF OamUnitInit, modemvars, unitvars, scanvars
  <2> QED
    BY <1>1, <1>2, <1>3, <1>4, <2>3, <2>4 DEF UnitsInv
<1>5. CASE part # "bands"
  <2>1. OamInv /\ [OamNext]_oamvars
    BY <1>5, StepIsOfPart DEF UnitsInv
  <2>2. OamInv'
    BY <2>1, OamSteps, OamStill
  <2> QED
    BY <1>1, <1>2, <1>3, <1>5, <2>2 DEF UnitsInv
<1> QED
  BY <1>4, <1>5

LEMMA UnitsMean == UnitsInv => OamTypeOK /\ BandsInOrder /\ LteRestored /\ ScanAsAsked
<1> SUFFICES ASSUME UnitsInv PROVE OamTypeOK /\ BandsInOrder /\ LteRestored /\ ScanAsAsked
  OBVIOUS
<1>1. CASE part = "bands"
  <2>1. ListsOK(opers) /\ OamUnitInit
    BY <1>1 DEF UnitsInv
  <2>2. cn_oper \in OperSet /\ settings.lock \in OperSet /\ settings.mode = "LTE"
    BY <2>1, OamAssumption DEF OamUnitInit
  <2>3. job["main"] = <<>> /\ job["scan"] = <<>>
    BY <2>1 DEF OamUnitInit
  <2>4. OamTypeOK /\ LteRestored /\ ScanAsAsked
    BY <2>1, <2>2, <2>3 DEF OamUnitInit, OamTypeOK, LteRestored, ScanAsAsked
  <2> QED
    BY <2>1, <2>4, ListsInOrder
<1>2. CASE part # "bands"
  <2>1. OamInv
    BY <1>2 DEF UnitsInv
  <2>2. OamTypeOK /\ LteRestored
    BY <2>1, OamTyped
  <2>3. BandsInOrder
    BY <2>1, ListsInOrder DEF OamInv
  <2>4. ScanAsAsked
    BY <2>1 DEF OamInv, ScanAsAsked
  <2> QED
    BY <2>2, <2>3, <2>4
<1> QED
  BY <1>1, <1>2

LEMMA CellStep ==
  UnitsInv /\ [UnitsNext]_unitsvars =>
    [Doing("main", "build") /\ settled = "done" /\ pbs' # pbs
      => pbs' = [oper |-> cn_oper, band |-> band] /\ Offered(opers, cn_oper, band)]_oamvars
<1> SUFFICES ASSUME UnitsInv, [UnitsNext]_unitsvars, settled = "done", pbs' # pbs
             PROVE  pbs' = [oper |-> cn_oper, band |-> band] /\ Offered(opers, cn_oper, band)
  OBVIOUS
<1>1. part # "bands"
  BY StepIsOfPart DEF unitvars
<1>2. OamInv /\ [OamNext]_oamvars
  BY <1>1, StepIsOfPart DEF UnitsInv
<1>3. OamNext
  BY <1>2 DEF oamvars
<1>4. goal = "cell" /\ Ahead(Report1) /\ pbs' = heard
  BY <1>2, <1>3, OamSteps DEF Ahead
<1> QED
  BY <1>2, <1>4 DEF OamInv, Settled, OrderDone

\* The link, the lists, the settings and the start of the GSM unit keep in one behaviour what each keeps
\* in its own: a step of one leaves the state of the others (lte_sm.c, lte_oam.c, gsm_sm.c).
THEOREM UnitsKeepPromises ==
  UnitsSpec =>
    /\ [](TypeOK /\ Supervised /\ ReadyMeansHeard /\ Retried /\ ScanAsAsked)
    /\ RunsAsAsked /\ CellAsOrdered
    /\ TunedInSilence /\ [](GsmTypeOK /\ ChannelsApart /\ AmpStaysOn)
<1>1. UnitsSpec => []UnitsInv
  BY UnitsStart, UnitsStep, PTL DEF UnitsSpec
<1>2. UnitsInv => TypeOK /\ Supervised /\ ReadyMeansHeard /\ Retried /\ GsmInv
  BY DEF UnitsInv
<1>3. UnitsInv /\ [UnitsNext]_unitsvars =>
        [~early /\ open # {} => /\ lte_start_rsp => (state' = "RUNNING" <=> open = {1})
                                /\ StartupTimeout => open' = open]_vars
  <2> SUFFICES ASSUME UnitsInv, [UnitsNext]_unitsvars, ~early, open # {}
               PROVE  /\ lte_start_rsp => (state' = "RUNNING" <=> open = {1})
                      /\ StartupTimeout => open' = open
    OBVIOUS
  <2>1. TypeOK /\ Saved
    BY DEF UnitsInv
  <2> QED
    BY <2>1, AcceptedIsAsked
<1>4. UnitsInv /\ [UnitsNext]_unitsvars => [tuned' # tuned => amp = Off]_gsmvars
  BY StepIsOfPart, GsmStep DEF UnitsInv
<1>5. UnitsSpec => RunsAsAsked
  BY <1>1, <1>3, PTL DEF UnitsSpec, RunsAsAsked
<1>6. UnitsSpec => OrderedCell
  BY <1>1, CellStep, PTL DEF UnitsSpec, OrderedCell
<1>7. UnitsSpec => TunedInSilence
  BY <1>1, <1>4, PTL DEF UnitsSpec, TunedInSilence
<1>8. UnitsSpec => [](OamTypeOK /\ BandsInOrder /\ LteRestored)
  BY <1>1, UnitsMean, PTL
<1>9. UnitsSpec => [](TypeOK /\ Supervised /\ ReadyMeansHeard /\ Retried /\ ScanAsAsked)
  BY <1>1, <1>2, UnitsMean, PTL
<1>10. UnitsSpec => [](GsmTypeOK /\ ChannelsApart /\ AmpStaysOn)
  BY <1>1, <1>2, GsmMeans, PTL
<1> QED
  BY <1>5, <1>6, <1>7, <1>8, <1>9, <1>10 DEF CellAsOrdered
=============================================================================
