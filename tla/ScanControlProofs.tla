-------------------------- MODULE ScanControlProofs --------------------------
(***************************************************************************)
(* Theorems about ScanControl, for every set of modems, every telemetry    *)
(* and config input and every value of the timing assumptions.             *)
(***************************************************************************)
EXTENDS ScanControl, TLAPS

-----------------------------------------------------------------------------
(* What the helpers do to the types *)

\* One round of a loop over the modems keeps the index in range.
LEMMA RoundIndex ==
  ASSUME ci \in Idx, NEW here, NEW again, NEW next, Round(here, again, next)
  PROVE  cpc = here /\ cpc' \in {again, next} /\ ci' \in Idx
BY ModemsAssumption DEF Round, Idx

\* A mode query stores a mode, whatever the modem answers.
LEMMA ModeQueryType ==
  ASSUME ModemsTypeOK, NEW i \in Idx, sim_mode_que(i)
  PROVE  mode' \in [Idx -> Modes]
<1>1. ModeReadings(i) \subseteq Modes
  BY DEF ModeReadings, Shown, Modes, Techs, ModemsTypeOK
<1> QED
  BY <1>1 DEF sim_mode_que, ModemsTypeOK

\* A mode command leaves every modem on some technology.
LEMMA ChangeType ==
  ASSUME ModemsTypeOK, NEW i \in Idx, NEW md, mode_change_H(i, md) \/ mode_change_Y(i, md)
  PROVE  radio' \in [Idx -> Techs] /\ locked' \subseteq Idx
<1>1. Target(md) \in Techs
  BY DEF Target, Techs
<1>2. CASE UNCHANGED modems
  BY <1>2 DEF modems, ModemsTypeOK
<1>3. CASE SendMode(i, Target(md))
  BY <1>1, <1>3 DEF SendMode, modems, ModemsTypeOK
<1>4. ASSUME NEW t \in Techs, radio' = [radio EXCEPT ![i] = t],
             locked' \in {locked \cup {i}, locked \ {i}}
      PROVE  radio' \in [Idx -> Techs] /\ locked' \subseteq Idx
  BY <1>4 DEF ModemsTypeOK
<1> QED
  BY <1>2, <1>3, <1>4 DEF mode_change_H, mode_change_Y

\* What a getter can read, and the handle and text it leaves.
LEMMA GetterType ==
  ASSUME WorldTypeOK, NEW value, Getter(value)
  PROVE  /\ usr_cfg.mode \in {0, 1, RET_FAILED}
         /\ scan_usr_cfg_fp' \in {"NULL", "open"} /\ usr_cfg' \in Confs
<1>1. usr_cfg \in [mode : {0, 1, RET_FAILED}, auto : {0, 1, RET_FAILED}]
  BY InputsAssumption DEF WorldTypeOK
<1> QED
  BY <1>1 DEF WorldTypeOK, Getter

-----------------------------------------------------------------------------
(* Type correctness *)

\* A datagram that is being stored has been counted; TypeOK needs it for acked.
InHand == npc \in {"store_uav", "store_main", "store_time"} => datagrams # 0

\* The values of the variables are always those the code can give them.
THEOREM TypeCorrect == Spec => []TypeOK
<1> USE ModemsAssumption, InputsAssumption, BoundsAssumption
<1>1. Init => TypeOK /\ InHand
  <2> SUFFICES ASSUME Init PROVE TypeOK /\ InHand
    OBVIOUS
  <2> USE DEF Init
  <2>0. 0 \in Idx
    BY DEF Idx
  <2>1. ControlTypeOK
    BY <2>0 DEF ControlTypeOK, ControlLabels, InitLabels
  <2>2. NetTypeOK
    BY DEF NetTypeOK, NetLabels
  <2>3. SamplerTypeOK
    BY <2>0 DEF SamplerTypeOK, ModemLabels, Blank
  <2>4. GlobalsTypeOK
    BY DEF GlobalsTypeOK
  <2>5. ModemsTypeOK
    BY DEF ModemsTypeOK, Modes, Techs
  <2>6. FileTypeOK
    BY DEF FileTypeOK, RowCap, Blank
  <2>7. WorldTypeOK
    BY DEF WorldTypeOK, Fates
  <2> QED
    BY <2>1, <2>2, <2>3, <2>4, <2>5, <2>6, <2>7 DEF TypeOK, InHand
<1>2. TypeOK /\ InHand /\ [Next]_vars => TypeOK' /\ InHand'
  <2> SUFFICES ASSUME TypeOK, InHand, [Next]_vars PROVE TypeOK' /\ InHand'
    OBVIOUS
  <2> USE DEF TypeOK, InHand, ControlTypeOK, NetTypeOK, SamplerTypeOK, GlobalsTypeOK, ModemsTypeOK,
              FileTypeOK, WorldTypeOK, control, net, sampler, status, logic, cache, modems,
              file, config, load, ControlLabels, InitLabels, SwitchLabels, TopLabels, Goto
  <2>1. CASE StatusOper
    BY <2>1 DEF StatusOper, sim_oper_que
  <2>2. CASE StatusMode
    BY <2>2, RoundIndex, ModeQueryType DEF StatusMode
  <2>3. CASE InitConfig
    BY <2>3, GetterType DEF InitConfig, RET_FAILED
  <2>4. CASE ChangeH
    BY <2>4, RoundIndex, ChangeType DEF ChangeH
  <2>5. CASE ChangeY
    BY <2>5, RoundIndex, ChangeType DEF ChangeY, ModemLabels, NetLabels
  <2>6. CASE ModeGet
    BY <2>6, GetterType DEF ModeGet, RET_FAILED
  <2>7. CASE AutoGet
    BY <2>7, GetterType DEF AutoGet
  <2>8. CASE Compare
    BY <2>8 DEF Compare, Flip, RET_FAILED
  <2>9. CASE SwitchStop
    BY <2>9 DEF SwitchStop
  <2>10. CASE CloseTest
    BY <2>10 DEF CloseTest, Blank
  <2>11. CASE CloseNull
    BY <2>11 DEF CloseNull
  <2>12. CASE ModeSet
    BY <2>12 DEF ModeSet
  <2>13. CASE RunStart
    BY <2>13 DEF RunStart
  <2>14. CASE Sample
    BY <2>14 DEF Sample
  <2>15. CASE IsTakeoff
    BY <2>15 DEF IsTakeoff
  <2>16. CASE IsLanded
    BY <2>16 DEF IsLanded
  <2>17. CASE Acknowledge
    BY <2>17 DEF Acknowledge, UavDatagram
  <2>18. CASE SetSystemTime
    BY <2>18 DEF SetSystemTime
  <2>19. CASE Launch
    BY <2>19 DEF Launch
  <2>20. CASE Disarm
    BY <2>20 DEF Disarm
  <2>21. CASE Kill
    BY <2>21 DEF Kill
  <2>22. CASE Recvfrom
    BY <2>22 DEF Recvfrom, NetLabels
  <2>23. CASE StoreUav
    BY <2>23 DEF StoreUav, NetLabels
  <2>24. CASE StoreMain
    BY <2>24 DEF StoreMain, NetLabels
  <2>25. CASE StoreTime
    BY <2>25 DEF StoreTime, NetLabels
  <2>26. CASE BootOper
    BY <2>26 DEF BootOper, sim_oper_que, ModemLabels
  <2>27. CASE BootMode
    BY <2>27, ModeQueryType DEF BootMode, Idx, ModemLabels
  <2>28. CASE StartSweep
    BY <2>28 DEF StartSweep, ModemLabels, SweepLabels
  <2>29. CASE SampleModem
    BY <2>29 DEF SampleModem, Idx, ModemLabels, SweepLabels, Techs
  <2>30. CASE SaveTest
    BY <2>30 DEF SaveTest, ModemLabels, SweepLabels, RowCap
  <2>31. CASE SaveOpen
    <3>1. info_buf' \in [Idx -> Techs \cup {"none"}] /\ soiled' \in BOOLEAN
      BY <2>31 DEF SaveOpen, ClearRow, Blank
    <3> QED
      BY <2>31, <3>1 DEF SaveOpen, ModemLabels, SweepLabels
  <2>32. CASE SaveHeader
    BY <2>32 DEF SaveHeader, ModemLabels, SweepLabels, Fputs, Fates
  <2>33. CASE SaveRow
    BY <2>33 DEF SaveRow, ModemLabels, SweepLabels, Fputs, Fates, RowCap
  <2>34. CASE SaveFlush
    <3>1. info_buf' \in [Idx -> Techs \cup {"none"}] /\ soiled' \in BOOLEAN
      BY <2>34 DEF SaveFlush, ClearRow, Blank
    <3> QED
      BY <2>34, <3>1 DEF SaveFlush, ModemLabels, SweepLabels, Fates
  <2>35. CASE Commit
    BY <2>35 DEF Commit
  <2>36. CASE RunSh
    BY <2>36 DEF RunSh
  <2>37. CASE Roam
    BY <2>37 DEF Roam
  <2>38. CASE UNCHANGED vars
    BY <2>38 DEF vars
  <2> HIDE DEF TypeOK, InHand
  <2>99. QED
    BY <2>1, <2>2, <2>3, <2>4, <2>5, <2>6, <2>7, <2>8, <2>9, <2>10, <2>11, <2>12, <2>13, <2>14,
       <2>15, <2>16, <2>17, <2>18, <2>19, <2>20, <2>21, <2>22, <2>23, <2>24, <2>25, <2>26, <2>27,
       <2>28, <2>29, <2>30, <2>31, <2>32, <2>33, <2>34, <2>35, <2>36, <2>37, <2>38
       DEF Next, Process, Control, Net, Modem
<1>3. QED
  BY <1>1, <1>2, PTL DEF Spec

-----------------------------------------------------------------------------
(* The sweep file *)

\* Before the threads exist nothing sweeps; during a switch scan_run_flag is down; a pointer
\* dangles only between the two stores of scan_file_save_file_close; once that function has
\* tested the pointer no sweep is under way, and one that has an open file keeps it open.
FileInv ==
  /\ cpc \in InitLabels => mpc = "unborn" /\ scan_run_flag = 0
  /\ cpc \in SwitchLabels => scan_run_flag = 0
  /\ info_file_fp \in {"NULL", "open", "dangling"}
  /\ info_file_fp = "dangling" => cpc = "file_null"
  /\ cpc \in {"file_null", "mode_set", "run_start"} /\ SweepFitsDelay => mpc \notin SweepLabels
  /\ cpc \in {"mode_set", "run_start"} /\ SweepFitsDelay => info_file_fp = "NULL"
  /\ mpc \in {"header", "row", "flush"} /\ SweepFitsDelay => info_file_fp = "open"
  /\ SweepFitsDelay => process = "running"

LEMMA FileInvInductive ==
  /\ Init => FileInv
  /\ FileInv /\ [Next]_vars => FileInv'
<1>1. Init => FileInv
  BY DEF Init, FileInv, InitLabels, SwitchLabels
<1>2. FileInv /\ [Next]_vars => FileInv'
  <2> SUFFICES ASSUME FileInv, [Next]_vars PROVE FileInv'
    OBVIOUS
  <2> USE DEF FileInv, InitLabels, SwitchLabels, SweepLabels, Goto, Round, control, net, sampler,
              status, logic, cache, modems, file, config, load
  <2>1. CASE StatusOper
    BY <2>1 DEF StatusOper
  <2>2. CASE StatusMode
    BY <2>2 DEF StatusMode
  <2>3. CASE InitConfig
    BY <2>3 DEF InitConfig
  <2>4. CASE ChangeH
    BY <2>4 DEF ChangeH
  <2>5. CASE ChangeY
    BY <2>5 DEF ChangeY
  <2>6. CASE ModeGet
    BY <2>6 DEF ModeGet
  <2>7. CASE AutoGet
    BY <2>7 DEF AutoGet
  <2>8. CASE Compare
    BY <2>8 DEF Compare
  <2>9. CASE SwitchStop
    BY <2>9 DEF SwitchStop
  <2>10. CASE CloseTest
    BY <2>10 DEF CloseTest
  <2>11. CASE CloseNull
    BY <2>11 DEF CloseNull
  <2>12. CASE ModeSet
    BY <2>12 DEF ModeSet
  <2>13. CASE RunStart
    BY <2>13 DEF RunStart
  <2>14. CASE Sample
    BY <2>14 DEF Sample
  <2>15. CASE IsTakeoff
    BY <2>15 DEF IsTakeoff
  <2>16. CASE IsLanded
    BY <2>16 DEF IsLanded
  <2>17. CASE Acknowledge
    BY <2>17 DEF Acknowledge
  <2>18. CASE SetSystemTime
    BY <2>18 DEF SetSystemTime
  <2>19. CASE Launch
    BY <2>19 DEF Launch
  <2>20. CASE Disarm
    BY <2>20 DEF Disarm
  <2>21. CASE Kill
    BY <2>21 DEF Kill
  <2>22. CASE Recvfrom
    BY <2>22 DEF Recvfrom
  <2>23. CASE StoreUav
    BY <2>23 DEF StoreUav
  <2>24. CASE StoreMain
    BY <2>24 DEF StoreMain
  <2>25. CASE StoreTime
    BY <2>25 DEF StoreTime
  <2>26. CASE BootOper
    BY <2>26 DEF BootOper
  <2>27. CASE BootMode
    BY <2>27 DEF BootMode
  <2>28. CASE StartSweep
    BY <2>28 DEF StartSweep
  <2>29. CASE SampleModem
    BY <2>29 DEF SampleModem
  <2>30. CASE SaveTest
    BY <2>30 DEF SaveTest
  <2>31. CASE SaveOpen
    BY <2>31 DEF SaveOpen
  <2>32. CASE SaveHeader
    BY <2>32 DEF SaveHeader, Fputs, Fates
  <2>33. CASE SaveRow
    BY <2>33 DEF SaveRow, Fputs, Fates
  <2>34. CASE SaveFlush
    BY <2>34 DEF SaveFlush, Fates
  <2>35. CASE Commit
    BY <2>35 DEF Commit
  <2>36. CASE RunSh
    BY <2>36 DEF RunSh
  <2>37. CASE Roam
    BY <2>37 DEF Roam
  <2>38. CASE UNCHANGED vars
    BY <2>38 DEF vars
  <2>39. QED
    BY <2>1, <2>2, <2>3, <2>4, <2>5, <2>6, <2>7, <2>8, <2>9, <2>10, <2>11, <2>12, <2>13, <2>14, <2>15, <2>16, <2>17, <2>18, <2>19, <2>20, <2>21, <2>22, <2>23, <2>24, <2>25, <2>26, <2>27, <2>28, <2>29, <2>30, <2>31, <2>32, <2>33, <2>34, <2>35, <2>36, <2>37, <2>38
    DEF Next, Process, Control, Net, Modem
<1> QED
  BY <1>1, <1>2

\* The modem thread never writes the sweep file through a pointer that is closed or NULL, when
\* a sweep ends within the delays of a mode switch.
THEOREM FileSafe == Spec => []NoUseAfterClose
<1>1. FileInv => NoUseAfterClose
  BY DEF FileInv, NoUseAfterClose
<1> QED
  BY <1>1, FileInvInductive, PTL DEF Spec

\* No sweep starts between the stop and the start of a mode switch.
THEOREM SwitchStopsSweeps == Spec => NoSweepStartsWhileSwitching
<1>1. FileInv /\ [Next]_vars => [mpc = "idle" /\ mpc' = "sweep" => cpc \notin SwitchLabels]_vars
  <2> SUFFICES ASSUME FileInv, [Next]_vars, mpc = "idle", mpc' = "sweep"
               PROVE  cpc \notin SwitchLabels
    BY DEF vars, sampler
  <2>1. CASE StartSweep
    BY <2>1 DEF StartSweep, FileInv
  <2>2. CASE ChangeY
    BY <2>2 DEF ChangeY
  <2>3. CASE Net \/ Commit \/ RunSh \/ Roam \/ UNCHANGED vars
    BY <2>3 DEF Net, Recvfrom, StoreUav, StoreMain, StoreTime, Commit, RunSh, Roam, vars, sampler
  <2>4. CASE Modem /\ ~StartSweep
    BY <2>4 DEF Modem, BootOper, BootMode, SampleModem, SaveTest, SaveOpen, SaveHeader, SaveRow,
                SaveFlush
  <2>5. CASE Control /\ ~ChangeY
    BY <2>5 DEF Control, StatusOper, StatusMode, InitConfig, ChangeH, ModeGet, AutoGet, Compare,
                SwitchStop, CloseTest, CloseNull, ModeSet, RunStart, Sample, IsTakeoff, IsLanded,
                Acknowledge, SetSystemTime, Launch, Disarm, Kill, sampler
  <2> QED
    BY <2>1, <2>2, <2>3, <2>4, <2>5 DEF Next, Process
<1> QED
  BY <1>1, FileInvInductive, PTL DEF Spec, NoSweepStartsWhileSwitching

-----------------------------------------------------------------------------
(* The cached modes *)

\* The modems whose cached mode may differ from the real one: those the boot check has not
\* reached, those this switch has changed and not yet checked again.
Unchecked(i) ==
  \/ mpc = "unborn"
  \/ mpc \in {"boot_oper", "boot_mode"} /\ i >= mi
  \/ cpc = "change_H" /\ Maker[i] = "HUAWEI" /\ i < ci
  \/ cpc = "change_Y" /\ (Maker[i] = "HUAWEI" \/ i < ci)
  \/ cpc \in {"status_oper", "status_mode"} /\ i >= ci

CacheInv ==
  /\ oper_mode \in {0, 1}
  /\ mpc \notin {"boot_oper", "boot_mode", "sweep"} => mi = 0
  /\ locked = Idx
  /\ \A i \in Idx : radio[i] # "GSM" /\ oper[i] = "SIM"
  /\ \A i \in Idx : mode[i] = radio[i] \/ Unchecked(i)

LEMMA OrderlyConf ==
  ASSUME Orderly, TypeOK
  PROVE  usr_cfg.mode \in {0, 1}
BY InputsAssumption DEF Orderly, TypeOK, WorldTypeOK, RET_FAILED

\* In an orderly system a mode query reads the technology of the modem.
LEMMA OrderlyQuery ==
  ASSUME Orderly, TypeOK, CacheInv, NEW i \in Idx, sim_mode_que(i)
  PROVE  mode' = [mode EXCEPT ![i] = radio[i]]
BY DEF Orderly, CacheInv, sim_mode_que, ModeReadings, Shown, TypeOK, ModemsTypeOK

\* In an orderly system a mode change of a modem whose cached mode is right puts it on the
\* target; of a modem of the other make it leaves everything alone.
LEMMA OrderlyChange ==
  ASSUME Orderly, TypeOK, CacheInv, NEW i \in Idx,
         NEW mk \in {"HUAWEI", "YUGA"},
         \/ mk = "HUAWEI" /\ mode_change_H(i, oper_mode)
         \/ mk = "YUGA" /\ mode_change_Y(i, oper_mode)
  PROVE  /\ locked' = Idx
         /\ Maker[i] # mk => radio' = radio
         /\ \A j \in Idx : j # i => radio'[j] = radio[j]
         /\ radio'[i] # "GSM"
         /\ Maker[i] = mk /\ mode[i] = radio[i] => radio'[i] = Target(oper_mode)
<1>1. Target(oper_mode) # "GSM" /\ ~MayRoam /\ AtReliable
  BY SwitchesAssumption DEF Target, Orderly
<1>2. CASE UNCHANGED modems /\ (Maker[i] # mk \/ mode[i] = Target(oper_mode))
  BY <1>2 DEF CacheInv, modems
<1>3. CASE SendMode(i, Target(oper_mode)) /\ Maker[i] = mk
  BY <1>1, <1>3 DEF SendMode, CacheInv, TypeOK, ModemsTypeOK
<1>4. oper_mode \in {0, 1} /\ oper[i] # "NONE"
  BY DEF CacheInv
<1> QED
  BY <1>2, <1>3, <1>4, ModemsAssumption DEF mode_change_H, mode_change_Y

LEMMA CacheInvInductive ==
  ASSUME Orderly
  PROVE  /\ Init => CacheInv
         /\ TypeOK /\ CacheInv /\ FileInv /\ [Next]_vars => CacheInv'
<1>1. Init => CacheInv
  BY DEF Init, CacheInv, Orderly, Unchecked
<1>2. TypeOK /\ CacheInv /\ FileInv /\ [Next]_vars => CacheInv'
  <2> SUFFICES ASSUME TypeOK, CacheInv, FileInv, [Next]_vars PROVE CacheInv'
    OBVIOUS
  <2> USE DEF CacheInv, Unchecked, Goto, Round, control, net, sampler,
              status, logic, cache, modems, file, config, load
  <2>1. CASE StatusOper
    BY <2>1 DEF StatusOper, sim_oper_que, Orderly, TypeOK, ModemsTypeOK
  <2>2. CASE StatusMode
    <3>1. ci \in Idx /\ Idx \subseteq Int /\ NumModems \in Int
      BY ModemsAssumption DEF TypeOK, ControlTypeOK, Idx
    <3>2. mode' = [mode EXCEPT ![ci] = radio[ci]]
      BY <2>2, <3>1, OrderlyQuery DEF StatusMode
    <3>3. \A i \in Idx : mode'[i] = IF i = ci THEN radio[i] ELSE mode[i]
      BY <3>1, <3>2 DEF TypeOK, ModemsTypeOK
    <3>4. UNCHANGED <<radio, locked, oper, mpc, mi, oper_mode>>
      BY <2>2 DEF StatusMode
    <3>5. CASE cpc = "init_mode"
      BY <3>4, <3>5 DEF FileInv, InitLabels
    <3>6. CASE Round("status_mode", "status_oper", "file_test")
      <4>1. \A i \in Idx : i >= ci + 1 \/ i <= ci
        BY <3>1
      <4>2. ASSUME NEW i \in Idx PROVE mode'[i] = radio'[i] \/ Unchecked(i)'
        <5>1. CASE i = ci
          BY <3>3, <3>4, <5>1
        <5>2. CASE i # ci /\ mode[i] = radio[i]
          BY <3>3, <3>4, <5>2
        <5>3. CASE i # ci /\ Unchecked(i)
          BY <3>1, <3>4, <3>6, <5>3 DEF Idx
        <5> QED
          BY <5>1, <5>2, <5>3
      <4> QED
        BY <3>4, <4>2
    <3> QED
      BY <2>2, <3>5, <3>6 DEF StatusMode
  <2>3. CASE InitConfig
    BY <2>3, OrderlyConf DEF InitConfig
  <2>4. CASE ChangeH
    BY <2>4, OrderlyChange DEF ChangeH, TypeOK, ControlTypeOK, Idx, FileInv, InitLabels
  <2>5. CASE ChangeY
    BY <2>5, OrderlyChange, ModemsAssumption DEF ChangeY, TypeOK, ControlTypeOK, Idx, FileInv, InitLabels
  <2>6. CASE ModeGet
    BY <2>6, OrderlyConf DEF ModeGet
  <2>7. CASE AutoGet
    BY <2>7 DEF AutoGet
  <2>8. CASE Compare
    BY <2>8 DEF Compare, Flip
  <2>9. CASE SwitchStop
    BY <2>9 DEF SwitchStop
  <2>10. CASE CloseTest
    BY <2>10 DEF CloseTest
  <2>11. CASE CloseNull
    BY <2>11 DEF CloseNull
  <2>12. CASE ModeSet
    BY <2>12 DEF ModeSet
  <2>13. CASE RunStart
    BY <2>13 DEF RunStart
  <2>14. CASE Sample
    BY <2>14 DEF Sample
  <2>15. CASE IsTakeoff
    BY <2>15 DEF IsTakeoff
  <2>16. CASE IsLanded
    BY <2>16 DEF IsLanded
  <2>17. CASE Acknowledge
    BY <2>17 DEF Acknowledge
  <2>18. CASE SetSystemTime
    BY <2>18 DEF SetSystemTime
  <2>19. CASE Launch
    BY <2>19 DEF Launch
  <2>20. CASE Disarm
    BY <2>20 DEF Disarm
  <2>21. CASE Kill
    BY <2>21 DEF Kill
  <2>22. CASE Recvfrom
    BY <2>22 DEF Recvfrom
  <2>23. CASE StoreUav
    BY <2>23 DEF StoreUav
  <2>24. CASE StoreMain
    BY <2>24 DEF StoreMain
  <2>25. CASE StoreTime
    BY <2>25 DEF StoreTime
  <2>26. CASE BootOper
    BY <2>26 DEF BootOper, sim_oper_que, Orderly, TypeOK, ModemsTypeOK
  <2>27. CASE BootMode
    <3>1. mi \in Idx /\ Idx \subseteq Int /\ NumModems \in Int
      BY ModemsAssumption DEF TypeOK, SamplerTypeOK, Idx
    <3>2. mode' = [mode EXCEPT ![mi] = radio[mi]]
      BY <2>27, <3>1, OrderlyQuery DEF BootMode
    <3>3. \A i \in Idx : mode'[i] = IF i = mi THEN radio[i] ELSE mode[i]
      BY <3>1, <3>2 DEF TypeOK, ModemsTypeOK
    <3>4. UNCHANGED <<radio, locked, oper, cpc, ci, oper_mode>>
      BY <2>27 DEF BootMode
    <3>5. ASSUME NEW i \in Idx PROVE mode'[i] = radio'[i] \/ Unchecked(i)'
      <4>1. CASE i = mi
        BY <3>3, <3>4, <4>1
      <4>2. CASE i # mi /\ mode[i] = radio[i]
        BY <3>3, <3>4, <4>2
      <4>3. CASE i # mi /\ Unchecked(i)
        BY <2>27, <3>1, <3>4, <4>3 DEF BootMode, Idx
      <4> QED
        BY <4>1, <4>2, <4>3
    <3>6. mpc' \notin {"boot_oper", "boot_mode", "sweep"} => mi' = 0
      BY <2>27 DEF BootMode
    <3> QED
      BY <3>4, <3>5, <3>6
  <2>28. CASE StartSweep
    BY <2>28 DEF StartSweep
  <2>29. CASE SampleModem
    BY <2>29 DEF SampleModem
  <2>30. CASE SaveTest
    BY <2>30 DEF SaveTest
  <2>31. CASE SaveOpen
    BY <2>31 DEF SaveOpen
  <2>32. CASE SaveHeader
    BY <2>32 DEF SaveHeader
  <2>33. CASE SaveRow
    BY <2>33 DEF SaveRow
  <2>34. CASE SaveFlush
    BY <2>34 DEF SaveFlush
  <2>35. CASE Commit
    BY <2>35 DEF Commit
  <2>36. CASE RunSh
    BY <2>36 DEF RunSh
  <2>37. CASE Roam
    BY <2>37 DEF Roam, Orderly
  <2>38. CASE UNCHANGED vars
    BY <2>38 DEF vars
  <2>39. QED
    BY <2>1, <2>2, <2>3, <2>4, <2>5, <2>6, <2>7, <2>8, <2>9, <2>10, <2>11, <2>12, <2>13, <2>14, <2>15, <2>16, <2>17, <2>18, <2>19, <2>20, <2>21, <2>22, <2>23, <2>24, <2>25, <2>26, <2>27, <2>28, <2>29, <2>30, <2>31, <2>32, <2>33, <2>34, <2>35, <2>36, <2>37, <2>38
    DEF Next, Process, Control, Net, Modem
<1> QED
  BY <1>1, <1>2

\* The invariants the theorems below rest on, together.
LEMMA AllInvariants == Spec => [](TypeOK /\ FileInv /\ (Orderly => CacheInv))
<1>1. Spec => [](Orderly => CacheInv)
  <2>1. Init => (Orderly => CacheInv)
    BY CacheInvInductive
  <2>2. TypeOK /\ FileInv /\ (Orderly => CacheInv) /\ [Next]_vars => (Orderly => CacheInv)'
    <3>1. Orderly' => Orderly
      BY DEF Orderly, RET_FAILED
    <3> QED
      BY <3>1, CacheInvInductive
  <2> QED
    BY <2>1, <2>2, TypeCorrect, FileInvInductive, PTL DEF Spec
<1> QED
  BY <1>1, TypeCorrect, FileInvInductive, PTL DEF Spec

LEMMA Coherent ==
  ASSUME TypeOK, CacheInv, Booted, cpc \notin SwitchLabels
  PROVE  mode = radio
BY DEF CacheInv, Unchecked, Booted, SwitchLabels, TypeOK, ModemsTypeOK

\* Between switches, in an orderly system past its boot check, every cached mode is right.
THEOREM CacheIsCoherent == Spec => []CacheCoherent
<1>1. TypeOK /\ (Orderly => CacheInv) => CacheCoherent
  BY Coherent DEF CacheCoherent
<1> QED
  BY <1>1, AllInvariants, PTL

\* A switch leaves no modem on the other technology.
THEOREM SwitchReaches == Spec => SwitchReachesModems
<1>1. ASSUME TypeOK, FileInv, Orderly => CacheInv, [Next]_vars
      PROVE  [Orderly /\ Booted
                /\ (\/ cpc = "change_H" /\ Maker[ci] = "HUAWEI"
                    \/ cpc = "change_Y" /\ Maker[ci] = "YUGA")
                /\ cpc' \in {"change_H", "change_Y", "status_oper"}
                /\ <<cpc, ci>> # <<cpc, ci>>'
              => radio'[ci] = Target(oper_mode)]_vars
  <2> SUFFICES ASSUME Orderly, Booted, <<cpc, ci>> # <<cpc, ci>>',
                      \/ cpc = "change_H" /\ Maker[ci] = "HUAWEI"
                      \/ cpc = "change_Y" /\ Maker[ci] = "YUGA"
               PROVE  radio'[ci] = Target(oper_mode)
    BY <1>1
  <2>1. CacheInv /\ ci \in Idx /\ Idx \subseteq Int
    BY <1>1, ModemsAssumption DEF TypeOK, ControlTypeOK, Idx
  <2>2. mode[ci] = radio[ci]
    BY <2>1 DEF CacheInv, Unchecked, Booted
  <2>3. CASE ChangeH
    BY <1>1, <2>1, <2>2, <2>3, OrderlyChange DEF ChangeH, Round
  <2>4. CASE ChangeY
    BY <1>1, <2>1, <2>2, <2>4, OrderlyChange DEF ChangeY, Round
  <2>5. CASE Control /\ ~ChangeH /\ ~ChangeY
    BY <2>5 DEF Control, StatusOper, StatusMode, InitConfig, ModeGet, AutoGet, Compare, Goto, Round,
                SwitchStop, CloseTest, CloseNull, ModeSet, RunStart, Sample, IsTakeoff, IsLanded,
                Acknowledge, SetSystemTime, Launch, Disarm, Kill
  <2>6. CASE Net \/ Modem \/ Commit \/ RunSh \/ Roam \/ UNCHANGED vars
    BY <2>6 DEF Net, Recvfrom, StoreUav, StoreMain, StoreTime, Commit, RunSh, Roam, vars, control,
                Modem, BootOper, BootMode, StartSweep, SampleModem, SaveTest, SaveOpen, SaveHeader,
                SaveRow, SaveFlush
  <2> QED
    BY <1>1, <2>3, <2>4, <2>5, <2>6 DEF Next, Process
<1> QED
  BY <1>1, AllInvariants, PTL DEF Spec, SwitchReachesModems

-----------------------------------------------------------------------------
(* The rows of the sweep file *)

\* While no mode is being switched: the columns sampled so far, and the header of the open file,
\* are the technologies the modems have now.
RowInv ==
  /\ cpc \in InitLabels => info_file_fp = "NULL"
  /\ mpc \in {"unborn", "boot_oper", "boot_mode"} => info_file_fp = "NULL"
  /\ mpc \in {"open", "header"} /\ info_file_fp = "dangling" => cpc \in SwitchLabels
  /\ mpc = "open" /\ cpc \notin SwitchLabels => info_file_fp = "NULL"
  /\ cpc \notin SwitchLabels =>
       /\ mpc = "sweep" => \A i \in Idx : i < mi => info_buf[i] = radio[i]
       /\ mpc \in {"save", "open", "header", "row"} => info_buf = radio
       /\ info_file_fp = "open" /\ mpc # "header" => header = radio

LEMMA RowInvInductive ==
  ASSUME Orderly, SweepFitsDelay
  PROVE  /\ Init => RowInv
         /\ TypeOK /\ FileInv /\ CacheInv /\ RowInv /\ [Next]_vars => RowInv'
<1>1. Init => RowInv
  BY DEF Init, RowInv, InitLabels
<1>2. TypeOK /\ FileInv /\ CacheInv /\ RowInv /\ [Next]_vars => RowInv'
  <2> SUFFICES ASSUME TypeOK, FileInv, CacheInv, RowInv, [Next]_vars PROVE RowInv'
    OBVIOUS
  <2> USE SwitchesAssumption DEF RowInv, FileInv, InitLabels, SwitchLabels, SweepLabels, Goto, Round,
          control, net, sampler, status, logic, cache, modems, file, config, load
  <2>1. CASE StatusOper
    BY <2>1 DEF StatusOper
  <2>2. CASE StatusMode
    BY <2>2 DEF StatusMode
  <2>3. CASE InitConfig
    BY <2>3 DEF InitConfig
  <2>4. CASE ChangeH
    BY <2>4 DEF ChangeH
  <2>5. CASE ChangeY
    BY <2>5 DEF ChangeY
  <2>6. CASE ModeGet
    BY <2>6 DEF ModeGet
  <2>7. CASE AutoGet
    BY <2>7 DEF AutoGet
  <2>8. CASE Compare
    BY <2>8 DEF Compare
  <2>9. CASE SwitchStop
    BY <2>9 DEF SwitchStop
  <2>10. CASE CloseTest
    BY <2>10 DEF CloseTest
  <2>11. CASE CloseNull
    BY <2>11 DEF CloseNull
  <2>12. CASE ModeSet
    BY <2>12 DEF ModeSet
  <2>13. CASE RunStart
    BY <2>13 DEF RunStart
  <2>14. CASE Sample
    BY <2>14 DEF Sample
  <2>15. CASE IsTakeoff
    BY <2>15 DEF IsTakeoff
  <2>16. CASE IsLanded
    BY <2>16 DEF IsLanded
  <2>17. CASE Acknowledge
    BY <2>17 DEF Acknowledge
  <2>18. CASE SetSystemTime
    BY <2>18 DEF SetSystemTime
  <2>19. CASE Launch
    BY <2>19 DEF Launch
  <2>20. CASE Disarm
    BY <2>20 DEF Disarm
  <2>21. CASE Kill
    BY <2>21 DEF Kill
  <2>22. CASE Recvfrom
    BY <2>22 DEF Recvfrom
  <2>23. CASE StoreUav
    BY <2>23 DEF StoreUav
  <2>24. CASE StoreMain
    BY <2>24 DEF StoreMain
  <2>25. CASE StoreTime
    BY <2>25 DEF StoreTime
  <2>26. CASE BootOper
    BY <2>26 DEF BootOper
  <2>27. CASE BootMode
    BY <2>27 DEF BootMode
  <2>28. CASE StartSweep
    BY <2>28, ModemsAssumption DEF StartSweep, CacheInv, Idx
  <2>29. CASE SampleModem
    <3>1. mi \in Idx /\ Idx \subseteq Int /\ NumModems \in Int
      BY ModemsAssumption DEF TypeOK, SamplerTypeOK, Idx
    <3>2. info_buf' = [info_buf EXCEPT ![mi] = radio[mi]]
      BY <2>29 DEF SampleModem, Orderly
    <3>3. \A i \in Idx : info_buf'[i] = IF i = mi THEN radio[i] ELSE info_buf[i]
      BY <3>1, <3>2 DEF TypeOK, SamplerTypeOK
    <3>4. UNCHANGED <<radio, header, info_file_fp, cpc>>
      BY <2>29 DEF SampleModem
    <3>5. CASE mi + 1 < NumModems
      BY <2>29, <3>1, <3>3, <3>4, <3>5 DEF SampleModem
    <3>6. CASE ~(mi + 1 < NumModems) /\ cpc \notin SwitchLabels
      <4>1. \A i \in Idx : i < mi \/ i = mi
        BY <3>1, <3>6 DEF Idx
      <4>2. \A i \in Idx : info_buf'[i] = radio[i]
        BY <2>29, <3>3, <3>6, <4>1 DEF SampleModem
      <4>3. info_buf' = radio
        BY <3>1, <3>2, <4>2 DEF TypeOK, SamplerTypeOK, ModemsTypeOK
      <4> QED
        BY <2>29, <3>4, <3>6, <4>3 DEF SampleModem
    <3>7. CASE ~(mi + 1 < NumModems) /\ cpc \in SwitchLabels
      BY <2>29, <3>4, <3>7 DEF SampleModem
    <3> QED
      BY <3>5, <3>6, <3>7
  <2>30. CASE SaveTest
    BY <2>30 DEF SaveTest
  <2>31. CASE SaveOpen
    BY <2>31 DEF SaveOpen
  <2>32. CASE SaveHeader
    BY <2>32, Coherent DEF SaveHeader, Booted
  <2>33. CASE SaveRow
    BY <2>33 DEF SaveRow
  <2>34. CASE SaveFlush
    BY <2>34 DEF SaveFlush
  <2>35. CASE Commit
    BY <2>35 DEF Commit
  <2>36. CASE RunSh
    BY <2>36 DEF RunSh
  <2>37. CASE Roam
    BY <2>37 DEF Roam, CacheInv
  <2>38. CASE UNCHANGED vars
    BY <2>38 DEF vars
  <2>39. QED
    BY <2>1, <2>2, <2>3, <2>4, <2>5, <2>6, <2>7, <2>8, <2>9, <2>10, <2>11, <2>12, <2>13, <2>14, <2>15, <2>16, <2>17, <2>18, <2>19, <2>20, <2>21, <2>22, <2>23, <2>24, <2>25, <2>26, <2>27, <2>28, <2>29, <2>30, <2>31, <2>32, <2>33, <2>34, <2>35, <2>36, <2>37, <2>38
    DEF Next, Process, Control, Net, Modem
<1> QED
  BY <1>1, <1>2

\* Every row written while no mode is being switched was measured on the technologies its file's
\* header names, in an orderly system whose sweeps end within the delays of a switch, but for a
\* first row of the thread that was appended to old bytes of its stack.
THEOREM RowsMatchHeader == Spec => RowMatchesHeader
<1>1. Spec => [](Orderly /\ SweepFitsDelay => RowInv)
  <2>1. Init => (Orderly /\ SweepFitsDelay => RowInv)
    BY RowInvInductive
  <2>2. TypeOK /\ FileInv /\ (Orderly => CacheInv) /\ (Orderly /\ SweepFitsDelay => RowInv)
        /\ [Next]_vars => (Orderly /\ SweepFitsDelay => RowInv)'
    <3>1. Orderly' => Orderly
      BY DEF Orderly, RET_FAILED
    <3> QED
      BY <3>1, RowInvInductive
  <2> QED
    BY <2>1, <2>2, AllInvariants, PTL DEF Spec
<1>2. (Orderly /\ SweepFitsDelay => RowInv)
      => [mpc = "row" /\ info_file_fp = "open" /\ cpc \notin SwitchLabels
            /\ Orderly /\ SweepFitsDelay /\ ~soiled
          => info_buf = header]_vars
  BY DEF RowInv
<1> QED
  BY <1>1, <1>2, PTL DEF RowMatchesHeader

-----------------------------------------------------------------------------
(* Telemetry *)

\* A takeoff that was acknowledged leaves scan_run_flag set at every label after its run_start
\* that is not inside a switch or a landing.
ArmedInv ==
  /\ StatusHolds /\ cpc = "ack_takeoff" => g_uav_status = "TAKEOFF"
  /\ StatusHolds /\ cpc = "ack_landed" => g_uav_status = "LANDED_NORMAL"
  /\ StatusHolds /\ cpc \in {"disarm", "kill"} => g_last_uav_status # "TAKEOFF"
  /\ cpc \in InitLabels => g_last_uav_status = "OTHER"
  /\ StatusHolds /\ cpc \in TopLabels \cup {"run_stop", "launch", "ack_landed"}
       /\ g_last_uav_status = "TAKEOFF"
     => scan_run_flag = 1

LEMMA ArmedInvInductive ==
  /\ Init => ArmedInv
  /\ ArmedInv /\ [Next]_vars => ArmedInv'
<1>1. Init => ArmedInv
  BY DEF Init, ArmedInv, InitLabels, TopLabels
<1>2. ArmedInv /\ [Next]_vars => ArmedInv'
  <2> SUFFICES ASSUME ArmedInv, [Next]_vars PROVE ArmedInv'
    OBVIOUS
  <2> USE SwitchesAssumption DEF ArmedInv, InitLabels, TopLabels, Goto, Round, control, net, sampler,
          status, logic, cache, modems, file, config, load
  <2>1. CASE StatusOper
    BY <2>1 DEF StatusOper
  <2>2. CASE StatusMode
    BY <2>2 DEF StatusMode
  <2>3. CASE InitConfig
    BY <2>3 DEF InitConfig
  <2>4. CASE ChangeH
    BY <2>4 DEF ChangeH
  <2>5. CASE ChangeY
    BY <2>5 DEF ChangeY
  <2>6. CASE ModeGet
    BY <2>6 DEF ModeGet
  <2>7. CASE AutoGet
    BY <2>7 DEF AutoGet
  <2>8. CASE Compare
    BY <2>8 DEF Compare
  <2>9. CASE SwitchStop
    BY <2>9 DEF SwitchStop
  <2>10. CASE CloseTest
    BY <2>10 DEF CloseTest
  <2>11. CASE CloseNull
    BY <2>11 DEF CloseNull
  <2>12. CASE ModeSet
    BY <2>12 DEF ModeSet
  <2>13. CASE RunStart
    BY <2>13 DEF RunStart
  <2>14. CASE Sample
    BY <2>14 DEF Sample
  <2>15. CASE IsTakeoff
    BY <2>15 DEF IsTakeoff
  <2>16. CASE IsLanded
    BY <2>16 DEF IsLanded
  <2>17. CASE Acknowledge
    BY <2>17 DEF Acknowledge
  <2>18. CASE SetSystemTime
    BY <2>18 DEF SetSystemTime
  <2>19. CASE Launch
    BY <2>19 DEF Launch
  <2>20. CASE Disarm
    BY <2>20 DEF Disarm
  <2>21. CASE Kill
    BY <2>21 DEF Kill
  <2>22. CASE Recvfrom
    BY <2>22 DEF Recvfrom
  <2>23. CASE StoreUav
    BY <2>23 DEF StoreUav
  <2>24. CASE StoreMain
    BY <2>24 DEF StoreMain
  <2>25. CASE StoreTime
    BY <2>25 DEF StoreTime
  <2>26. CASE BootOper
    BY <2>26 DEF BootOper
  <2>27. CASE BootMode
    BY <2>27 DEF BootMode
  <2>28. CASE StartSweep
    BY <2>28 DEF StartSweep
  <2>29. CASE SampleModem
    BY <2>29 DEF SampleModem
  <2>30. CASE SaveTest
    BY <2>30 DEF SaveTest
  <2>31. CASE SaveOpen
    BY <2>31 DEF SaveOpen
  <2>32. CASE SaveHeader
    BY <2>32 DEF SaveHeader
  <2>33. CASE SaveRow
    BY <2>33 DEF SaveRow
  <2>34. CASE SaveFlush
    BY <2>34 DEF SaveFlush
  <2>35. CASE Commit
    BY <2>35 DEF Commit
  <2>36. CASE RunSh
    BY <2>36 DEF RunSh
  <2>37. CASE Roam
    BY <2>37 DEF Roam
  <2>38. CASE UNCHANGED vars
    BY <2>38 DEF vars
  <2>39. QED
    BY <2>1, <2>2, <2>3, <2>4, <2>5, <2>6, <2>7, <2>8, <2>9, <2>10, <2>11, <2>12, <2>13, <2>14, <2>15, <2>16, <2>17, <2>18, <2>19, <2>20, <2>21, <2>22, <2>23, <2>24, <2>25, <2>26, <2>27, <2>28, <2>29, <2>30, <2>31, <2>32, <2>33, <2>34, <2>35, <2>36, <2>37, <2>38
    DEF Next, Process, Control, Net, Modem
<1> QED
  BY <1>1, <1>2

\* No mode switch turns off the sweeps of a flight, whenever it happens.
THEOREM ArmedInFlight == Spec => []ScanArmedInFlight
<1>1. ArmedInv => ScanArmedInFlight
  BY DEF ArmedInv, ScanArmedInFlight
<1> QED
  BY <1>1, ArmedInvInductive, PTL DEF Spec

\* The time stored is that of the last datagram, or of the one before while the last is being
\* stored; no status is acknowledged before its datagram is received.
ClockInv ==
  /\ cpc \in InitLabels => npc = "unborn"
  /\ npc \in {"unborn", "recv"} => g_time_std_s = datagrams
  /\ npc \in {"store_uav", "store_main", "store_time"} => g_time_std_s = datagrams - 1
  /\ acked <= UavDatagram
  /\ cpc \in {"arm", "launch"} => sysclock >= acked - 1

LEMMA ClockInvInductive ==
  /\ Init => ClockInv
  /\ TypeOK /\ ClockInv /\ [Next]_vars => ClockInv'
<1>1. Init => ClockInv
  BY DEF Init, ClockInv, InitLabels, UavDatagram
<1>2. TypeOK /\ ClockInv /\ [Next]_vars => ClockInv'
  <2> SUFFICES ASSUME TypeOK, ClockInv, [Next]_vars PROVE ClockInv'
    OBVIOUS
  <2>0. /\ datagrams \in Int /\ g_time_std_s \in Int /\ acked \in Int /\ sysclock \in Int
        /\ npc \in {"unborn", "recv", "store_uav", "store_main", "store_time"}
    BY BoundsAssumption DEF TypeOK, NetTypeOK, GlobalsTypeOK, NetLabels
  <2> USE <2>0 DEF ClockInv, InitLabels, UavDatagram, Goto, Round, control, net, sampler,
          status, logic, cache, modems, file, config, load
  <2>1. CASE StatusOper
    BY <2>1 DEF StatusOper
  <2>2. CASE StatusMode
    BY <2>2 DEF StatusMode
  <2>3. CASE InitConfig
    BY <2>3 DEF InitConfig
  <2>4. CASE ChangeH
    BY <2>4 DEF ChangeH
  <2>5. CASE ChangeY
    BY <2>5 DEF ChangeY
  <2>6. CASE ModeGet
    BY <2>6 DEF ModeGet
  <2>7. CASE AutoGet
    BY <2>7 DEF AutoGet
  <2>8. CASE Compare
    BY <2>8 DEF Compare
  <2>9. CASE SwitchStop
    BY <2>9 DEF SwitchStop
  <2>10. CASE CloseTest
    BY <2>10 DEF CloseTest
  <2>11. CASE CloseNull
    BY <2>11 DEF CloseNull
  <2>12. CASE ModeSet
    BY <2>12 DEF ModeSet
  <2>13. CASE RunStart
    BY <2>13 DEF RunStart
  <2>14. CASE Sample
    BY <2>14 DEF Sample
  <2>15. CASE IsTakeoff
    BY <2>15 DEF IsTakeoff
  <2>16. CASE IsLanded
    BY <2>16 DEF IsLanded
  <2>17. CASE Acknowledge
    BY <2>17 DEF Acknowledge
  <2>18. CASE SetSystemTime
    BY <2>18 DEF SetSystemTime
  <2>19. CASE Launch
    BY <2>19 DEF Launch
  <2>20. CASE Disarm
    BY <2>20 DEF Disarm
  <2>21. CASE Kill
    BY <2>21 DEF Kill
  <2>22. CASE Recvfrom
    BY <2>22 DEF Recvfrom
  <2>23. CASE StoreUav
    BY <2>23 DEF StoreUav
  <2>24. CASE StoreMain
    BY <2>24 DEF StoreMain
  <2>25. CASE StoreTime
    BY <2>25 DEF StoreTime
  <2>26. CASE BootOper
    BY <2>26 DEF BootOper
  <2>27. CASE BootMode
    BY <2>27 DEF BootMode
  <2>28. CASE StartSweep
    BY <2>28 DEF StartSweep
  <2>29. CASE SampleModem
    BY <2>29 DEF SampleModem
  <2>30. CASE SaveTest
    BY <2>30 DEF SaveTest
  <2>31. CASE SaveOpen
    BY <2>31 DEF SaveOpen
  <2>32. CASE SaveHeader
    BY <2>32 DEF SaveHeader
  <2>33. CASE SaveRow
    BY <2>33 DEF SaveRow
  <2>34. CASE SaveFlush
    BY <2>34 DEF SaveFlush
  <2>35. CASE Commit
    BY <2>35 DEF Commit
  <2>36. CASE RunSh
    BY <2>36 DEF RunSh
  <2>37. CASE Roam
    BY <2>37 DEF Roam
  <2>38. CASE UNCHANGED vars
    BY <2>38 DEF vars
  <2>39. QED
    BY <2>1, <2>2, <2>3, <2>4, <2>5, <2>6, <2>7, <2>8, <2>9, <2>10, <2>11, <2>12, <2>13, <2>14, <2>15, <2>16, <2>17, <2>18, <2>19, <2>20, <2>21, <2>22, <2>23, <2>24, <2>25, <2>26, <2>27, <2>28, <2>29, <2>30, <2>31, <2>32, <2>33, <2>34, <2>35, <2>36, <2>37, <2>38
    DEF Next, Process, Control, Net, Modem
<1> QED
  BY <1>1, <1>2

\* The clock set at a takeoff is at most one datagram older than the takeoff.
THEOREM ClockLagBounded == Spec => []ClockLag
<1>1. ClockInv => ClockLag
  BY DEF ClockInv, ClockLag
<1> QED
  BY <1>1, ClockInvInductive, TypeCorrect, PTL DEF Spec

\* With no mode switch a sweep runs only in a flight that was acknowledged, from the label arm to the
\* landing's disarm, and what run.sh started ends with the kill.
NoSwitch ==
  /\ \A c, d \in Confs : c.mode = d.mode
  /\ MainStatuses \subseteq {"NORMAL"} \/ \A c \in Confs : c.auto # 1

QuietInv ==
  /\ cpc \notin SwitchLabels \cup {"run_stop"}
  /\ cpc \notin {"init_oper", "init_mode", "init_cfg"} => \A c \in Confs : scan_oper_mode = c.mode
  /\ cpc \in {"auto_get", "compare"} => \A c \in Confs : oper_mode = c.mode
  /\ auto_flag = 1 => \E c \in Confs : c.auto = 1
  /\ StatusHolds /\ cpc \in {"set_time", "arm", "launch"} => g_last_uav_status = "TAKEOFF"
  /\ StatusHolds /\ scan_run_flag = 1 /\ cpc # "disarm" => g_last_uav_status = "TAKEOFF"
  /\ StatusHolds /\ LaunchFitsDelay /\ g_last_uav_status # "TAKEOFF" /\ cpc \notin {"disarm", "kill"}
       => run_sh = 0 /\ iperf = 0

LEMMA QuietInvInductive ==
  ASSUME NoSwitch
  PROVE  /\ Init => QuietInv
         /\ TypeOK /\ ArmedInv /\ QuietInv /\ [Next]_vars => QuietInv'
<1>1. Init => QuietInv
  BY DEF Init, QuietInv, SwitchLabels
<1>2. TypeOK /\ ArmedInv /\ QuietInv /\ [Next]_vars => QuietInv'
  <2> SUFFICES ASSUME TypeOK, ArmedInv, QuietInv, [Next]_vars PROVE QuietInv'
    OBVIOUS
  <2>0. usr_cfg \in Confs
    BY DEF TypeOK, WorldTypeOK
  <2> USE <2>0 DEF QuietInv, SwitchLabels, Goto, Round, control, net, sampler, status, logic, cache,
          modems, file, config, load
  <2>1. CASE InitConfig
    BY <2>1 DEF InitConfig, NoSwitch
  <2>2. CASE ChangeH
    BY <2>2 DEF ChangeH
  <2>3. CASE ChangeY
    BY <2>3 DEF ChangeY
  <2>4. CASE ModeGet
    BY <2>4 DEF ModeGet, NoSwitch
  <2>5. CASE AutoGet
    BY <2>5 DEF AutoGet
  <2>6. CASE Compare
    BY <2>6 DEF Compare, NoSwitch, TypeOK, GlobalsTypeOK
  <2>7. CASE SwitchStop
    BY <2>7 DEF SwitchStop
  <2>8. CASE ModeSet
    BY <2>8 DEF ModeSet
  <2>9. CASE RunStart
    BY <2>9 DEF RunStart
  <2>10. CASE Acknowledge
    BY <2>10 DEF Acknowledge, ArmedInv
  <2>11. CASE SetSystemTime
    BY <2>11 DEF SetSystemTime
  <2>12. CASE Launch
    BY <2>12 DEF Launch
  <2>13. CASE Disarm
    BY <2>13 DEF Disarm
  <2>14. CASE Kill
    BY <2>14 DEF Kill
  <2>15. CASE StoreMain
    BY <2>15 DEF StoreMain
  <2>16. CASE Commit
    BY <2>16 DEF Commit
  <2>17. CASE RunSh
    BY <2>17 DEF RunSh
  <2>18. CASE BootOper \/ BootMode \/ StartSweep \/ SampleModem \/ SaveTest \/
             SaveOpen \/ SaveHeader \/ SaveRow \/ SaveFlush \/ Recvfrom \/ StoreUav
             \/ StoreTime \/ StatusOper \/ StatusMode \/ CloseTest \/ CloseNull \/
             Sample \/ IsTakeoff \/ IsLanded \/ Roam \/ UNCHANGED vars
    BY <2>18 DEF BootOper, BootMode, StartSweep, SampleModem, SaveTest, SaveOpen,
             SaveHeader, SaveRow, SaveFlush, Recvfrom, StoreUav, StoreTime,
             StatusOper, StatusMode, CloseTest, CloseNull, Sample, IsTakeoff,
             IsLanded, Roam, vars
  <2> QED
    BY <2>1, <2>2, <2>3, <2>4, <2>5, <2>6, <2>7, <2>8, <2>9, <2>10, <2>11, <2>12, <2>13,
       <2>14, <2>15, <2>16, <2>17, <2>18
    DEF Next, Process, Control, Net, Modem
<1> QED
  BY <1>1, <1>2

\* Where the mode never changes, the scanner on the ground neither sweeps nor measures.
THEOREM GroundIsQuiet == ASSUME NoSwitch PROVE Spec => []QuietOnGround
<1>1. QuietInv => QuietOnGround
  BY DEF QuietInv, QuietOnGround, IdleOnGround, NoIperfOnGround, TopLabels
<1> QED
  BY <1>1, QuietInvInductive, ArmedInvInductive, TypeCorrect, PTL DEF Spec

-----------------------------------------------------------------------------
(* The rows when a sweep outlasts a switch *)

\* The modems are not being changed, and the file of the mode before is closed.
Settled == cpc \notin SwitchLabels \ {"mode_set", "run_start"}

\* A file opened by a sweep that outlasted a switch has no row yet, and no sweep that has a row before
\* its own began before the modems were changed; the first row ends with the row cleared.
EdgeInv ==
  /\ cpc \in InitLabels \/ mpc \in {"unborn", "boot_oper", "boot_mode"} => info_file_fp = "NULL"
  /\ mpc \in {"open", "header"} => modem_info_num = 0
  /\ modem_info_num > 0 /\ mpc # "flush" => ~soiled
  /\ Settled /\ info_file_fp = "open" =>
       /\ mpc # "header" => header = radio
       /\ modem_info_num > 0 /\ mpc = "sweep" => \A i \in Idx : i < mi => info_buf[i] = radio[i]
       /\ modem_info_num > 0 /\ mpc \in {"save", "row"} => info_buf = radio

LEMMA CoherentSettled ==
  ASSUME TypeOK, CacheInv, Booted, Settled
  PROVE  mode = radio
BY DEF CacheInv, Unchecked, Booted, Settled, SwitchLabels, TypeOK, ModemsTypeOK

LEMMA EdgeInvInductive ==
  ASSUME Orderly
  PROVE  /\ Init => EdgeInv
         /\ TypeOK /\ FileInv /\ CacheInv /\ EdgeInv /\ [Next]_vars => EdgeInv'
<1>1. Init => EdgeInv
  BY DEF Init, EdgeInv, InitLabels
<1>2. TypeOK /\ FileInv /\ CacheInv /\ EdgeInv /\ [Next]_vars => EdgeInv'
  <2> SUFFICES ASSUME TypeOK, FileInv, CacheInv, EdgeInv, [Next]_vars PROVE EdgeInv'
    OBVIOUS
  <2>0. modem_info_num \in Int
    BY DEF TypeOK, FileTypeOK, RowCap
  <2> USE <2>0, SwitchesAssumption DEF EdgeInv, Settled, FileInv, InitLabels, SwitchLabels, Goto, Round,
          control, net, sampler, status, logic, cache, modems, file, config, load
  <2>1. CASE InitConfig
    BY <2>1 DEF InitConfig
  <2>2. CASE ChangeH
    BY <2>2 DEF ChangeH
  <2>3. CASE ChangeY
    BY <2>3 DEF ChangeY
  <2>4. CASE CloseTest
    BY <2>4 DEF CloseTest
  <2>5. CASE CloseNull
    BY <2>5 DEF CloseNull
  <2>6. CASE BootMode
    BY <2>6 DEF BootMode
  <2>7. CASE StartSweep
    BY <2>7, ModemsAssumption DEF StartSweep, CacheInv, Idx
  <2>8. CASE SampleModem
    <3>1. mi \in Idx /\ Idx \subseteq Int /\ NumModems \in Int
      BY ModemsAssumption DEF TypeOK, SamplerTypeOK, Idx
    <3>2. info_buf' = [info_buf EXCEPT ![mi] = radio[mi]]
      BY <2>8 DEF SampleModem, Orderly
    <3>3. \A i \in Idx : info_buf'[i] = IF i = mi THEN radio[i] ELSE info_buf[i]
      BY <3>1, <3>2 DEF TypeOK, SamplerTypeOK
    <3>4. UNCHANGED <<radio, header, info_file_fp, modem_info_num, cpc>>
      BY <2>8 DEF SampleModem
    <3>5. CASE mi + 1 < NumModems
      BY <2>8, <3>1, <3>3, <3>4, <3>5 DEF SampleModem
    <3>6. CASE ~(mi + 1 < NumModems) /\ Settled /\ info_file_fp = "open" /\ modem_info_num > 0
      <4>1. \A i \in Idx : i < mi \/ i = mi
        BY <3>1, <3>6 DEF Idx
      <4>2. \A i \in Idx : info_buf'[i] = radio[i]
        BY <2>8, <3>3, <3>6, <4>1 DEF SampleModem
      <4>3. info_buf' = radio
        BY <3>1, <3>2, <4>2 DEF TypeOK, SamplerTypeOK, ModemsTypeOK
      <4> QED
        BY <2>8, <3>4, <3>6, <4>3 DEF SampleModem
    <3>7. CASE ~(mi + 1 < NumModems) /\ ~(Settled /\ info_file_fp = "open" /\ modem_info_num > 0)
      BY <2>8, <3>4, <3>7 DEF SampleModem
    <3> QED
      BY <3>5, <3>6, <3>7
  <2>9. CASE SaveTest
    BY <2>9 DEF SaveTest
  <2>10. CASE SaveOpen
    BY <2>10 DEF SaveOpen, ClearRow
  <2>11. CASE SaveHeader
    BY <2>11, CoherentSettled DEF SaveHeader, Booted
  <2>12. CASE SaveRow
    BY <2>12 DEF SaveRow
  <2>13. CASE SaveFlush
    BY <2>13 DEF SaveFlush, ClearRow
  <2>14. CASE Roam
    BY <2>14 DEF Roam, CacheInv
  <2>15. CASE Recvfrom \/ StoreUav \/ StoreMain \/ StoreTime \/ StatusOper \/
             StatusMode \/ ModeGet \/ AutoGet \/ Compare \/ SwitchStop \/ ModeSet \/
             RunStart \/ Sample \/ IsTakeoff \/ IsLanded \/ Acknowledge \/
             SetSystemTime \/ Launch \/ Disarm \/ Kill \/ Commit \/ RunSh \/
             BootOper \/ UNCHANGED vars
    BY <2>15 DEF Recvfrom, StoreUav, StoreMain, StoreTime, StatusOper, StatusMode,
             ModeGet, AutoGet, Compare, SwitchStop, ModeSet, RunStart, Sample,
             IsTakeoff, IsLanded, Acknowledge, SetSystemTime, Launch, Disarm, Kill,
             Commit, RunSh, BootOper, vars
  <2> QED
    BY <2>1, <2>2, <2>3, <2>4, <2>5, <2>6, <2>7, <2>8, <2>9, <2>10, <2>11, <2>12, <2>13,
       <2>14, <2>15
    DEF Next, Process, Control, Net, Modem
<1> QED
  BY <1>1, <1>2

\* Outside a switch only the first row of a file can differ from its header, however long a sweep lasts.
THEOREM EdgeRowsOnly == Spec => OnlyEdgeRowsMayDiffer
<1>1. Spec => [](Orderly => EdgeInv)
  <2>1. Init => (Orderly => EdgeInv)
    BY EdgeInvInductive
  <2>2. TypeOK /\ FileInv /\ (Orderly => CacheInv) /\ (Orderly => EdgeInv) /\ [Next]_vars
        => (Orderly => EdgeInv)'
    <3>1. Orderly' => Orderly
      BY DEF Orderly, RET_FAILED
    <3> QED
      BY <3>1, EdgeInvInductive
  <2> QED
    BY <2>1, <2>2, AllInvariants, PTL DEF Spec
<1>2. (Orderly => EdgeInv)
      => [mpc = "row" /\ info_file_fp = "open" /\ cpc \notin SwitchLabels /\ modem_info_num > 0
            /\ Orderly
          => info_buf = header /\ ~soiled]_vars
  BY DEF EdgeInv, Settled
<1> QED
  BY <1>1, <1>2, PTL DEF OnlyEdgeRowsMayDiffer
=============================================================================
