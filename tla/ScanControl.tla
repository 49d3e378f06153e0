----------------------------- MODULE ScanControl -----------------------------
(***************************************************************************)
(* The three threads of the scanner process and the globals they share     *)
(* without a lock:                                                         *)
(*                                                                         *)
(*   control  scan_logic_control_run_pthread: reads the user's config and  *)
(*            the UAV telemetry, switches the modems between 4G and 3G,    *)
(*            starts and stops the sweeps                                  *)
(*   net      scan_net_run_pthread: stores each telemetry datagram         *)
(*   modem    scan_modem_run_pthread: samples every modem while            *)
(*            scan_run_flag is set and writes one row per sweep            *)
(*                                                                         *)
(* Each load or store of a shared global is a step of its own; an AT       *)
(* transaction with a modem is one step (AtChannel looks inside it).       *)
(* The main thread runs scan_modem_init under the same program counter as  *)
(* the control thread, before the threads are created.                     *)
(***************************************************************************)
EXTENDS Integers

CONSTANTS
  NumModems,       \* modems with isvaild = 1; they have the indices 0 .. NumModems-1
  Maker,           \* what scan_modem_manu_que left in manu_id: "HUAWEI" or "YUGA"
  UavStatuses,     \* the UAV statuses the telemetry may carry
  MainStatuses,    \* the flight-controller states the telemetry may carry
  Confs,           \* the texts of /etc/config/scan, as what its two keys read as
  MaxDatagrams,    \* bound on the telemetry datagrams received
  MaxCommits,      \* bound on the config changes the user makes
  InPlace,         \* a save rewrites the config file; otherwise it puts another in its place
  AtReliable,      \* every AT transaction succeeds and every modem has service
  MayRoam,         \* a modem may start unlocked and change technology by itself
  SweepFitsDelay,  \* a sweep in progress ends within the delays of a mode switch
  StatusHolds,     \* no status is stored between its test and its re-load (142-143, 149-150)
  LaunchFitsDelay  \* run.sh has started its iperfs before a kill of iperf is run

RET_FAILED == -1
Idx        == 0 .. NumModems - 1

ASSUME ModemsAssumption ==
  /\ NumModems \in Nat \ {0}
  /\ Maker \in [Idx -> {"HUAWEI", "YUGA"}]
ASSUME InputsAssumption ==
  /\ UavStatuses \subseteq {"OTHER", "TAKEOFF", "LANDED_NORMAL"}
  /\ MainStatuses \subseteq {"NORMAL", "GOBACK"}
  /\ Confs \subseteq [mode : {0, 1, RET_FAILED}, auto : {0, 1, RET_FAILED}]
  /\ Confs # {}
ASSUME BoundsAssumption == MaxDatagrams \in Nat /\ MaxCommits \in Nat
ASSUME SwitchesAssumption ==
  {InPlace, AtReliable, MayRoam, SweepFitsDelay, StatusHolds, LaunchFitsDelay} \subseteq BOOLEAN

VARIABLES
  cpc, ci, oper_mode, auto_flag,          \* control thread: label and locals
  npc, pkt, datagrams,                    \* net thread: label, datagram, how many came
  mpc, mi, info_buf,                      \* modem thread: label, index, columns of the row,
  soiled,                                 \* and whether the stack's old bytes may be before them
  scan_run_flag, scan_oper_mode,
  g_uav_status, g_main_status, g_time_std_s, g_last_uav_status,
  mode, oper,                             \* pModem[i].mode and pModem[i].oper
  radio, locked,                          \* the modems themselves
  info_file_fp, modem_info_num, header,   \* the sweep file and the modes its header names
  conf, commits,                          \* /etc/config/scan; how often it was saved
  scan_usr_cfg_fp, usr_cfg,               \* its handle; the text the next getter finds
  sysclock, acked,                        \* number of the datagram the clock was set from,
                                          \* and of the one whose status is in g_last
  run_sh, iperf,                          \* run.sh still starting; iperfs running
  process                                 \* running or crashed

control == <<cpc, ci, oper_mode, auto_flag>>
net     == <<npc, pkt, datagrams>>
sampler == <<mpc, mi, info_buf, soiled>>
status  == <<g_uav_status, g_main_status, g_time_std_s>>
logic   == <<scan_oper_mode, g_last_uav_status, sysclock, acked>>
cache   == <<mode, oper>>
modems  == <<radio, locked>>
file    == <<info_file_fp, modem_info_num, header>>
config  == <<conf, commits, scan_usr_cfg_fp, usr_cfg>>
load    == <<run_sh, iperf>>
vars == <<control, net, sampler, status, logic, scan_run_flag, cache, modems,
          file, config, load, process>>

-----------------------------------------------------------------------------
(* Values *)

Techs == {"LTE", "G3", "GSM"}      \* G3: TD-SCDMA, WCDMA or CDMA
Modes == Techs \cup {"NO_MODE"}
Fates == {"running", "crashed"}
Blank == [i \in Idx |-> "none"]    \* a row or a header with no column yet
RowCap == 2                        \* modem_info_num is counted up to this bound

InitLabels == {"init_oper", "init_mode", "init_cfg", "init_change_H", "init_change_Y"}
SwitchLabels == {"change_H", "change_Y", "status_oper", "status_mode",
                 "file_test", "file_null", "mode_set", "run_start"}
TopLabels == {"mode_get", "auto_get", "compare", "sample", "takeoff", "landed"}
ControlLabels == InitLabels \cup SwitchLabels \cup TopLabels \cup
  {"run_stop", "ack_takeoff", "set_time", "arm", "launch", "ack_landed", "disarm", "kill"}
NetLabels == {"unborn", "recv", "store_uav", "store_main", "store_time"}
SweepLabels == {"sweep", "save", "open", "header", "row", "flush"}
ModemLabels == {"unborn", "boot_oper", "boot_mode", "idle"} \cup SweepLabels

Booted == mpc \notin {"unborn", "boot_oper", "boot_mode"}

Target(md) == IF md = 0 THEN "LTE" ELSE "G3"

\* Mutant: the bitwise complement instead of the logical one.
Flip_Bitwise(md) == -1 - md

Flip(md) == IF md = 0 THEN 1 ELSE 0          \* C's !md

\* The number of the datagram that last stored g_uav_status.
UavDatagram == IF npc = "store_uav" THEN datagrams - 1 ELSE datagrams

-----------------------------------------------------------------------------
(* AT transactions *)

\* What a mode query answers when it goes well: HUAWEI shows the technology it
\* camps on, YUGA the one it is locked to, which mode_que_Y knows or not.
Shown(i) ==
  IF Maker[i] = "HUAWEI" THEN radio[i]
  ELSE IF i \in locked /\ radio[i] # "GSM" THEN radio[i] ELSE "NO_MODE"

\* A failed HUAWEI query stores NO_MODE and a modem without service reads as GSM;
\* a failed YUGA query parses an uninitialised buffer or leaves the mode alone.
ModeReadings(i) ==
  {Shown(i)} \cup
    IF AtReliable THEN {}
    ELSE IF Maker[i] = "HUAWEI" THEN {"NO_MODE", "GSM"}
    ELSE {mode[i], "NO_MODE", "LTE", "G3"}

sim_oper_que(i) ==
  \E o \in IF AtReliable THEN {"SIM"} ELSE {"SIM", "NONE"} : oper' = [oper EXCEPT ![i] = o]

\* Mutant: the answer is read but not stored.
sim_mode_que_NotStored(i) == UNCHANGED mode

sim_mode_que(i) ==
  \E m \in ModeReadings(i) : mode' = [mode EXCEPT ![i] = m]

\* A mode command that is sent: without a positive answer the modem may or may
\* not have obeyed.
SendMode(i, t) ==
  \/ /\ radio' = [radio EXCEPT ![i] = t]
     /\ locked' = locked \cup {i}
  \/ ~AtReliable /\ UNCHANGED modems

\* Mutant: skips the modems that are on the other technology.
mode_change_H_SkipsOthers(i, md) ==
  IF Maker[i] = "HUAWEI" /\ md \in {0, 1} /\ mode[i] = Target(md)
  THEN SendMode(i, Target(md))
  ELSE UNCHANGED modems

mode_change_H(i, md) ==
  IF Maker[i] = "HUAWEI" /\ md \in {0, 1} /\ mode[i] # Target(md)
  THEN SendMode(i, Target(md))
  ELSE UNCHANGED modems

\* With md neither 0 nor 1 the code sent is an uninitialised local: the modem
\* refuses it or takes any of its codes.
mode_change_Y(i, md) ==
  IF Maker[i] # "YUGA" THEN UNCHANGED modems
  ELSE IF md \notin {0, 1}
       THEN \/ UNCHANGED modems
            \/ \E t \in Techs : /\ radio' = [radio EXCEPT ![i] = t]
                                /\ locked' \in {locked \cup {i}, locked \ {i}}
       ELSE IF mode[i] = Target(md) \/ (md = 1 /\ oper[i] = "NONE")
            THEN UNCHANGED modems
            ELSE SendMode(i, Target(md))

-----------------------------------------------------------------------------
(* Reading the config *)

\* Mutant: the file is never closed.
Getter_KeepsOpen(value) == scan_usr_cfg_fp' = "open" /\ UNCHANGED usr_cfg

\* A getter reads the file it finds open, or else opens the one there is. It closes it when its
\* key has a value and returns without closing it when not: the next getter reads the same text,
\* from its start.
Getter(value) ==
  IF value # RET_FAILED
  THEN scan_usr_cfg_fp' = "NULL" /\ usr_cfg' = conf
  ELSE scan_usr_cfg_fp' = "open" /\ UNCHANGED usr_cfg

-----------------------------------------------------------------------------
(* Control thread, and main thread before it *)

Goto(here, next) == cpc = here /\ cpc' = next

\* One round of a loop over the modems that goes from label here to label next.
Round(here, again, next) ==
  /\ cpc = here
  /\ IF ci + 1 < NumModems THEN cpc' = again /\ ci' = ci + 1
                           ELSE cpc' = next  /\ ci' = 0

StatusOper ==
  /\ \/ Goto("init_oper", "init_mode")
     \/ Goto("status_oper", "status_mode")
  /\ sim_oper_que(ci)
  /\ UNCHANGED <<ci, oper_mode, auto_flag, mode, net, sampler, status, logic, scan_run_flag,
                 modems, file, config, load, process>>

StatusMode ==
  /\ \/ Round("init_mode", "init_oper", "init_cfg")
     \/ Round("status_mode", "status_oper", "file_test")
  /\ sim_mode_que(ci)
  /\ UNCHANGED <<oper_mode, auto_flag, oper, net, sampler, status, logic, scan_run_flag,
                 modems, file, config, load, process>>

InitConfig ==
  /\ Goto("init_cfg", "init_change_H")
  /\ oper_mode' = usr_cfg.mode
  /\ scan_oper_mode' = usr_cfg.mode
  /\ Getter(usr_cfg.mode)
  /\ UNCHANGED <<ci, auto_flag, net, sampler, status, g_last_uav_status, sysclock, acked,
                 scan_run_flag, cache, modems, file, conf, commits, load, process>>

ChangeH ==
  /\ \/ Round("init_change_H", "init_change_H", "init_change_Y")
     \/ Round("change_H", "change_H", "change_Y")
  /\ mode_change_H(ci, oper_mode)
  /\ UNCHANGED <<oper_mode, auto_flag, net, sampler, status, logic, scan_run_flag, cache,
                 file, config, load, process>>

\* The end of the loop in scan_modem_init also ends scanner_init: scanner_run
\* creates the modem, net and control threads.
ChangeY ==
  /\ \/ /\ Round("init_change_Y", "init_change_Y", "mode_get")
        /\ IF cpc' = "mode_get" THEN mpc' = "boot_oper" /\ npc' = "recv"
                                ELSE UNCHANGED <<mpc, npc>>
     \/ /\ Round("change_Y", "change_Y", "status_oper")
        /\ UNCHANGED <<mpc, npc>>
  /\ mode_change_Y(ci, oper_mode)
  /\ UNCHANGED <<oper_mode, auto_flag, pkt, datagrams, mi, info_buf, soiled, status, logic,
                 scan_run_flag, cache, file, config, load, process>>

ModeGet ==
  /\ Goto("mode_get", "auto_get")
  /\ oper_mode' = usr_cfg.mode
  /\ Getter(usr_cfg.mode)
  /\ UNCHANGED <<ci, auto_flag, net, sampler, status, logic, scan_run_flag, cache, modems,
                 file, conf, commits, load, process>>

\* A flag that is not found reads as 0.
AutoGet ==
  /\ Goto("auto_get", "compare")
  /\ auto_flag' = IF usr_cfg.auto = 1 THEN 1 ELSE 0
  /\ Getter(usr_cfg.auto)
  /\ UNCHANGED <<ci, oper_mode, net, sampler, status, logic, scan_run_flag, cache, modems,
                 file, conf, commits, load, process>>

Compare ==
  /\ cpc = "compare"
  /\ oper_mode' = IF auto_flag = 1 /\ g_main_status = "GOBACK" THEN Flip(oper_mode) ELSE oper_mode
  /\ cpc' = IF oper_mode' # scan_oper_mode THEN "run_stop" ELSE "sample"
  /\ UNCHANGED <<ci, auto_flag, net, sampler, status, logic, scan_run_flag, cache, modems,
                 file, config, load, process>>

\* Mutant: the sweeps go on during the switch.
SwitchStop_KeepsRunning ==
  /\ Goto("run_stop", "change_H")
  /\ UNCHANGED <<ci, oper_mode, auto_flag, net, sampler, status, logic, scan_run_flag, cache,
                 modems, file, config, load, process>>

SwitchStop ==
  /\ Goto("run_stop", "change_H")
  /\ scan_run_flag' = 0
  /\ UNCHANGED <<ci, oper_mode, auto_flag, net, sampler, status, logic, cache, modems,
                 file, config, load, process>>

\* Mutant: the old sweep file stays open.
CloseTest_KeepsFile ==
  /\ Goto("file_test", "mode_set")
  /\ SweepFitsDelay => mpc \notin SweepLabels
  /\ UNCHANGED <<ci, oper_mode, auto_flag, net, sampler, status, logic, scan_run_flag, cache,
                 modems, file, config, load, process>>

\* scan_file_save_file_close, lines 58 and 59: until line 60 the pointer dangles.
\* Before it come the delays of mode_change (15 s) and status_check (5 s).
CloseTest ==
  /\ cpc = "file_test"
  /\ SweepFitsDelay => mpc \notin SweepLabels
  /\ IF info_file_fp = "NULL"
     THEN cpc' = "mode_set" /\ UNCHANGED file
     ELSE /\ cpc' = "file_null"
          /\ info_file_fp' = "dangling"
          /\ header' = Blank
          /\ UNCHANGED modem_info_num
  /\ UNCHANGED <<ci, oper_mode, auto_flag, net, sampler, status, logic, scan_run_flag, cache,
                 modems, config, load, process>>

\* Mutant: the pointer is not cleared after fclose.
CloseNull_KeepsPointer ==
  /\ Goto("file_null", "mode_set")
  /\ UNCHANGED <<ci, oper_mode, auto_flag, net, sampler, status, logic, scan_run_flag, cache,
                 modems, file, config, load, process>>

CloseNull ==
  /\ Goto("file_null", "mode_set")
  /\ info_file_fp' = "NULL"
  /\ UNCHANGED <<ci, oper_mode, auto_flag, net, sampler, status, logic, scan_run_flag, cache,
                 modems, modem_info_num, header, config, load, process>>

ModeSet ==
  /\ Goto("mode_set", "run_start")
  /\ scan_oper_mode' = oper_mode
  /\ UNCHANGED <<ci, oper_mode, auto_flag, net, sampler, status, g_last_uav_status, sysclock,
                 acked, scan_run_flag, cache, modems, file, config, load, process>>

\* Mutant: only the takeoff starts the sweeps, a switch leaves them stopped.
RunStart_TakeoffOnly ==
  /\ \/ Goto("run_start", "sample") /\ UNCHANGED scan_run_flag
     \/ Goto("arm", "launch") /\ scan_run_flag' = 1
  /\ UNCHANGED <<ci, oper_mode, auto_flag, net, sampler, status, logic, cache, modems, file,
                 config, load, process>>

RunStart ==
  /\ \/ Goto("run_start", "sample")
     \/ Goto("arm", "launch")
  /\ scan_run_flag' = 1
  /\ UNCHANGED <<ci, oper_mode, auto_flag, net, sampler, status, logic, cache, modems, file,
                 config, load, process>>

\* Lines 137, 142 and 149 each load g_uav_status again.
Sample ==
  /\ cpc = "sample"
  /\ cpc' = IF g_uav_status = g_last_uav_status THEN "mode_get" ELSE "takeoff"
  /\ UNCHANGED <<ci, oper_mode, auto_flag, net, sampler, status, logic, scan_run_flag, cache,
                 modems, file, config, load, process>>

IsTakeoff ==
  /\ cpc = "takeoff"
  /\ cpc' = IF g_uav_status = "TAKEOFF" THEN "ack_takeoff" ELSE "landed"
  /\ UNCHANGED <<ci, oper_mode, auto_flag, net, sampler, status, logic, scan_run_flag, cache,
                 modems, file, config, load, process>>

IsLanded ==
  /\ cpc = "landed"
  /\ cpc' = IF g_uav_status = "LANDED_NORMAL" THEN "ack_landed" ELSE "mode_get"
  /\ UNCHANGED <<ci, oper_mode, auto_flag, net, sampler, status, logic, scan_run_flag, cache,
                 modems, file, config, load, process>>

\* Mutant: only a takeoff is remembered.
Acknowledge_TakeoffOnly ==
  /\ \/ Goto("ack_takeoff", "set_time") /\ g_last_uav_status' = g_uav_status
     \/ Goto("ack_landed", "disarm") /\ UNCHANGED g_last_uav_status
  /\ acked' = UavDatagram
  /\ UNCHANGED <<ci, oper_mode, auto_flag, net, sampler, status, scan_oper_mode, sysclock,
                 scan_run_flag, cache, modems, file, config, load, process>>

Acknowledge ==
  /\ \/ Goto("ack_takeoff", "set_time")
     \/ Goto("ack_landed", "disarm")
  /\ g_last_uav_status' = g_uav_status
  /\ acked' = UavDatagram
  /\ UNCHANGED <<ci, oper_mode, auto_flag, net, sampler, status, scan_oper_mode, sysclock,
                 scan_run_flag, cache, modems, file, config, load, process>>

SetSystemTime ==
  /\ Goto("set_time", "arm")
  /\ sysclock' = g_time_std_s
  /\ UNCHANGED <<ci, oper_mode, auto_flag, net, sampler, status, scan_oper_mode,
                 g_last_uav_status, acked, scan_run_flag, cache, modems, file, config, load,
                 process>>

Launch ==
  /\ Goto("launch", "mode_get")
  /\ run_sh' = 1
  /\ UNCHANGED <<ci, oper_mode, auto_flag, net, sampler, status, logic, scan_run_flag, cache,
                 modems, file, config, iperf, process>>

Disarm ==
  /\ Goto("disarm", "kill")
  /\ scan_run_flag' = 0
  /\ UNCHANGED <<ci, oper_mode, auto_flag, net, sampler, status, logic, cache, modems, file,
                 config, load, process>>

\* Mutant: the kill finds no process.
Kill_Misses ==
  /\ LaunchFitsDelay => run_sh = 0
  /\ Goto("kill", "mode_get")
  /\ UNCHANGED <<ci, oper_mode, auto_flag, net, sampler, status, logic, scan_run_flag, cache,
                 modems, file, config, load, process>>

\* kill $(ps | grep iperf ...) finds the iperfs that run, not a run.sh about to start one.
Kill ==
  /\ LaunchFitsDelay => run_sh = 0
  /\ Goto("kill", "mode_get")
  /\ iperf' = 0
  /\ UNCHANGED <<ci, oper_mode, auto_flag, net, sampler, status, logic, scan_run_flag, cache,
                 modems, file, config, run_sh, process>>

Control ==
  \/ StatusOper \/ StatusMode \/ InitConfig \/ ChangeH \/ ChangeY
  \/ ModeGet \/ AutoGet \/ Compare \/ SwitchStop \/ CloseTest \/ CloseNull \/ ModeSet \/ RunStart
  \/ Sample \/ IsTakeoff \/ IsLanded \/ Acknowledge \/ SetSystemTime \/ Launch \/ Disarm \/ Kill

-----------------------------------------------------------------------------
(* Net thread *)

Recvfrom ==
  /\ npc = "recv" /\ npc' = "store_uav"
  /\ datagrams < MaxDatagrams
  /\ datagrams' = datagrams + 1
  /\ pkt' \in [uav : UavStatuses, main : MainStatuses]
  /\ UNCHANGED <<control, sampler, status, logic, scan_run_flag, cache, modems, file, config,
                 load, process>>

StoreUav ==
  /\ npc = "store_uav" /\ npc' = "store_main"
  /\ StatusHolds => cpc \notin {"ack_takeoff", "ack_landed"}
  /\ g_uav_status' = pkt.uav
  /\ UNCHANGED <<control, pkt, datagrams, sampler, g_main_status, g_time_std_s, logic,
                 scan_run_flag, cache, modems, file, config, load, process>>

StoreMain ==
  /\ npc = "store_main" /\ npc' = "store_time"
  /\ g_main_status' = pkt.main
  /\ UNCHANGED <<control, pkt, datagrams, sampler, g_uav_status, g_time_std_s, logic,
                 scan_run_flag, cache, modems, file, config, load, process>>

\* Mutant: the time of a datagram is not stored before the first takeoff or landing.
StoreTime_NotOther ==
  /\ npc = "store_time" /\ npc' = "recv"
  /\ g_time_std_s' = IF g_uav_status = "OTHER" THEN g_time_std_s ELSE datagrams
  /\ UNCHANGED <<control, pkt, datagrams, sampler, g_uav_status, g_main_status, logic,
                 scan_run_flag, cache, modems, file, config, load, process>>

\* time_std_s is identified with the number of the datagram that carried it.
StoreTime ==
  /\ npc = "store_time" /\ npc' = "recv"
  /\ g_time_std_s' = datagrams
  /\ UNCHANGED <<control, pkt, datagrams, sampler, g_uav_status, g_main_status, logic,
                 scan_run_flag, cache, modems, file, config, load, process>>

Net == Recvfrom \/ StoreUav \/ StoreMain \/ StoreTime

-----------------------------------------------------------------------------
(* Modem thread *)

BootOper ==
  /\ mpc = "boot_oper" /\ mpc' = "boot_mode"
  /\ sim_oper_que(mi)
  /\ UNCHANGED <<control, net, mi, info_buf, soiled, status, logic, scan_run_flag, mode, modems,
                 file, config, load, process>>

BootMode ==
  /\ mpc = "boot_mode"
  /\ IF mi + 1 < NumModems THEN mpc' = "boot_oper" /\ mi' = mi + 1
                           ELSE mpc' = "idle" /\ mi' = 0
  /\ sim_mode_que(mi)
  /\ UNCHANGED <<control, net, info_buf, soiled, status, logic, scan_run_flag, oper, modems,
                 file, config, load, process>>

StartSweep ==
  /\ mpc = "idle" /\ mpc' = "sweep"
  /\ scan_run_flag = 1
  /\ UNCHANGED <<control, net, mi, info_buf, soiled, status, logic, scan_run_flag, cache, modems,
                 file, config, load, process>>

\* A column is the signal measured on the technology the modem has at that moment;
\* a failed query leaves it out.
SampleModem ==
  /\ mpc = "sweep"
  /\ IF mi + 1 < NumModems THEN mpc' = mpc /\ mi' = mi + 1 ELSE mpc' = "save" /\ mi' = 0
  /\ \/ info_buf' = [info_buf EXCEPT ![mi] = radio[mi]]
     \/ ~AtReliable /\ UNCHANGED info_buf
  /\ UNCHANGED <<control, net, soiled, status, logic, scan_run_flag, cache, modems, file, config,
                 load, process>>

\* memset of info_buf at the end of a sweep, the first one of the thread.
ClearRow == info_buf' = Blank /\ soiled' = FALSE

SaveTest ==
  /\ mpc = "save"
  /\ IF info_file_fp = "NULL" THEN mpc' = "open" /\ modem_info_num' = 0
                              ELSE mpc' = "row"  /\ UNCHANGED modem_info_num
  /\ UNCHANGED <<control, net, mi, info_buf, soiled, status, logic, scan_run_flag, cache, modems,
                 info_file_fp, header, config, load, process>>

SaveOpen ==
  /\ mpc = "open"
  /\ \/ mpc' = "header" /\ info_file_fp' = "open" /\ UNCHANGED <<info_buf, soiled>>
     \/ mpc' = "idle"   /\ info_file_fp' = "NULL" /\ ClearRow     \* fopen failed
  /\ UNCHANGED <<control, net, mi, status, logic, scan_run_flag, cache, modems,
                 modem_info_num, header, config, load, process>>

\* fputs on what info_file_fp holds now: NULL faults, a closed FILE is undefined.
Fputs == process' \in CASE info_file_fp = "open"     -> {"running"}
                      [] info_file_fp = "dangling" -> Fates
                      [] info_file_fp = "NULL"     -> {"crashed"}

SaveHeader ==
  /\ mpc = "header" /\ mpc' = "row"
  /\ Fputs
  /\ header' = IF info_file_fp = "open" THEN mode ELSE header
  /\ UNCHANGED <<control, net, mi, info_buf, soiled, status, logic, scan_run_flag, cache, modems,
                 info_file_fp, modem_info_num, config, load>>

SaveRow ==
  /\ mpc = "row" /\ mpc' = "flush"
  /\ Fputs
  /\ modem_info_num' = IF modem_info_num < RowCap THEN modem_info_num + 1 ELSE RowCap
  /\ UNCHANGED <<control, net, mi, info_buf, soiled, status, logic, scan_run_flag, cache, modems,
                 info_file_fp, header, config, load>>

\* fflush(NULL) is legal: it flushes every stream.
SaveFlush ==
  /\ mpc = "flush" /\ mpc' = "idle"
  /\ process' \in IF info_file_fp = "dangling" THEN Fates ELSE {"running"}
  /\ ClearRow
  /\ UNCHANGED <<control, net, mi, status, logic, scan_run_flag, cache, modems, file, config,
                 load>>

Modem ==
  \/ BootOper \/ BootMode \/ StartSweep \/ SampleModem
  \/ SaveTest \/ SaveOpen \/ SaveHeader \/ SaveRow \/ SaveFlush

-----------------------------------------------------------------------------
(* What happens outside the process *)

\* The user saves the LuCI form, which leaves out a flag that is not set, or edits the file. A
\* file that is open keeps its text when another takes its place.
Commit ==
  /\ commits < MaxCommits
  /\ commits' = commits + 1
  /\ conf' \in Confs
  /\ usr_cfg' = IF scan_usr_cfg_fp = "NULL" \/ InPlace THEN conf' ELSE usr_cfg
  /\ UNCHANGED <<control, net, sampler, status, logic, scan_run_flag, cache, modems, file,
                 scan_usr_cfg_fp, load, process>>

RunSh ==
  /\ run_sh = 1 /\ run_sh' = 0
  /\ iperf' \in {iperf, 1}                 \* no iperf for a modem without an address
  /\ UNCHANGED <<control, net, sampler, status, logic, scan_run_flag, cache, modems, file,
                 config, process>>

Roam ==
  /\ \E i \in Idx \ locked :
       \E t \in Techs : radio' = [radio EXCEPT ![i] = t]
  /\ UNCHANGED <<control, net, sampler, status, logic, scan_run_flag, cache, locked, file,
                 config, load, process>>

Init ==
  /\ cpc = "init_oper" /\ ci = 0 /\ oper_mode = 0 /\ auto_flag = 0
  /\ npc = "unborn" /\ pkt = [uav |-> "OTHER", main |-> "NORMAL"] /\ datagrams = 0
  /\ mpc = "unborn" /\ mi = 0
  /\ info_buf = Blank /\ soiled = TRUE        \* nobody clears it before the first sweep
  /\ scan_run_flag = 0 /\ scan_oper_mode = 0
  /\ g_uav_status = "OTHER" /\ g_main_status = "NORMAL" /\ g_time_std_s = 0
  /\ g_last_uav_status = "OTHER" /\ acked = 0 /\ sysclock = 0
  /\ mode = [i \in Idx |-> "LTE"] /\ oper = [i \in Idx |-> "SIM"]
  /\ locked \in IF MayRoam THEN SUBSET Idx ELSE {Idx}
  /\ radio \in [Idx -> IF MayRoam THEN Techs ELSE {"LTE", "G3"}]
  /\ info_file_fp = "NULL" /\ modem_info_num = 0 /\ header = Blank
  /\ conf \in Confs /\ commits = 0
  /\ scan_usr_cfg_fp = "open" /\ usr_cfg = conf        \* scan_cfg_init opens it
  /\ run_sh = 0 /\ iperf = 0
  /\ process = "running"

Process == process = "running" /\ (Control \/ Net \/ Modem)

Next == Process \/ Commit \/ RunSh \/ Roam

Spec == Init /\ [][Next]_vars

\* The kernel schedules every runnable thread and runs run.sh to its end. Datagrams, commits
\* and roaming are not promised.
Fairness ==
  /\ WF_vars(process = "running" /\ Control)
  /\ WF_vars(process = "running" /\ Modem)
  /\ WF_vars(process = "running" /\ (StoreUav \/ StoreMain \/ StoreTime))
  /\ WF_vars(RunSh)

FairSpec == Spec /\ Fairness

-----------------------------------------------------------------------------
(* Properties *)

\* The modems answer every command, stay where they are put, and the config is readable: the
\* conditions of the properties about what the modems and the rows agree on.
Orderly == AtReliable /\ ~MayRoam /\ \A c \in Confs : c.mode # RET_FAILED

ControlTypeOK ==
  /\ cpc \in ControlLabels /\ ci \in Idx
  /\ oper_mode \in {0, 1, RET_FAILED} /\ auto_flag \in {0, 1}

NetTypeOK ==
  /\ npc \in NetLabels /\ datagrams \in 0 .. MaxDatagrams
  /\ pkt \in [uav : UavStatuses \cup {"OTHER"}, main : MainStatuses \cup {"NORMAL"}]

SamplerTypeOK ==
  /\ mpc \in ModemLabels /\ mi \in Idx
  /\ info_buf \in [Idx -> Techs \cup {"none"}] /\ soiled \in BOOLEAN

GlobalsTypeOK ==
  /\ scan_run_flag \in {0, 1} /\ scan_oper_mode \in {0, 1, RET_FAILED}
  /\ g_uav_status \in UavStatuses \cup {"OTHER"}
  /\ g_last_uav_status \in UavStatuses \cup {"OTHER"}
  /\ g_main_status \in MainStatuses \cup {"NORMAL"}
  /\ g_time_std_s \in 0 .. MaxDatagrams
  /\ acked \in 0 .. MaxDatagrams /\ sysclock \in 0 .. MaxDatagrams

ModemsTypeOK ==
  /\ mode \in [Idx -> Modes] /\ oper \in [Idx -> {"SIM", "NONE"}]
  /\ radio \in [Idx -> Techs] /\ locked \subseteq Idx

FileTypeOK ==
  /\ info_file_fp \in {"NULL", "open", "dangling"} /\ modem_info_num \in 0 .. RowCap
  /\ header \in [Idx -> Modes \cup {"none"}]

WorldTypeOK ==
  /\ conf \in Confs /\ commits \in 0 .. MaxCommits
  /\ scan_usr_cfg_fp \in {"NULL", "open"} /\ usr_cfg \in Confs
  /\ run_sh \in {0, 1} /\ iperf \in {0, 1} /\ process \in Fates

\* Every variable has a value the code can give it.
TypeOK ==
  /\ ControlTypeOK /\ NetTypeOK /\ SamplerTypeOK /\ GlobalsTypeOK
  /\ ModemsTypeOK /\ FileTypeOK /\ WorldTypeOK

\* From the moment a mode switch clears scan_run_flag (line 125) until it sets it again
\* (line 130) the modem thread starts no sweep, whatever the telemetry does meanwhile.
NoSweepStartsWhileSwitching ==
  [][mpc = "idle" /\ mpc' = "sweep" => cpc \notin SwitchLabels]_vars

\* The process never writes the sweep file through a pointer that scan_file_save_file_close
\* has closed or cleared: as long as a sweep ends within the delays of a switch.
NoUseAfterClose == SweepFitsDelay => process = "running"

\* A row written while no mode is being switched, and not the first of its file, was measured
\* entirely on the technologies the file's header names: scan_run_flag is down from before the
\* first mode command until the old file is closed, so of the sweep that was under way only a
\* row of the old file, written during the switch, or the first of the new one can mix two.
\* The old bytes of the stack (scan_modem.c:789) can be in the first row of the first file only.
OnlyEdgeRowsMayDiffer ==
  [][mpc = "row" /\ info_file_fp = "open" /\ cpc \notin SwitchLabels /\ modem_info_num > 0
       /\ Orderly
     => info_buf = header /\ ~soiled]_vars

\* When a sweep ends within the delays of a switch, the first row of a file does too, once a
\* sweep has ended: the first sweep of the thread may append to bytes nobody has cleared.
RowMatchesHeader ==
  [][mpc = "row" /\ info_file_fp = "open" /\ cpc \notin SwitchLabels
       /\ Orderly /\ SweepFitsDelay /\ ~soiled
     => info_buf = header]_vars

\* Between switches, once the modem thread has checked every modem, pModem[i].mode is the
\* technology the modem really has.
CacheCoherent ==
  Orderly /\ Booted /\ cpc \notin SwitchLabels => mode = radio

\* Once the boot check is over, a mode switch that asks for 4G or 3G leaves no modem on the
\* other technology: a modem is skipped only when it is already there.
SwitchReachesModems ==
  [][Orderly /\ Booted
       /\ (\/ cpc = "change_H" /\ Maker[ci] = "HUAWEI"
           \/ cpc = "change_Y" /\ Maker[ci] = "YUGA")
       /\ cpc' \in {"change_H", "change_Y", "status_oper"}
       /\ <<cpc, ci>> # <<cpc, ci>>'
     => radio'[ci] = Target(oper_mode)]_vars

\* At the top of the control loop a takeoff that was acknowledged keeps the sweeps running,
\* through every mode switch since.
ScanArmedInFlight ==
  StatusHolds /\ cpc \in TopLabels /\ g_last_uav_status = "TAKEOFF" => scan_run_flag = 1

\* With no mode switch in between, sweeps run only between a takeoff and the landing after it.
IdleOnGround ==
  StatusHolds /\ cpc \in TopLabels /\ scan_run_flag = 1 => g_last_uav_status = "TAKEOFF"

\* No iperf survives the landing that was acknowledged.
NoIperfOnGround ==
  StatusHolds /\ LaunchFitsDelay /\ cpc \in TopLabels /\ g_last_uav_status # "TAKEOFF"
    => run_sh = 0 /\ iperf = 0

\* On the ground, after a landing that was acknowledged, the scanner neither sweeps nor measures.
QuietOnGround == IdleOnGround /\ NoIperfOnGround

\* The system clock is set from the datagram that announced the takeoff, from a later one, or
\* from the one just before it: the net thread stores the status first and the time last.
ClockLag == cpc \in {"arm", "launch"} => sysclock >= acked - 1

\* When config and telemetry settle, the mode in force settles on the one they ask for. A file
\* without either key would stay open for ever: a save must then rewrite it in place.
DesiredMode == IF conf.auto = 1 /\ g_main_status = "GOBACK" THEN Flip(conf.mode) ELSE conf.mode
Readable == InPlace \/ \A c \in Confs : c.mode # RET_FAILED \/ c.auto # RET_FAILED
ModeConverges == SweepFitsDelay /\ Readable => <>[](scan_oper_mode = DesiredMode)

\* A takeoff or landing that lasts is acknowledged.
StatusAcked ==
  SweepFitsDelay => <>[](g_uav_status # "OTHER" => g_last_uav_status = g_uav_status)

\* scan_logic_control.c:17 says of scan_oper_mode: 0:4G, 1:3G.
OperModeIs4GOr3G == scan_oper_mode \in {0, 1}
=============================================================================
