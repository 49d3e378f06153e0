-------------------------------- MODULE Readings --------------------------------
(***************************************************************************)
(* What the scanner writes down, scan_modem.c: the modems are set up, dial *)
(* in, and are asked for their signal in turn; each answer becomes a       *)
(* column of the row that scan_file.c writes under a heading with one      *)
(* column for every modem.                                                 *)
(*                                                                         *)
(* The threads that share this state are in ScanControl and the exchanges  *)
(* in AtChannel; here is what is made of the answers.                      *)
(***************************************************************************)
EXTENDS Integers, Sequences, FiniteSets

CONSTANTS
  ScanModems,     \* MODEM_NUM - 1
  Levels          \* the levels a modem reports

ASSUME ScanModemsAssumption == ScanModems \in Nat \ {0}
ASSUME LevelsAssumption == Levels \subseteq Nat

VARIABLES
  stage, at,      \* what is being done, to which modem
  pModem,         \* of each modem: isvaild, manu_id, regis_ok
  dialled,        \* the modems udhcpc was started for
  scan_run_flag,
  info_buf,       \* the columns of the row
  modem_info_num, \* rows written, at most 2 are told apart
  answers         \* ghost: what the modems asked in this sweep answered, and how it is written

readvars == <<stage, at, pModem, dialled, scan_run_flag, info_buf, modem_info_num, answers>>

HUAWEI == "HUAWEI"
YUGA == "YUGA"
Garbage == 1
Missing == [type |-> "none", n |-> 0, dBm |-> 0]

-----------------------------------------------------------------------------
(* What an answer is written as, in dBm *)

\* A level of an LTE cell; no number above 97 but 255, unknown, is defined.
Rsrp(n) == IF n \in 0 .. 96 THEN n - 140 ELSE IF n <= 97 THEN -44 ELSE -250

Rscp(n) == IF n \in 0 .. 95 THEN n - 120 ELSE IF n <= 96 THEN -25 ELSE -250

\* scan_modem_signal_quality_info_get_H: CDMA stands for the three 3G technologies whose names end so.
QualityH(type, n) ==
  CASE type = "LTE" -> Rsrp(n) [] type = "CDMA" -> Rscp(n) [] type = "GSM" -> n [] OTHER -> 0

\* scan_modem_signal_quality_info_get_Y
QualityY(n) == IF n = 99 THEN 0 ELSE -113 + 2 * n

-----------------------------------------------------------------------------
(* scan_modem_init, scan_modem_status_check, scan_modem_connet_net *)

NextModem(s, after) ==
  IF at < ScanModems THEN stage' = s /\ at' = at + 1 ELSE stage' = after /\ at' = 1

\* A modem without a port or that does not open is not used; one that does not tell its make is taken
\* for a HUAWEI.
InitModem ==
  /\ stage = "init" /\ NextModem("init", "status")
  /\ \E isvaild \in BOOLEAN, manu \in {HUAWEI, YUGA} :
       pModem' = [pModem EXCEPT ![at].isvaild = isvaild, ![at].manu_id = manu]
  /\ UNCHANGED <<dialled, scan_run_flag, info_buf, modem_info_num, answers>>

\* scan_modem_net_register_check: without an answer the registration is what it was.
CheckModem ==
  /\ stage = "status" /\ NextModem("status", "connect")
  /\ IF pModem[at].isvaild
     THEN \E ok \in BOOLEAN : pModem' = [pModem EXCEPT ![at].regis_ok = ok]
     ELSE UNCHANGED pModem
  /\ UNCHANGED <<dialled, scan_run_flag, info_buf, modem_info_num, answers>>

\* scan_modem_connet_net_H, scan_modem_connet_net_Y: each refuses the other make.
ConnectModem ==
  /\ stage = "connect" /\ NextModem("connect", "loop")
  /\ \/ UNCHANGED dialled
     \/ pModem[at].isvaild /\ pModem[at].regis_ok /\ dialled' = dialled \cup {at}
  /\ UNCHANGED <<pModem, scan_run_flag, info_buf, modem_info_num, answers>>

-----------------------------------------------------------------------------
(* scan_modem_run_pthread *)

\* scan_modem_run_start, scan_modem_run_stop
RunFlag ==
  /\ scan_run_flag' = ~scan_run_flag
  /\ UNCHANGED <<stage, at, pModem, dialled, info_buf, modem_info_num, answers>>

StartSweep ==
  /\ stage = "loop" /\ scan_run_flag
  /\ stage' = "sweep" /\ answers' = <<>>
  /\ UNCHANGED <<at, pModem, dialled, scan_run_flag, info_buf, modem_info_num>>

\* What a modem may answer, as its make is taken to be; or nothing.
AnswersOf(modem) ==
  IF ~modem.isvaild THEN {Missing}
  ELSE {Missing} \cup
       (IF modem.manu_id = HUAWEI
        THEN {[type |-> "NOSERVICE", n |-> 0, dBm |-> QualityH("NOSERVICE", 0)]} \cup
             {[type |-> type, n |-> n, dBm |-> QualityH(type, n)] : type \in {"LTE", "CDMA", "GSM"}, n \in Levels}
        ELSE {[type |-> "CCSQ", n |-> n, dBm |-> QualityY(n)] : n \in Levels})

\* A modem that is not used, or does not answer, adds no column.
AskModem ==
  /\ stage = "sweep" /\ NextModem("sweep", "save")
  /\ \E a \in AnswersOf(pModem[at]) :
       /\ answers' = Append(answers, a)
       /\ info_buf' = IF a = Missing THEN info_buf ELSE Append(info_buf, a.dBm)
  /\ UNCHANGED <<pModem, dialled, scan_run_flag, modem_info_num>>

\* Mutant: the buffer is not cleared.
Cleared_Not == UNCHANGED info_buf

\* memset
Cleared == info_buf' = <<>>

\* scan_file_info_save, and the row's buffer is cleared.
SaveRow ==
  /\ stage = "save" /\ stage' = "loop"
  /\ modem_info_num' = IF modem_info_num = 2 THEN 2 ELSE modem_info_num + 1
  /\ Cleared /\ answers' = <<>>
  /\ UNCHANGED <<at, pModem, dialled, scan_run_flag>>

\* The buffer is on the thread's stack and is not cleared before the first sweep.
ReadInit ==
  /\ stage = "init" /\ at = 1
  /\ pModem = [i \in 1 .. ScanModems |-> [isvaild |-> TRUE, manu_id |-> HUAWEI, regis_ok |-> FALSE]]
  /\ dialled = {} /\ scan_run_flag = FALSE /\ info_buf \in {<<>>, <<Garbage>>}
  /\ modem_info_num = 0 /\ answers = <<>>

ReadNext == InitModem \/ CheckModem \/ ConnectModem \/ RunFlag \/ StartSweep \/ AskModem \/ SaveRow

ReadSpec == ReadInit /\ [][ReadNext]_readvars

-----------------------------------------------------------------------------
(* Properties *)

\* The column of answer k of a sweep: as many as answers were given so far.
Column(given, k) == Cardinality({i \in 1 .. k : given[i] # Missing})

\* From the second row on, the columns of a row are what the modems answered in its own sweep, in
\* their order: up to the first modem that is missing, each stands under its own heading
\* (scan_modem.c:384, 803-820).  After that modem they do not.
ColumnsOfSweep ==
  stage = "save" /\ modem_info_num >= 1 =>
    /\ Len(info_buf) = Column(answers, Len(answers))
    /\ \A k \in DOMAIN answers : answers[k] # Missing => info_buf[Column(answers, k)] = answers[k].dBm

Strongest == [LTE |-> 97, CDMA |-> 96, CCSQ |-> 31]
Known(a) == a.type \in DOMAIN Strongest /\ a.n <= Strongest[a.type]

\* Of two modems of the same technology the one with the stronger signal is not written as the weaker
\* one, and a level that is unknown is not written as one that can be measured
\* (scan_modem.c:408, 418, 471).
StrongerIsHigher ==
  \A i, j \in DOMAIN answers :
    LET a == answers[i]
        b == answers[j]
    IN  a.type = b.type /\ Known(a) =>
          /\ Known(b) /\ a.n <= b.n => a.dBm <= b.dBm
          /\ b.n \in {99, 255} /\ ~Known(b) => b.dBm \notin -140 .. -25

\* A row is what was measured, and tells the strong from the weak.
RowsTrue == ColumnsOfSweep /\ StrongerIsHigher
=============================================================================
