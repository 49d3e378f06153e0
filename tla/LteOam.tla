--------------------------------- MODULE LteOam ---------------------------------
(***************************************************************************)
(* The operator's settings of an LTE unit, lte_oam.c with the cell         *)
(* selection of lte_cell_sel.c: which operator and band the unit is to     *)
(* imitate, how its modem is set to them, and the scans that borrow the    *)
(* modem meanwhile.                                                        *)
(*                                                                         *)
(* Two threads send commands to the one modem: main, which handles the     *)
(* messages, and the thread that scans.  A handler is a sequence of AT     *)
(* exchanges; the exchanges of the two threads mix freely, and any of them *)
(* may fail.  What a failure does to the rest of the sequence is in its    *)
(* step: how many of the steps after it are skipped.                       *)
(*                                                                         *)
(* When the unit asks for a cell is up to its link control (LteSm).        *)
(***************************************************************************)
EXTENDS OamBands

CONSTANTS
  OamTable,       \* the operators and bands of lte_oam_init
  OamUpsets       \* bound on the requests for a scan and the exchanges that fail, together

CMCC == 0
CUCC == 1

\* lte_oam_init inserts the operators in order, and the modem's two are among those asked for.
ASSUME OamAssumption ==
  /\ {CMCC, CUCC} \subseteq OperSet
  /\ OamTable \in Seq(OperNode) /\ InOrder(OamTable)
  /\ OamUpsets \in Nat

VARIABLES
  cn_oper, band,  \* what the unit is to imitate
  settings,       \* of the modem: operator lock, mode, band
  job, ret,       \* of each thread the exchanges left; whether main's last one succeeded
  goal, old,      \* what main's job is for; the operator and band before it
  heard,          \* pAtCmgrmiOut: the cell of the last report, for both threads
  pbs,            \* strPbsPara: the cell the unit imitates
  sync_var, scan_type, spc, scanType,
  asked,          \* the type of the request the scan thread last took
  settled,        \* the last order: pending or done, and no scan has used the modem since it
                  \* began; otherwise no
  unrestored,     \* the last command to set the LTE mode failed
  upsets          \* of the bound

modemvars == <<settings, job, ret, unrestored, upsets>>
unitvars  == <<cn_oper, band, pbs>>
scanvars  == <<sync_var, scan_type, spc, scanType, asked>>
oamvars   == <<opers, cn_oper, band, settings, job, ret, goal, old, heard, pbs, scanvars, settled, unrestored, upsets>>

NoCell == [oper |-> 255, band |-> 0]
Duplex(b) == IF b >= 33 THEN TDD ELSE FDD
Stop == 9      \* skips all steps that are left

Step(cmd, arg, skip) == <<[cmd |-> cmd, arg |-> arg, skip |-> skip]>>

\* The sequences of a loop, one after the other.
Joined(parts) ==
  LET upto[n \in 0 .. Len(parts)] == IF n = 0 THEN <<>> ELSE upto[n - 1] \o parts[n]
  IN  upto[Len(parts)]

-----------------------------------------------------------------------------
(* The sequences of exchanges; the inquiries between them (AT+CPSI) change nothing and are left out *)

\* Mutant: the operator is not locked.
oam_set_eNB_para_NoLock(o, b) == Step("mode", "LTE", Stop) \o Step("band", b, Stop)

oam_set_eNB_para(o, b) ==
  Step("lock", o, Stop) \o Step("mode", "LTE", Stop) \o Step("band", b, Stop)

\* Every band of every operator, whether or not the operator could be locked.
oam_env_bands_scan ==
  LET SetBands(bands) == [k \in 1 .. Len(bands) |-> [cmd |-> "band", arg |-> bands[k].band, skip |-> 0]]
  IN  Step("mode", "LTE", Stop)
        \o Joined([n \in 1 .. Len(opers) |-> Step("lock", opers[n].oper, 0) \o SetBands(opers[n].bands)])

\* Back to the imitated cell; when the mode or the band fails the report is skipped.
lte_cells_para_acquire ==
  Step("lock", pbs.oper, Stop) \o Step("mode", "LTE", 2) \o Step("band", pbs.band, 1)
    \o Step("cmgrmi", 0, Stop)

lte_cell_select == Step("cmgrmi", 0, Stop) \o Step("build", 0, 0)

\* The GSM cell the phones are sent to: the modem looks for it in GSM mode.
get_rrc_conn_rel_para(o) ==
  IF o \notin {CMCC, CUCC} THEN <<>>
  ELSE Step("lock", o, 0) \o Step("mode", "GSM", 0) \o Step("mode", "LTE", 0)

-----------------------------------------------------------------------------
(* Exchanges *)

Upset == upsets < OamUpsets /\ upsets' = upsets + 1
Doing(t, cmd) == job[t] # <<>> /\ job[t][1].cmd = cmd
Arg(t) == job[t][1].arg
Result(t, ok) == ret' = IF t = "main" THEN ok ELSE ret
Done(t) == job' = [job EXCEPT ![t] = Tail(@)] /\ Result(t, TRUE)

\* cn_operator_lock
LockOperator(t) ==
  /\ Doing(t, "lock") /\ settings' = [settings EXCEPT !.lock = Arg(t)] /\ Done(t)
  /\ UNCHANGED <<opers, unitvars, goal, old, heard, scanvars, settled, unrestored, upsets>>

\* set_preferred_mode
SetMode(t) ==
  /\ Doing(t, "mode") /\ settings' = [settings EXCEPT !.mode = Arg(t)] /\ Done(t)
  /\ unrestored' = (unrestored /\ Arg(t) # "LTE")
  /\ UNCHANGED <<opers, unitvars, goal, old, heard, scanvars, settled, upsets>>

\* switchToLteFdd2100 and the five others, which oam_set_env_band calls
SetBand(t) ==
  /\ Doing(t, "band") /\ settings' = [settings EXCEPT !.band = Arg(t)] /\ Done(t)
  /\ UNCHANGED <<opers, unitvars, goal, old, heard, scanvars, settled, unrestored, upsets>>

\* GetCellsDataFromAtCmd
GetCells(t) ==
  /\ Doing(t, "cmgrmi") /\ settings.mode = "LTE" /\ Done(t)
  /\ heard' = [oper |-> settings.lock, band |-> settings.band]
  /\ UNCHANGED <<opers, unitvars, settings, goal, old, scanvars, settled, unrestored,
                 upsets>>

\* lte_cell_select: the report becomes the unit's cell, and the search for a GSM cell follows.
BuildCell(t) ==
  /\ Doing(t, "build") /\ Result(t, TRUE)
  /\ pbs' = heard
  /\ job' = [job EXCEPT ![t] = Tail(@) \o get_rrc_conn_rel_para(heard.oper)]
  /\ UNCHANGED <<opers, cn_oper, band, settings, goal, old, heard, scanvars, settled,
                 unrestored, upsets>>

\* In GSM mode a report of LTE cells fails of itself.
ExchangeFails(t) ==
  /\ job[t] # <<>> /\ job[t][1].cmd # "build"
  /\ \/ Doing(t, "cmgrmi") /\ settings.mode # "LTE" /\ UNCHANGED upsets
     \/ Upset
  /\ LET rest == Tail(job[t])
         k == job[t][1].skip
     IN  job' = [job EXCEPT ![t] = SubSeq(rest, k + 1, Len(rest))]
  /\ Result(t, FALSE)
  /\ unrestored' = (unrestored \/ (Doing(t, "mode") /\ Arg(t) = "LTE"))
  /\ UNCHANGED <<opers, unitvars, settings, goal, old, heard, scanvars, settled>>

-----------------------------------------------------------------------------
(* Main: a request begins *)

Begin(g, steps) ==
  /\ goal = "none" /\ goal' = g
  /\ old' = IF g = "oper" THEN [oper |-> cn_oper, band |-> band] ELSE NoCell
  /\ job' = [job EXCEPT !["main"] = steps]
  /\ UNCHANGED <<opers, settings, ret, heard, pbs, scanvars, unrestored,
                 upsets>>

Current(o, b) == cn_oper' = o /\ band' = b
Ordered == settled' = IF spc = "scan" THEN "no" ELSE "pending"

\* app_oam_eNB_para_req.  The band 255 asks for the best of the operator, which is made current; then
\* 255 itself is checked, and refused.
ParaReq(o, b) ==
  LET best == BestOfOper(opers, o).band
  IN  /\ IF b = 255
         THEN Current(o, IF best = 0 THEN band ELSE best) /\ Begin("refused", <<>>)
         ELSE /\ Current(o, b)
              /\ IF Offered(opers, o, b) THEN Begin("para", oam_set_eNB_para(o, b))
                 ELSE Begin("refused", <<>>)
      /\ Ordered

\* oam_set_band_req; the same band, or one that is not offered, is refused at once.
BandReq(b) ==
  /\ b # band /\ Offered(opers, cn_oper, b)
  /\ Current(cn_oper, b) /\ Begin("band", Step("band", b, Stop))
  /\ UNCHANGED settled

\* oam_set_oper_req, the switch of the card (SimCtrl) left out.
OperReq(o) ==
  LET best == BestOfOper(opers, o).band
  IN  /\ o # cn_oper /\ best # 0
      /\ Current(o, best) /\ Begin("oper", oam_set_eNB_para(o, best))
      /\ Ordered

\* OP_OAM_MODE_SET_REQ in step: to the other mode than that of the last cell.  The switch of the
\* hardware, which is all that a request out of step does, is in SimCtrl.
ModeReq ==
  LET to   == IF Duplex(pbs.band) = TDD THEN FDD ELSE TDD
      best == BestOfMode(opers, cn_oper, to).band
  IN  /\ best # 0
      /\ Current(cn_oper, best) /\ Begin("mode", oam_set_eNB_para(cn_oper, best))
      /\ Ordered

\* OP_OAM_ENV_SCAN_REQ: the scan runs in main; an interval sets the timer of EnvScanTimeout, which
\* nothing stops.
EnvScanReq ==
  /\ Upset
  /\ goal = "none" /\ goal' = "env"
  /\ job' = [job EXCEPT !["main"] = oam_env_bands_scan]
  /\ settled' = "no"
  /\ UNCHANGED <<opers, unitvars, settings, ret, old, heard, sync_var, scan_type, spc, scanType,
                 asked, unrestored>>

\* lte_cell_select, after a parameter request when its timer has run out, or when the link wants it.
CellGet ==
  /\ Current(cn_oper, band) /\ Begin("cell", lte_cell_select)
  /\ UNCHANGED settled

-----------------------------------------------------------------------------
(* Main: a request ends *)

Finished == goal # "none" /\ job["main"] = <<>>

\* A refused operator is taken back, and its band; a refused band or mode is not.
Finish ==
  /\ Finished
  /\ LET ok == ret /\ goal # "refused"
     IN  /\ IF goal = "oper" /\ ~ok THEN Current(old.oper, old.band) ELSE Current(cn_oper, band)
         /\ settled' = IF goal \in {"env", "cell"} THEN settled
                       ELSE IF ok /\ settled # "no" THEN "done" ELSE "no"
  /\ goal' = "none" /\ old' = NoCell
  /\ UNCHANGED <<opers, modemvars, heard, pbs, scanvars>>

-----------------------------------------------------------------------------
(* The scan thread, and the requests it waits for *)

\* Mutant: the thread is not signalled.
Signalled_None == spc

\* pthread_cond_signal
Signalled == IF spc = "wait" THEN "check" ELSE spc

\* oam_band_cell_scan: a request while another waits is dropped, and accepted all the same.
oam_band_cell_scan(type) ==
  /\ Upset
  /\ IF sync_var < 0 THEN spc' = Signalled /\ sync_var' = 0 /\ scan_type' = type
     ELSE UNCHANGED <<spc, sync_var, scan_type>>

\* oam_timeout_msg_proc: the timer of the environment scan runs out, and is set again.
EnvScanTimeout ==
  /\ goal = "none"
  /\ oam_band_cell_scan("ENV_BANDS_SCAN")
  /\ UNCHANGED <<opers, unitvars, settings, job, ret, unrestored, goal, old, heard, scanType, asked, settled>>

\* OP_OAM_CELLSPARA_SCAN_REQ, and the timer it sets when it has an interval, at any time.
CellsParaReq ==
  /\ goal = "none"
  /\ oam_band_cell_scan("SERV_CELL_SCAN")
  /\ UNCHANGED <<opers, unitvars, settings, job, ret, unrestored, goal, old, heard, scanType, asked, settled>>

\* oam_bands_scan_thread: the test of its loop, with the mutex.
ScanWait ==
  /\ spc = "check" /\ sync_var < 0
  /\ spc' = "wait"
  /\ UNCHANGED <<opers, unitvars, modemvars, goal, old, heard, sync_var, scan_type,
                 scanType, asked, settled>>

ScanTake ==
  /\ spc = "check" /\ sync_var >= 0
  /\ sync_var' = 0 - 1 /\ scanType' = scan_type /\ asked' = scan_type
  /\ spc' = "begin"
  /\ UNCHANGED <<opers, unitvars, modemvars, goal, old, heard, scan_type, settled>>

Dispatched == scanType

ScanBegin ==
  /\ spc = "begin" /\ spc' = "scan"
  /\ scanType' = Dispatched
  /\ job' = [job EXCEPT !["scan"] = IF Dispatched = "ENV_BANDS_SCAN" THEN oam_env_bands_scan
                                    ELSE lte_cells_para_acquire]
  /\ settled' = "no"
  /\ UNCHANGED <<opers, unitvars, settings, ret, goal, old, heard, sync_var, scan_type,
                 asked, unrestored, upsets>>

\* What the scan found is reported to the operator, if it is the imitated cell.
ScanEnd ==
  /\ spc = "scan" /\ job["scan"] = <<>>
  /\ spc' = "check"
  /\ UNCHANGED <<opers, unitvars, modemvars, goal, old, heard, sync_var, scan_type,
                 scanType, asked, settled>>

-----------------------------------------------------------------------------

ListsInit == opers = OamTable

\* The unit's cell is the one of lte_cfg_init.
OamUnitInit ==
  /\ cn_oper = CMCC /\ band = 0
  /\ settings = [lock |-> CMCC, mode |-> "LTE", band |-> 41]
  /\ job = [t \in {"main", "scan"} |-> <<>>] /\ ret = TRUE
  /\ goal = "none" /\ old = NoCell
  /\ heard = NoCell /\ pbs = [oper |-> CUCC, band |-> 3]
  /\ sync_var = 0 - 1 /\ scan_type = "ENV_BANDS_SCAN" /\ spc = "check"
  /\ scanType = "ENV_BANDS_SCAN" /\ asked = scanType
  /\ settled = "no" /\ unrestored = FALSE /\ upsets = 0

OamInit == ListsInit /\ OamUnitInit

Exchange(t) ==
  LockOperator(t) \/ SetMode(t) \/ SetBand(t) \/ GetCells(t) \/ BuildCell(t) \/ ExchangeFails(t)

ScanThread == ScanWait \/ ScanTake \/ ScanBegin \/ ScanEnd \/ Exchange("scan")

OamNext ==
  \/ \E o \in OperSet : OperReq(o) \/ \E b \in {r.band : r \in BandSet} \cup {255} : ParaReq(o, b)
  \/ \E b \in {r.band : r \in BandSet} : BandReq(b)
  \/ ModeReq \/ CellGet \/ Finish
  \/ CellsParaReq \/ EnvScanTimeout \/ EnvScanReq
  \/ Exchange("main")
  \/ ScanThread

OamSpec == OamInit /\ [][OamNext]_oamvars /\ WF_oamvars(ScanThread)

-----------------------------------------------------------------------------
(* Properties *)

\* Every variable has a value the code can give it.
OamTypeOK ==
  /\ cn_oper \in OperSet
  /\ settings.mode \in {"LTE", "GSM"} /\ settings.lock \in OperSet
  /\ goal \in {"none", "refused", "para", "band", "oper", "mode", "env", "cell"}
  /\ spc \in {"check", "wait", "begin", "scan"} /\ sync_var \in {0, 0 - 1}
  /\ settled \in {"no", "pending", "done"}
  /\ goal = "none" => job["main"] = <<>>
  /\ job["scan"] # <<>> => spc = "scan"

\* The cell the unit comes to imitate is one of the operator and the band last ordered, provided that
\* order succeeded and no scan has used the modem since: whatever was refused, restored or asked for
\* in between (lte_oam.c:465, 912, lte_cell_sel.c:1181).
OrderedCell ==
  [][Doing("main", "build") /\ settled = "done" /\ pbs' # pbs
       => pbs' = [oper |-> cn_oper, band |-> band] /\ Offered(opers, cn_oper, band)]_oamvars

\* A scan is of the kind that was asked for when it was taken, whatever is asked for as soon as the
\* mutex is released (lte_oam.c:55-58).
ScanAsAsked == spc = "scan" => scanType = asked

\* When main has done its work the modem is back in LTE mode, unless the command for it failed
\* (lte_cell_sel.c:381).
LteRestored == goal = "none" => settings.mode = "LTE" \/ unrestored

\* A request that was accepted is taken, though the thread may have been scanning, or between its test
\* and its wait, when it came (lte_oam.c:48, 762).
ScanTaken == (sync_var = 0) ~> (sync_var < 0)

\* A scan that was asked for is made, and is of the kind asked for.
ScansServed == []ScanAsAsked /\ ScanTaken

\* Two threads share the modem, and the unit still gets the cell that was ordered: the lists it is
\* chosen from stay in order, the modem returns to LTE, and no report of another cell is taken for it.
CellAsOrdered == [](OamTypeOK /\ BandsInOrder /\ LteRestored) /\ OrderedCell
=============================================================================
