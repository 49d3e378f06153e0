------------------------------- MODULE MCLibrary -------------------------------
(***************************************************************************)
(* The parts of the library, of the scanner and of the unit that share no  *)
(* state, for TLC in one run: each behaviour is one of a part, while the   *)
(* others stay as they began.                                              *)
(***************************************************************************)
EXTENDS OssTimer, OssTick, MsgRing, DList, OssNet, SimCtrl, ConfigFile, ModemLife, Readings,
        MCCellSel

VARIABLE part

Parts == {"timer", "tick", "ring", "list", "net", "sim", "config", "life", "readings", "cell"}

MCLine(kind, k, v) == [kind |-> kind, key |-> k, value |-> v]
MCFiles ==
  {<<MCLine("item", "udpPort", 65537), MCLine("comment", "uartPort", 1), MCLine("item", "uartPort", 2)>>,
   <<MCLine("other", "udpPort", 1), MCLine("item", "uartPort", 1)>>,
   <<MCLine("item", "udpPort", 1), MCLine("item", "uartPort", 1), MCLine("item", "uartPort", 2)>>}

\* Of the parts that begin in several ways, the way of those that are not run.
LibInit ==
  /\ part \in Parts
  /\ Init /\ TickInit /\ RingInit /\ ListInit /\ NetInit
  /\ SimInit /\ (part # "sim" => high = {})
  /\ CfgInit /\ rkey = "udpPort" /\ wvalue = 2 /\ (part # "config" => cfgfile = CHOOSE f \in CfgFiles : TRUE)
  /\ LifeInit /\ (part # "life" => sick)
  /\ CellInit
  /\ ReadInit /\ (part # "readings" => info_buf = <<>>)

Others(p) ==
  /\ part = p /\ UNCHANGED part
  /\ IF p = "timer" THEN TRUE ELSE UNCHANGED vars
  /\ IF p = "tick" THEN TRUE ELSE UNCHANGED tickvars
  /\ IF p = "ring" THEN TRUE ELSE UNCHANGED ringvars
  /\ IF p = "list" THEN TRUE ELSE UNCHANGED listvars
  /\ IF p = "net" THEN TRUE ELSE UNCHANGED netvars
  /\ IF p = "sim" THEN TRUE ELSE UNCHANGED simvars
  /\ IF p = "config" THEN TRUE ELSE UNCHANGED cfgvars
  /\ IF p = "life" THEN TRUE ELSE UNCHANGED lifevars
  /\ IF p = "readings" THEN TRUE ELSE UNCHANGED readvars
  /\ IF p = "cell" THEN TRUE ELSE UNCHANGED cellvars

LibNext ==
  \/ Others("timer") /\ Next
  \/ Others("tick") /\ TickNext
  \/ Others("ring") /\ RingNext
  \/ Others("list") /\ ListNext
  \/ Others("net") /\ NetNext
  \/ Others("sim") /\ SimNext
  \/ Others("config") /\ CfgNext
  \/ Others("life") /\ LifeNext
  \/ Others("readings") /\ ReadNext
  \/ Others("cell") /\ CellNext

libvars == <<part, vars, tickvars, ringvars, listvars, netvars, simvars, cfgvars, lifevars, readvars, cellvars>>

\* The clock signals and is scanned, calls of NetRecvMsg go on, and so do a modem's thread, its
\* exchanges and its clock.
LibFairness ==
  /\ WF_tickvars(part = "tick" /\ Signal) /\ WF_tickvars(part = "tick" /\ oss_timer_scan)
  /\ WF_netvars(part = "net" /\ NetRecvMsg)
  /\ WF_lifevars(part = "life" /\ ModemRun) /\ WF_lifevars(part = "life" /\ Exchanges)
  /\ WF_lifevars(part = "life" /\ Tick)

LibSpec == LibInit /\ [][LibNext]_libvars /\ LibFairness

\* Every part is in order: its variables have values the code can give them, a timer that is set finds a slot
\* (oss_time.c:88), a list is linked through all its nodes (dlist.c:118-246), and a session is in the table from
\* its accept to its close (oss_net.c:845, 869).
LibraryInOrder ==
  /\ Room
  /\ TypeOK /\ ScannedInTime /\ RingTypeOK /\ SimTypeOK /\ CfgTypeOK /\ LifeTypeOK
  /\ ListTypeOK /\ Linked /\ TraverseEnds
  /\ NetTypeOK /\ SessionsListed
=============================================================================
