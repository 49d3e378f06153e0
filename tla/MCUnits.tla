-------------------------------- MODULE MCUnits --------------------------------
(***************************************************************************)
(* The parts of the LTE unit for TLC in one run: its link, the bands of    *)
(* its operators, and its settings with the scans; and the start of the    *)
(* GSM unit.  Each behaviour is one of a part, while the others stay as    *)
(* they began.                                                             *)
(***************************************************************************)
EXTENDS LteSm, LteOam, GsmSm

VARIABLE part

Parts == {"link", "oam", "bands", "gsm"}

MCBand(mode, b, p) == [workMode |-> mode, band |-> b, priority |-> p]
MCBands == {MCBand(FDD, 3, 7), MCBand(FDD, 3, 6), MCBand(TDD, 41, 6), MCBand(TDD, 41, 0)}
MCTable == <<[oper |-> 0, bands |-> <<MCBand(TDD, 41, 5)>>],
             [oper |-> 1, bands |-> <<MCBand(FDD, 3, 7), MCBand(TDD, 41, 6)>>]>>

\* A GSM program that has started its unit, for the behaviours of the other parts.
GsmStarted ==
  /\ bts_mode = 3 /\ gstate = "running" /\ gslot = NoSlot /\ timer_id = 0
  /\ event_index = Len(Script[bts_mode]) /\ arfcn = 14 /\ tounit = <<>> /\ tohost = <<>>
  /\ amp = 1 /\ tuned = <<19, 14>> /\ misses = 0 /\ broken = FALSE

\* The lists are those of lte_oam_init, except where their operations are the part that runs.
UnitsInit ==
  /\ part \in Parts
  /\ Init /\ OamUnitInit
  /\ IF part = "bands" THEN BandsInit ELSE ListsInit
  /\ IF part = "gsm" THEN GsmInit ELSE GsmStarted

UnitsOthers(p) ==
  /\ part = p /\ UNCHANGED part
  /\ IF p = "link" THEN TRUE ELSE UNCHANGED vars
  /\ IF p = "oam" THEN TRUE
     ELSE /\ UNCHANGED <<modemvars, unitvars, scanvars, goal, old, heard, settled>>
          /\ IF p = "bands" THEN TRUE ELSE UNCHANGED opers
  /\ IF p = "gsm" THEN TRUE ELSE UNCHANGED gsmvars

UnitsNext ==
  \/ UnitsOthers("link") /\ Next
  \/ UnitsOthers("oam") /\ OamNext
  \/ UnitsOthers("bands") /\ BandsNext
  \/ UnitsOthers("gsm") /\ GsmNext

unitsvars == <<part, vars, oamvars, gsmvars>>

\* The link's timers run down when its unit is silent, the scan thread runs, and so do the GSM
\* program's loop and its unit.
UnitsFairness ==
  /\ WF_vars(part = "link" /\ silent /\ Age("heartbeat"))
  /\ WF_vars(part = "link" /\ silent /\ HeartbeatTimeout)
  /\ WF_oamvars(part = "oam" /\ ScanThread)
  /\ WF_gsmvars(part = "gsm" /\ GsmSteps)

UnitsSpec == UnitsInit /\ [][UnitsNext]_unitsvars /\ UnitsFairness
=============================================================================
