-------------------------------- MODULE SimCtrl --------------------------------
(***************************************************************************)
(* The SIM switch of the LTE unit, util/sim_ctrl.c over util/oss_gpio.c:   *)
(* three cards share one modem behind a switch chip.  Every operation is a *)
(* sequence of pin writes with delays between them; a write may fail,      *)
(* which is only printed, and the program may end between any two: the     *)
(* pins keep their level then, and the next start begins with SimCtrlInit. *)
(*                                                                         *)
(* A card's enable pin and its select pin are the same wire for two of the *)
(* three cards.  lte_oam.c calls the switches, from the operator it takes  *)
(* to be the current one.                                                  *)
(***************************************************************************)
EXTENDS Naturals, Sequences

CONSTANT
  SimFaults       \* bound on the failed writes and the ends of the program

VARIABLES
  high,           \* the pins that are high
  todo,           \* what is left of the operation under way
  gCurSlot,
  cn_oper,        \* the operator of lte_oam
  missed,         \* the pins whose last write failed
  astray,         \* a switch was made from another operator than that of the slot, or a card was
                  \* started or stopped by hand, since SimCtrlInit
  faults

simvars == <<high, todo, gCurSlot, cn_oper, missed, astray, faults>>

Cards == {"CMCC", "CUCC", "CTCC"}
Pins == {0, 1, 2, 3, 4, 6, 11, 37}
MODEM_POWER == 0
MODEM_RESET == 1
CSEL2 == 2
SWDN == 3
CSEL1 == 4
OUT_EN == 11
F_T_SW == 37

EN == [CMCC |-> 6, CUCC |-> 4, CTCC |-> 2]

PinSet(io) == [kind |-> "set", pin |-> io]
PinClear(io) == [kind |-> "clear", pin |-> io]
NameSlot(c) == [kind |-> "slot", card |-> c]

-----------------------------------------------------------------------------
(* The operations *)

\* CmccSelect, CuccSelect, CtccSelect
CardSelect(c) ==
  CASE c = "CMCC" -> <<PinClear(CSEL2), PinSet(OUT_EN), PinClear(CSEL1)>>
    [] c = "CUCC" -> <<PinClear(CSEL2), PinSet(OUT_EN), PinSet(CSEL1)>>
    [] c = "CTCC" -> <<PinClear(OUT_EN), PinClear(CSEL1), PinSet(CSEL2)>>

SimCtrlPowerOn  == PinClear(SWDN)
SimCtrlPowerOff == PinSet(SWDN)
Pulse(io)       == <<PinSet(io), PinClear(io)>>
ModemReset      == Pulse(MODEM_RESET)

\* Mutant: the switch is powered before the card is selected.
CardStart_Early(c) ==
  <<SimCtrlPowerOff, SimCtrlPowerOn>> \o CardSelect(c) \o <<PinSet(EN[c]), NameSlot(c)>>

\* CmccStart, CuccStart, CtccStart
CardStart(c) ==
  <<SimCtrlPowerOff>> \o CardSelect(c) \o <<SimCtrlPowerOn, PinSet(EN[c]), NameSlot(c)>>

CardStop(c) == <<PinClear(EN[c])>>

\* CmccToCucc and the five others
CardToCard(c, d) == CardStop(c) \o CardStart(d) \o ModemReset

\* The pins are made outputs first, which leaves their level alone.
SimCtrlInit ==
  <<PinClear(6), PinClear(4), PinClear(OUT_EN), PinClear(2)>>
    \o CardStart("CMCC") \o ModemReset \o Pulse(MODEM_POWER)

\* sim_cmd_handler: the other commands of the menu, which nothing calls.
Commands ==
  {CardStart(c) : c \in Cards} \cup {CardStop(c) : c \in Cards}
    \cup {<<SimCtrlPowerOn>>, <<SimCtrlPowerOff>>, Pulse(MODEM_POWER), ModemReset}

-----------------------------------------------------------------------------
(* Steps *)

AtRest == todo = <<>>
Fault == faults < SimFaults /\ faults' = faults + 1

\* oss_gpio_pin_set, oss_gpio_pin_clear
PinWrite ==
  /\ ~AtRest /\ todo[1].kind \in {"set", "clear"}
  /\ high' = IF todo[1].kind = "set" THEN high \cup {todo[1].pin} ELSE high \ {todo[1].pin}
  /\ missed' = missed \ {todo[1].pin}
  /\ todo' = Tail(todo)
  /\ UNCHANGED <<gCurSlot, cn_oper, astray, faults>>

\* The shell command of the write fails, and the operation goes on.
PinFail ==
  /\ Fault
  /\ ~AtRest /\ todo[1].kind \in {"set", "clear"}
  /\ missed' = missed \cup {todo[1].pin}
  /\ todo' = Tail(todo)
  /\ UNCHANGED <<high, gCurSlot, cn_oper, astray>>

SlotNamed ==
  /\ ~AtRest /\ todo[1].kind = "slot"
  /\ gCurSlot' = todo[1].card
  /\ todo' = Tail(todo)
  /\ UNCHANGED <<high, cn_oper, missed, astray, faults>>

\* oam_set_oper_req: the switch from the operator it takes to be current.  When a modem setting
\* fails afterwards that operator is restored, and the card is not.
OperSet(d, ok) ==
  /\ AtRest /\ d # cn_oper
  /\ todo' = CardToCard(cn_oper, d)
  /\ cn_oper' = IF ok THEN d ELSE cn_oper
  /\ astray' = (astray \/ cn_oper # gCurSlot)
  /\ UNCHANGED <<high, gCurSlot, missed, faults>>

\* app_oam_eNB_para_req, and lte_oam_init with the IMSI of the card: an operator, no switch.
OperTold(d) ==
  /\ AtRest
  /\ cn_oper' = d
  /\ UNCHANGED <<high, todo, gCurSlot, missed, astray, faults>>

Command ==
  /\ AtRest
  /\ \E s \in Commands : todo' = s
  /\ astray' = TRUE
  /\ UNCHANGED <<high, gCurSlot, cn_oper, missed, faults>>

\* FDDtoTDD, TDDtoFDD
ModeSwitch ==
  /\ AtRest
  /\ todo' \in {<<PinSet(F_T_SW)>>, <<PinClear(F_T_SW)>>}
  /\ UNCHANGED <<high, gCurSlot, cn_oper, missed, astray, faults>>

\* The program ends and starts again.
SimRestart ==
  /\ Fault
  /\ todo' = SimCtrlInit
  /\ gCurSlot' = "CMCC" /\ cn_oper' = "CMCC" /\ astray' = FALSE
  /\ UNCHANGED <<high, missed>>

\* The levels before the first start are those the board gives the pins.
SimInit ==
  /\ high \in {{}, {EN["CUCC"], OUT_EN}, Pins}
  /\ todo = SimCtrlInit
  /\ gCurSlot = "CMCC" /\ cn_oper = "CMCC"
  /\ missed = {} /\ astray = FALSE /\ faults = 0

SimNext ==
  \/ PinWrite \/ PinFail \/ SlotNamed
  \/ \E d \in Cards : OperTold(d) \/ \E ok \in BOOLEAN : OperSet(d, ok)
  \/ Command \/ ModeSwitch \/ SimRestart

SimSpec == SimInit /\ [][SimNext]_simvars

-----------------------------------------------------------------------------
(* Properties *)

\* Every variable has a value the code can give it.
SimTypeOK ==
  /\ high \subseteq Pins /\ missed \subseteq Pins
  /\ todo \in Seq([kind : {"set", "clear"}, pin : Pins] \cup [kind : {"slot"}, card : Cards])
  /\ gCurSlot \in Cards /\ cn_oper \in Cards /\ astray \in BOOLEAN

\* The levels that give the modem card c and no other (sim_ctrl.c:62-81).
Shown(c) == (high \cap {2, 4, 6}) = {EN[c]} /\ (OUT_EN \in high <=> c # "CTCC")

\* After a switch, a restart in the middle of one included, the modem has the card of gCurSlot and no
\* other is enabled, provided the switches began at the card they named and the last write of each
\* pin was done (sim_ctrl.c:162, lte_oam.c:899).
CardShown == AtRest /\ missed = {} /\ ~astray => Shown(gCurSlot) /\ SWDN \notin high

\* A selecting pin rises only while the switch is down: the modem never sees one card turn into
\* another, though the stop of a card already lowers one (sim_ctrl.c:162-169, 191).
SelectedDown ==
  [][missed = {} /\ (high' \ high) \cap {CSEL1, CSEL2, OUT_EN} # {} => SWDN \in high]_simvars

\* One card at a time: at rest the one that was asked for, and in between none that turns into another.
CardsApart == []CardShown /\ SelectedDown
=============================================================================
