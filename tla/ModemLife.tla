-------------------------------- MODULE ModemLife --------------------------------
(***************************************************************************)
(* The life of a modem under its own thread, modem.c: opened, identified,  *)
(* registered, and closed and opened again when it stays silent, restarts, *)
(* or simply after a while.  An exchange with the modem (AtChannel) is one *)
(* step here: it succeeds, fails, or shows that the modem has restarted.   *)
(* The status is stored in a step of its own.                              *)
(*                                                                         *)
(* One other thread at a time uses the modem, whatever its own thread is   *)
(* doing: it looks at the port before it begins, and may note a restart or *)
(* close the port when it ends.  A closed port is fd 0, which is also a    *)
(* descriptor: closing a modem twice closes the program's standard input,  *)
(* and the next port that is opened gets a descriptor that every exchange  *)
(* takes for a closed one.                                                 *)
(*                                                                         *)
(* ModemStart, which starts the thread, is called by no program here yet;  *)
(* modem_open and ModemClose are.                                          *)
(***************************************************************************)
EXTENDS Naturals

CONSTANTS
  TryCount,       \* tries of ModemCheck and modem_imsi_get (5)
  MaxFailed       \* MAX_SEND_FAILED_NUM

ASSUME TryCountAssumption == TryCount \in Nat \ {0}
ASSUME MaxFailedAssumption == MaxFailed \in Nat

VARIABLES
  iStatus,
  fd,             \* the port is open, as the TModem has it: fd is not 0
  opened,         \* ghost: descriptors of ports the program has open, but for 0
  zero,           \* descriptor 0 is free
  asking, tries,  \* the exchange or the store under way, or none; the tries it has left
  tCheckTime,     \* the time since it was set, in seconds, at most 15
  byFailedCount,
  proved,         \* ghost: the needed exchanges that succeeded since the port was opened
  other,          \* what another thread does with the modem: none, call or reset
  disturbed,      \* ghost: since the modem was last opened, another thread closed it before its
                  \* start was over, or noted a restart when it was closed; or it got descriptor 0
  sick            \* whether an exchange can fail

lifevars == <<iStatus, fd, opened, zero, asking, tries, tCheckTime, byFailedCount, proved, other,
              disturbed, sick>>

IDLE_CHECK_TIME == 10
RESTART_TIME == 15

-----------------------------------------------------------------------------
(* The exchanges of modem_open and modem_hw_init, in their order *)

\* opened and registered are the stores of the status.
After == [AT |-> "ATE", ATE |-> "opened", opened |-> "CMEE", CMEE |-> "CGMI", CGMI |-> "CGMM", CGMM |-> "CGMR",
          CGMR |-> "CNUM", CNUM |-> "CIMI", CIMI |-> "CREG", CREG |-> "registered", registered |-> "none"]
Stores == {"opened", "registered"}

\* A modem that fails one of these is not used; what the others tell is only logged.
Needed == {"AT", "ATE", "CIMI", "CREG"}

TriesOf(cmd) == IF cmd \in {"AT", "CIMI"} THEN TryCount ELSE 1

Ask(cmd) == asking' = cmd /\ tries' = IF cmd = "none" THEN 0 ELSE TriesOf(cmd)

\* Mutant: the port is not closed.
Left_Leak == opened

\* close of ModemClose: the descriptors it leaves open.
Left == IF fd THEN opened - 1 ELSE opened

\* With the port closed already it closes descriptor 0.
ModemClose ==
  /\ fd' = FALSE /\ opened' = Left /\ zero' = (zero \/ ~fd)
  /\ iStatus' = "IDLE" /\ tCheckTime' = 0 /\ byFailedCount' = 0

\* oss_uart_open without the device, or with one that takes no options and is closed again.  Two
\* errors leave it open, a speed or a parity it does not know; modem_init asks for none of these.
oss_uart_fails(n, open) == fd' = open /\ opened' = n

\* The port gets the lowest descriptor that is free.
oss_uart_open(n, z) == fd' = ~z /\ opened' = (IF z THEN n ELSE n + 1) /\ zero' = FALSE

\* modem_init with n descriptors open, and 0 free or not: its port is read from the configuration,
\* and modem_open begins.  Without a port, or when it does not open, the modem stays as it is.
modem_init(n, z, open) ==
  /\ \/ oss_uart_open(n, z) /\ Ask("AT") /\ disturbed' = z
     \/ sick /\ oss_uart_fails(n, open) /\ zero' = z /\ Ask("none") /\ disturbed' = FALSE
  /\ iStatus' = "IDLE" /\ proved' = {}

-----------------------------------------------------------------------------
(* ModemRun, when no exchange is under way *)

RunIdle ==
  /\ asking = "none" /\ iStatus = "IDLE" /\ tCheckTime >= IDLE_CHECK_TIME
  /\ tCheckTime' = 0
  /\ modem_init(opened, zero, fd)
  /\ UNCHANGED <<byFailedCount, other, sick>>

\* Mutant: a modem without a card or a network is left alone.
Reopens_NotOpened == {"RESTART", "REG_IN_NET"}

Reopens == {"RESTART", "OPENED", "REG_IN_NET"}

\* ModemClose, and modem_init at once.
RunReopen ==
  /\ asking = "none" /\ iStatus \in Reopens /\ tCheckTime >= RESTART_TIME
  /\ tCheckTime' = 0 /\ byFailedCount' = 0
  /\ modem_init(Left, zero \/ ~fd, FALSE)
  /\ UNCHANGED <<other, sick>>

-----------------------------------------------------------------------------
(* Exchanges *)

\* Without a port every exchange fails.
Succeeds ==
  /\ asking \notin Stores \cup {"none"} /\ fd
  /\ proved' = proved \cup ({asking} \cap Needed)
  /\ Ask(After[asking])
  /\ UNCHANGED <<iStatus, fd, opened, zero, tCheckTime, byFailedCount, other, disturbed, sick>>

\* modem_hw_init stores the status, whatever others have stored or closed meanwhile.
SetStatus ==
  /\ asking \in Stores
  /\ iStatus' = IF asking = "opened" THEN "OPENED" ELSE "REG_IN_NET"
  /\ Ask(After[asking])
  /\ UNCHANGED <<fd, opened, zero, tCheckTime, byFailedCount, proved, other, disturbed, sick>>

\* The answer has SYSSTART in it: modem_at_cmd_wait_rsp notes the restart, and fails.
Noted(restart) == IF restart THEN "RESTART" ELSE iStatus

Fails(restart) == asking \notin Stores /\ (sick \/ ~fd) /\ (restart => fd)

Retries(restart) ==
  /\ Fails(restart) /\ tries > 1
  /\ tries' = tries - 1
  /\ iStatus' = Noted(restart) /\ tCheckTime' = IF restart THEN 0 ELSE tCheckTime
  /\ UNCHANGED <<fd, opened, zero, asking, byFailedCount, proved, other, disturbed, sick>>

\* The last try of an exchange that is not needed: the next follows.
Skips(restart) ==
  /\ Fails(restart) /\ tries = 1 /\ asking \notin Needed
  /\ iStatus' = Noted(restart) /\ Ask(After[asking])
  /\ tCheckTime' = IF restart THEN 0 ELSE tCheckTime
  /\ UNCHANGED <<fd, opened, zero, byFailedCount, proved, other, disturbed, sick>>

\* modem_open closes a modem that does not answer; a modem without a card, or that is not registered,
\* stays open.
GivesUp(restart) ==
  /\ Fails(restart) /\ tries = 1 /\ asking \in Needed
  /\ Ask("none")
  /\ IF asking \in {"AT", "ATE"} THEN ModemClose
     ELSE /\ iStatus' = Noted(restart)
          /\ tCheckTime' = IF restart \/ asking = "CIMI" THEN 0 ELSE tCheckTime
          /\ UNCHANGED <<fd, opened, zero, byFailedCount>>
  /\ UNCHANGED <<proved, other, disturbed, sick>>

Exchanges ==
  \/ Succeeds \/ SetStatus
  \/ \E restart \in BOOLEAN : Retries(restart) \/ Skips(restart) \/ GivesUp(restart)

-----------------------------------------------------------------------------
(* Calls of other threads *)

\* ModemTextSmsSend, ModemCallHangUp, ModemCheck, or Modem_reset: the port is open when they look.
OtherBegins(op) ==
  /\ other = "none" /\ fd
  /\ other' = op
  /\ UNCHANGED <<iStatus, fd, opened, zero, asking, tries, tCheckTime, byFailedCount, proved,
                 disturbed, sick>>

\* The call may find that the modem has restarted, in an answer it read before the port was closed.
CallEnds ==
  /\ other = "call" /\ other' = "none"
  /\ \/ UNCHANGED <<iStatus, tCheckTime, disturbed>>
     \/ sick /\ iStatus' = "RESTART" /\ tCheckTime' = 0 /\ disturbed' = (disturbed \/ ~fd)
  /\ UNCHANGED <<fd, opened, zero, asking, tries, byFailedCount, proved, sick>>

\* Too many failures close the modem.
modem_at_cmd_fail_proc(restart) ==
  IF byFailedCount + 1 > MaxFailed
  THEN ModemClose /\ disturbed' = (disturbed \/ asking # "none")
  ELSE /\ byFailedCount' = byFailedCount + 1
       /\ iStatus' = Noted(restart) /\ tCheckTime' = IF restart THEN 0 ELSE tCheckTime
       /\ disturbed' = (disturbed \/ (restart /\ ~fd))
       /\ UNCHANGED <<fd, opened, zero>>

\* Modem_reset ends, after ten seconds: it may note a restart too before it counts its failure.
ResetEnds ==
  /\ other = "reset" /\ other' = "none"
  /\ \/ fd /\ UNCHANGED <<iStatus, fd, opened, zero, tCheckTime, byFailedCount, disturbed>>
     \/ /\ sick \/ ~fd
        /\ \E restart \in BOOLEAN : (restart => sick) /\ modem_at_cmd_fail_proc(restart)
  /\ UNCHANGED <<asking, tries, proved, sick>>

\* Another file or socket of the program takes descriptor 0.
ZeroTaken ==
  /\ zero /\ zero' = FALSE
  /\ UNCHANGED <<iStatus, fd, opened, asking, tries, tCheckTime, byFailedCount, proved, other,
                 disturbed, sick>>

Tick ==
  /\ tCheckTime < RESTART_TIME
  /\ tCheckTime' = tCheckTime + 5
  /\ UNCHANGED <<iStatus, fd, opened, zero, asking, tries, byFailedCount, proved, other, disturbed,
                 sick>>

Health ==
  /\ sick' = ~sick
  /\ UNCHANGED <<iStatus, fd, opened, zero, asking, tries, tCheckTime, byFailedCount, proved, other,
                 disturbed>>

\* ModemStart: modem_init, and the thread if the modem has a port.
LifeInit ==
  /\ iStatus = "IDLE" /\ fd = FALSE /\ opened = 0 /\ zero = FALSE /\ asking = "none" /\ tries = 0
  /\ tCheckTime = RESTART_TIME /\ byFailedCount = 0 /\ proved = {}
  /\ other = "none" /\ disturbed = FALSE /\ sick \in BOOLEAN

ModemRun == RunIdle \/ RunReopen

OtherThread == (\E op \in {"call", "reset"} : OtherBegins(op)) \/ CallEnds \/ ResetEnds \/ ZeroTaken

LifeNext == ModemRun \/ Exchanges \/ OtherThread \/ Tick \/ Health

LifeSpec == LifeInit /\ [][LifeNext]_lifevars

-----------------------------------------------------------------------------
(* Properties *)

\* Every variable has a value the code can give it.
LifeTypeOK ==
  /\ iStatus \in {"IDLE", "OPENED", "REG_IN_NET", "RESTART"} /\ other \in {"none", "call", "reset"}
  /\ tries \in 0 .. TryCount /\ (asking = "none") = (tries = 0)
  /\ byFailedCount \in 0 .. MaxFailed /\ tCheckTime \in 0 .. RESTART_TIME

\* The TModem never loses a descriptor: however often the modem is opened, given up, closed under its
\* thread's hands and opened again, one port is open at most, and between two runs never one that the
\* status calls closed (modem.c:258, 292, 723, 901, 918).
OneDescriptor ==
  /\ opened = IF fd THEN 1 ELSE 0
  /\ asking = "none" /\ fd => iStatus # "IDLE"

\* A modem that counts as registered has answered the check, and given its card and its registration, since
\* it was last opened.  Between two runs, the status is that of an open port only if the modem has one;
\* unless another thread closed it while it was started, or noted a restart of a modem that was closed
\* meanwhile: modem_hw_init stores OPENED and REG_IN_NET whatever has happened (modem.c:115-149, 723, 908),
\* also over a restart noted in its course.
StatusProved ==
  /\ iStatus = "REG_IN_NET" => Needed \subseteq proved
  /\ ~disturbed /\ asking = "none" /\ iStatus # "IDLE" => fd

\* What the status of a modem says of its port and of its registration is so, as far as it goes.
StatusTrue == OneDescriptor /\ StatusProved

\* A modem that works again for good is registered again and again, wherever it was when it failed
\* (modem.c:843-925): if no modem is closed twice over, so that its port gets descriptor 0 ever after.
Recovers == <>[](~sick /\ ~zero) => []<>(iStatus = "REG_IN_NET" /\ fd)
=============================================================================
