------------------------------ MODULE DeviceProofs ------------------------------
(***************************************************************************)
(* Proofs about the devices and the files of a unit: the life of a modem   *)
(* (ModemLife), whose status tells of its port and registration, for any   *)
(* number of tries and of failures that are let pass; the configuration    *)
(* files (ConfigFile), whose values a writer keeps, for files of any lines *)
(* and any keys; the SIM switch (SimCtrl), which shows the modem one card, *)
(* for any number of failed writes and of restarts; the rows of readings   *)
(* (Readings), for any number of modems and any levels; and the cell that  *)
(* is chosen from a modem's report (CellSel), for any reports.             *)
(***************************************************************************)
EXTENDS ModemLife, ConfigFile, SimCtrl, Readings, CellSel, Recursion, FiniteSetTheorems,
        SequenceTheorems, WellFoundedInduction, TLAPS

-----------------------------------------------------------------------------
(* ModemLife *)

Late == {"CMEE", "CGMI", "CGMM", "CGMR", "CNUM", "CIMI", "CREG"}
Cmds == {"AT", "ATE"} \cup Late
Asked == Cmds \cup Stores \cup {"none"}

\* The exchanges before the one under way that cannot be done without have succeeded; once the status
\* was stored first, an open port is not taken for a closed one.  Undisturbed, a modem that is being
\* started is open.
Opening ==
  /\ asking \in Asked
  /\ asking \in Asked \ {"none", "AT"} => "AT" \in proved
  /\ asking \in Late \cup Stores => "ATE" \in proved
  /\ asking \in {"CREG", "registered"} => "CIMI" \in proved
  /\ asking = "registered" => "CREG" \in proved
  /\ asking \in Late \cup {"registered", "none"} /\ fd => iStatus # "IDLE"
  /\ ~disturbed /\ asking # "none" => fd

LifeTypes == LifeTypeOK /\ fd \in BOOLEAN /\ tCheckTime \in {0, 5, 10, 15}

LifeInv == LifeTypes /\ Opening /\ OneDescriptor /\ StatusProved

LEMMA TriesNat == \A cmd \in Cmds \cup Stores : TriesOf(cmd) \in 1 .. TryCount
  BY TryCountAssumption DEF TriesOf

LEMMA LifeZeros == 0 \in 0 .. TryCount /\ 0 \in 0 .. MaxFailed /\ 0 \in 0 .. RESTART_TIME
  BY TryCountAssumption, MaxFailedAssumption DEF RESTART_TIME

LEMMA AfterCmds == \A cmd \in Cmds \cup Stores : After[cmd] \in Asked
  BY DEF After, Cmds, Late, Stores, Asked

\* A modem whose port is closed, or was just opened.
LEMMA LifeInitStep ==
  ASSUME LifeInv, NEW n \in {0}, NEW z, modem_init(n, z, FALSE), tCheckTime' = 0,
         byFailedCount' \in 0 .. MaxFailed, other' = other
  PROVE  LifeInv'
<1>1. /\ iStatus' = "IDLE"
      /\ \/ /\ asking' = "AT" /\ tries' = TriesOf("AT") /\ fd' = ~z /\ disturbed' = z
            /\ opened' = IF z THEN n ELSE n + 1
         \/ asking' = "none" /\ tries' = 0 /\ fd' = FALSE /\ opened' = n
  <2>1. CASE oss_uart_open(n, z) /\ Ask("AT") /\ disturbed' = z
    BY <2>1, Zenon DEF modem_init, oss_uart_open, Ask
  <2>2. CASE oss_uart_fails(n, FALSE) /\ Ask("none")
    BY <2>2, Zenon DEF modem_init, oss_uart_fails, Ask
  <2> QED
    BY <2>1, <2>2, Zenon DEF modem_init
<1>2. tries' \in 0 .. TryCount /\ (asking' = "none") = (tries' = 0)
  <2>1. TriesOf("AT") \in 0 .. TryCount /\ TriesOf("AT") # 0
    BY TryCountAssumption DEF TriesOf
  <2> QED
    BY <1>1, <2>1, LifeZeros
<1>3. fd' \in BOOLEAN /\ opened' = IF fd' THEN 1 ELSE 0
  <2>1. n = 0 /\ n + 1 = 1
    OBVIOUS
  <2> QED
    BY <1>1, <2>1, Zenon
<1>4. LifeTypes'
  <2>1. other' \in {"none", "call", "reset"} /\ tCheckTime' \in 0 .. RESTART_TIME
    BY LifeZeros DEF LifeInv, LifeTypes, LifeTypeOK
  <2> QED
    BY <1>1, <1>2, <1>3, <2>1 DEF LifeTypes, LifeTypeOK
<1>5. asking' \in {"AT", "none"} /\ (asking' = "none" => ~fd') /\ (~disturbed' /\ asking' # "none" => fd')
  <2>1. CASE asking' = "AT" /\ fd' = ~z /\ disturbed' = z
    <3>1. ~disturbed' => fd'
      BY <2>1, Zenon
    <3>2. asking' # "none"
      BY <2>1
    <3> QED
      BY <2>1, <3>1, <3>2, Zenon
  <2>2. CASE asking' = "none" /\ fd' = FALSE
    BY <2>2, Zenon
  <2> QED
    BY <1>1, <2>1, <2>2, Zenon
<1>6. Opening'
  BY <1>1, <1>5 DEF Opening, Asked, Cmds, Late, Stores
<1>7. OneDescriptor' /\ StatusProved'
  BY <1>1, <1>3, <1>5 DEF OneDescriptor, StatusProved
<1> QED
  BY <1>4, <1>6, <1>7 DEF LifeInv

LEMMA RunStep ==
  ASSUME LifeInv, ModemRun
  PROVE  LifeInv'
<1>1. CASE RunIdle
  <2>1. fd = FALSE /\ opened = 0
    BY <1>1 DEF LifeInv, OneDescriptor, RunIdle, LifeTypes
  <2>2. modem_init(opened, zero, FALSE)
    BY <1>1, <2>1 DEF RunIdle
  <2> QED
    BY <1>1, <2>1, <2>2, LifeInitStep DEF RunIdle, LifeInv, LifeTypes, LifeTypeOK
<1>2. CASE RunReopen
  <2>1. Left = 0
    BY <1>2 DEF LifeInv, OneDescriptor, Left
  <2>2. byFailedCount' \in 0 .. MaxFailed
    BY <1>2, LifeZeros DEF RunReopen
  <2> QED
    BY <1>2, <2>1, <2>2, LifeInitStep DEF RunReopen
<1> QED
  BY <1>1, <1>2 DEF ModemRun

\* What holds of the next exchange when the one under way was done or can be done without.
LEMMA GoesOnStep ==
  ASSUME LifeInv, asking \in Cmds, Ask(After[asking]),
         iStatus' \in {iStatus, "RESTART"}, iStatus' # iStatus => fd,
         asking \in Needed => proved' = proved \cup {asking},
         proved' \in {proved, proved \cup {asking}},
         UNCHANGED <<fd, opened, byFailedCount, other, disturbed>>, tCheckTime' \in {tCheckTime, 0}
  PROVE  LifeInv'
<1>1. asking' = After[asking] /\ asking' \in Asked /\ asking' # "none"
  BY AfterCmds DEF Ask, After, Cmds, Late, Stores
<1>2. tries' \in 0 .. TryCount /\ tries' # 0
  BY <1>1, TriesNat, TryCountAssumption DEF Ask, Asked
<1>3. LifeTypes'
  BY <1>1, <1>2 DEF LifeInv, LifeTypes, LifeTypeOK, RESTART_TIME
<1>4. Opening'
  <2>1. asking \in {"AT", "ATE"} \cup Late
    BY DEF Cmds
  <2> QED
    BY <1>1, <2>1 DEF LifeInv, Opening, After, Needed, Cmds, Late, Stores, Asked
<1>5. OneDescriptor'
  BY <1>1 DEF LifeInv, OneDescriptor
<1>6. StatusProved'
  BY <1>1 DEF LifeInv, StatusProved
<1> QED
  BY <1>3, <1>4, <1>5, <1>6 DEF LifeInv

\* A status is stored.
LEMMA SetStatusStep ==
  ASSUME LifeInv, SetStatus
  PROVE  LifeInv'
<1>1. asking' = After[asking] /\ asking' \in {"CMEE", "none"} /\ asking \in Stores
  BY DEF SetStatus, Ask, After, Stores
<1>2. tries' \in 0 .. TryCount /\ (asking' = "none") = (tries' = 0)
  <2>1. TriesOf("CMEE") \in 1 .. TryCount
    BY TriesNat DEF Cmds, Late
  <2> QED
    BY <1>1, <2>1, LifeZeros, TryCountAssumption DEF SetStatus, Ask
<1>3. LifeTypes'
  <2>1. iStatus' \in {"OPENED", "REG_IN_NET"} /\ UNCHANGED <<fd, tCheckTime, byFailedCount, other>>
    BY DEF SetStatus
  <2> QED
    BY <1>2, <2>1 DEF LifeInv, LifeTypes, LifeTypeOK
<1>4. asking = "registered" => Needed \subseteq proved
  BY DEF LifeInv, Opening, Needed, Asked, Stores
<1>5. iStatus' # "IDLE" /\ (iStatus' = "REG_IN_NET" => asking = "registered")
  BY DEF SetStatus, Stores
<1>6. Opening'
  BY <1>1, <1>5 DEF LifeInv, Opening, SetStatus, Cmds, Late, Stores, Asked
<1>7. OneDescriptor' /\ StatusProved'
  BY <1>1, <1>4, <1>5 DEF LifeInv, Opening, OneDescriptor, StatusProved, SetStatus, Stores
<1> QED
  BY <1>3, <1>6, <1>7 DEF LifeInv

\* The port is closed: by the modem's own thread, that gives up, or by another.
LEMMA LifeCloseStep ==
  ASSUME LifeInv, ModemClose, other' \in {"none", "call", "reset"}, proved' = proved,
         \/ asking' = "none" /\ tries' = 0
         \/ UNCHANGED <<asking, tries>> /\ disturbed' = (disturbed \/ asking # "none")
  PROVE  LifeInv'
<1>1. LifeTypes'
  BY LifeZeros DEF LifeInv, LifeTypes, LifeTypeOK, ModemClose
<1>2. Opening' /\ StatusProved'
  BY DEF LifeInv, Opening, StatusProved, ModemClose, Cmds, Late, Stores, Asked
<1>3. OneDescriptor'
  BY DEF LifeInv, OneDescriptor, ModemClose, Left, LifeTypes
<1> QED
  BY <1>1, <1>2, <1>3 DEF LifeInv

\* A restart may be noted of an open port, or of one that others have closed; nothing else changes.
LEMMA NotedStep ==
  ASSUME LifeInv, NEW restart \in BOOLEAN, iStatus' = Noted(restart),
         tCheckTime' \in {tCheckTime, 0}, byFailedCount' \in 0 .. MaxFailed,
         other' \in {"none", "call", "reset"}, UNCHANGED <<fd, opened, asking, proved>>,
         tries' \in 0 .. TryCount, (tries' = 0) = (tries = 0),
         disturbed' <=> (disturbed \/ (restart /\ ~fd))
  PROVE  LifeInv'
<1>1. LifeTypes'
  BY LifeZeros DEF LifeInv, LifeTypes, LifeTypeOK, Noted
<1>2. Opening'
  BY DEF LifeInv, Opening, Noted
<1>3. OneDescriptor' /\ StatusProved'
  BY DEF LifeInv, Opening, OneDescriptor, StatusProved, Noted
<1> QED
  BY <1>1, <1>2, <1>3 DEF LifeInv

LEMMA ExchangeStep ==
  ASSUME LifeInv, Exchanges
  PROVE  LifeInv'
<1>0. asking # "none" /\ asking \notin Stores => asking \in Cmds
  BY DEF LifeInv, Opening, Asked
<1>1. CASE Succeeds
  <2>1. proved' \in {proved, proved \cup {asking}} /\ (asking \in Needed => proved' = proved \cup {asking})
    BY <1>1 DEF Succeeds
  <2> QED
    BY <1>0, <1>1, <2>1, GoesOnStep DEF Succeeds
<1>2. ASSUME NEW restart \in BOOLEAN, Retries(restart)
      PROVE  LifeInv'
  <2>1. tries' \in 0 .. TryCount /\ tries' # 0 /\ tries # 0
    <3>1. tries \in 0 .. TryCount
      BY DEF LifeInv, LifeTypes, LifeTypeOK
    <3>2. tries > 1 /\ tries' = tries - 1
      BY <1>2 DEF Retries
    <3> QED
      BY <3>1, <3>2, TryCountAssumption
  <2>2. tCheckTime' \in {tCheckTime, 0} /\ (disturbed' <=> (disturbed \/ (restart /\ ~fd)))
    BY <1>2, Zenon DEF Retries, Fails
  <2>3. byFailedCount' \in 0 .. MaxFailed /\ other' \in {"none", "call", "reset"}
    BY <1>2 DEF Retries, LifeInv, LifeTypes, LifeTypeOK
  <2> QED
    BY <1>2, <2>1, <2>2, <2>3, NotedStep DEF Retries
<1>3. ASSUME NEW restart \in BOOLEAN, Skips(restart)
      PROVE  LifeInv'
  <2>1. asking \in Cmds
    BY <1>0, <1>3 DEF LifeInv, LifeTypes, LifeTypeOK, Skips, Fails
  <2>2. iStatus' \in {iStatus, "RESTART"} /\ (iStatus' # iStatus => fd)
    BY <1>3 DEF Noted, Skips, Fails
  <2> QED
    BY <1>3, <2>1, <2>2, GoesOnStep DEF Skips
<1>4. ASSUME NEW restart \in BOOLEAN, GivesUp(restart)
      PROVE  LifeInv'
  <2>1. asking' = "none" /\ tries' = 0 /\ UNCHANGED <<proved, other, disturbed>>
    BY <1>4 DEF GivesUp, Ask
  <2>2. other' \in {"none", "call", "reset"}
    BY <2>1 DEF LifeInv, LifeTypes, LifeTypeOK
  <2>3. CASE asking \in {"AT", "ATE"}
    BY <1>4, <2>1, <2>2, <2>3, LifeCloseStep DEF GivesUp
  <2>4. CASE asking \in {"CIMI", "CREG"}
    <3>1. iStatus' = Noted(restart) /\ UNCHANGED <<fd, opened, byFailedCount>> /\ tCheckTime' \in {tCheckTime, 0}
      BY <1>4, <2>4 DEF GivesUp
    <3>2. restart => fd
      BY <1>4 DEF GivesUp, Fails
    <3>3. LifeTypes'
      BY <2>1, <2>2, <3>1, LifeZeros DEF LifeInv, LifeTypes, LifeTypeOK, Noted
    <3>4. Opening'
      BY <2>1, <2>4, <3>1 DEF LifeInv, Opening, Noted, Asked, Cmds, Late, Stores
    <3>5. OneDescriptor' /\ StatusProved'
      BY <2>1, <2>4, <3>1, <3>2 DEF LifeInv, Opening, OneDescriptor, StatusProved, Noted, Late
    <3> QED
      BY <3>3, <3>4, <3>5 DEF LifeInv
  <2> QED
    BY <1>4, <2>3, <2>4 DEF GivesUp, Needed
<1>5. CASE SetStatus
  BY <1>5, SetStatusStep
<1> QED
  BY <1>1, <1>2, <1>3, <1>4, <1>5 DEF Exchanges

\* A step that changes nothing the invariant speaks of but the time, or what another thread does.
LEMMA LifeQuiet ==
  ASSUME LifeInv, UNCHANGED <<iStatus, fd, opened, asking, tries, byFailedCount, proved, disturbed>>,
         other' \in {"none", "call", "reset"}, tCheckTime' \in {0, 5, 10, 15}
  PROVE  LifeInv'
<1>1. LifeTypes'
  BY DEF LifeInv, LifeTypes, LifeTypeOK, RESTART_TIME
<1>2. Opening' /\ OneDescriptor' /\ StatusProved'
  BY DEF LifeInv, Opening, OneDescriptor, StatusProved
<1> QED
  BY <1>1, <1>2 DEF LifeInv

LEMMA OtherStep ==
  ASSUME LifeInv, OtherThread
  PROVE  LifeInv'
<1>1. ASSUME NEW op \in {"call", "reset"}, OtherBegins(op) PROVE LifeInv'
  BY <1>1, LifeQuiet DEF OtherBegins, LifeInv, LifeTypes
<1>2. CASE CallEnds
  <2>1. CASE UNCHANGED <<iStatus, tCheckTime, disturbed>>
    BY <1>2, <2>1, LifeQuiet DEF CallEnds, LifeInv, LifeTypes
  <2>2. CASE iStatus' = "RESTART" /\ tCheckTime' = 0 /\ disturbed' = (disturbed \/ ~fd)
    <3>1. iStatus' = Noted(TRUE) /\ (disturbed' <=> (disturbed \/ (TRUE /\ ~fd)))
      BY <2>2 DEF Noted
    <3> QED
      BY <1>2, <2>2, <3>1, NotedStep DEF CallEnds, LifeInv, LifeTypes, LifeTypeOK
  <2> QED
    BY <1>2, <2>1, <2>2 DEF CallEnds
<1>3. CASE ResetEnds
  <2>1. CASE UNCHANGED <<iStatus, fd, opened, zero, tCheckTime, byFailedCount, disturbed>>
    BY <1>3, <2>1, LifeQuiet DEF ResetEnds, LifeInv, LifeTypes
  <2>2. ASSUME NEW restart \in BOOLEAN, modem_at_cmd_fail_proc(restart) PROVE LifeInv'
    <3>1. CASE byFailedCount + 1 > MaxFailed
      BY <1>3, <2>2, <3>1, LifeCloseStep DEF ResetEnds, modem_at_cmd_fail_proc
    <3>2. CASE ~(byFailedCount + 1 > MaxFailed)
      <4>1. byFailedCount' \in 0 .. MaxFailed
        BY <2>2, <3>2, MaxFailedAssumption DEF modem_at_cmd_fail_proc, LifeInv, LifeTypes, LifeTypeOK
      <4>2. tCheckTime' \in {tCheckTime, 0} /\ (disturbed' <=> (disturbed \/ (restart /\ ~fd)))
        BY <2>2, <3>2, Zenon DEF modem_at_cmd_fail_proc
      <4>3. iStatus' = Noted(restart) /\ UNCHANGED <<fd, opened>>
        BY <2>2, <3>2 DEF modem_at_cmd_fail_proc
      <4> QED
        BY <1>3, <4>1, <4>2, <4>3, NotedStep DEF ResetEnds, LifeInv, LifeTypes, LifeTypeOK
    <3> QED
      BY <3>1, <3>2
  <2> QED
    BY <1>3, <2>1, <2>2 DEF ResetEnds
<1>4. CASE ZeroTaken
  BY <1>4, LifeQuiet DEF ZeroTaken, LifeInv, LifeTypes, LifeTypeOK
<1> QED
  BY <1>1, <1>2, <1>3, <1>4 DEF OtherThread

LEMMA ClockStep ==
  ASSUME LifeInv, Tick \/ Health \/ UNCHANGED lifevars
  PROVE  LifeInv'
<1>1. CASE Tick
  <2>1. tCheckTime' \in {0, 5, 10, 15}
    BY <1>1 DEF Tick, LifeInv, LifeTypes, RESTART_TIME
  <2> QED
    BY <1>1, <2>1, LifeQuiet DEF Tick, LifeInv, LifeTypes, LifeTypeOK
<1>2. CASE Health \/ UNCHANGED lifevars
  BY <1>2, LifeQuiet DEF Health, lifevars, LifeInv, LifeTypes, LifeTypeOK
<1> QED
  BY <1>1, <1>2

LEMMA LifeInvariant == LifeSpec => []LifeInv
<1>1. LifeInit => LifeInv
  <2> SUFFICES ASSUME LifeInit
               PROVE  LifeInv
    OBVIOUS
  <2>1. tCheckTime = 15 /\ tCheckTime \in 0 .. RESTART_TIME
    BY DEF LifeInit, RESTART_TIME
  <2>2. LifeTypes
    BY <2>1, LifeZeros DEF LifeInit, LifeTypes, LifeTypeOK
  <2>3. Opening /\ OneDescriptor /\ StatusProved
    BY DEF LifeInit, Opening, OneDescriptor, StatusProved, Asked, Cmds, Late, Stores
  <2> QED
    BY <2>2, <2>3 DEF LifeInv
<1>2. LifeInv /\ [LifeNext]_lifevars => LifeInv'
  BY RunStep, ExchangeStep, OtherStep, ClockStep DEF LifeNext
<1> QED
  BY <1>1, <1>2, PTL DEF LifeSpec

\* Every variable of a modem's life has a value the code can give it.
THEOREM LifeTypeCorrect == LifeSpec => []LifeTypeOK
<1>1. LifeInv => LifeTypeOK
  BY DEF LifeInv, LifeTypes
<1> QED
  BY <1>1, LifeInvariant, PTL

\* The status of a modem is true of its registration, and of its port unless another thread closes the
\* modem under its start; and a port is never lost, however often the modem fails, restarts, is closed by
\* others and is opened again (modem.c:115-149, 258, 292, 723, 901, 918).
THEOREM StatusIsTrue == LifeSpec => []StatusTrue
<1>1. LifeInv => StatusTrue
  BY DEF LifeInv, StatusTrue
<1> QED
  BY <1>1, LifeInvariant, PTL

-----------------------------------------------------------------------------
(* ConfigFile: what a file gives for a key *)

\* Line n of f is an item of key k.
Hit(f, n, k) == f[n].kind = "item" /\ f[n].key = k

\* The first n lines of f give v for key k.
Gives(f, n, k, v) ==
  \/ v = NoValue /\ \A m \in 1 .. n : ~Hit(f, m, k)
  \/ \E m \in 1 .. n : Hit(f, m, k) /\ v = f[m].value /\ \A o \in 1 .. m - 1 : ~Hit(f, o, k)

LEMMA LeastHit ==
  ASSUME NEW S, S \subseteq Nat, S # {}
  PROVE  \E n \in S : \A o \in S : n <= o
<1> DEFINE Less == {ss \in Nat \X Nat : ss[1] < ss[2]}
<1>1. OpToRel(<, Nat) = Less
  BY Zenon DEF OpToRel
<1>2. IsWellFoundedOn(Less, Nat)
  BY <1>1, NatLessThanWellFounded
<1> HIDE DEF Less
<1>3. PICK n \in S : \A o \in S : <<o, n>> \notin Less
  BY <1>2, WFMin
<1>4. \A o \in S : ~(o < n)
  BY <1>3 DEF Less
<1> QED
  BY <1>4

LEMMA LineValue ==
  ASSUME NEW f \in Seq(Line), NEW n \in 1 .. Len(f)
  PROVE  f[n] \in Line /\ f[n].value \in Values /\ f[n].value # NoValue
<1>1. f[n] \in Line
  OBVIOUS
<1> QED
  BY <1>1, ValuesAssumption DEF Line

\* A read of a file gives what its first hit holds.
LEMMA LookupGives ==
  ASSUME NEW f \in Seq(Line), NEW k
  PROVE  Gives(f, Len(f), k, Lookup(f, k))
<1> DEFINE hits == {n \in 1 .. Len(f) : f[n].kind = "item" /\ f[n].key = k}
           first == CHOOSE n \in hits : \A o \in hits : n <= o
<1>1. Lookup(f, k) = IF hits = {} THEN NoValue ELSE f[first].value
  BY DEF Lookup
<1>2. CASE hits = {}
  BY <1>1, <1>2 DEF Gives, Hit
<1>3. CASE hits # {}
  <2>1. hits \subseteq Nat
    OBVIOUS
  <2> HIDE DEF hits
  <2>2. \E n \in hits : \A o \in hits : n <= o
    BY <1>3, <2>1, LeastHit
  <2>3. first \in hits /\ \A o \in hits : first <= o
    BY <2>2, Zenon
  <2> HIDE DEF first
  <2> USE DEF hits
  <2>4. \A o \in 1 .. first - 1 : ~Hit(f, o, k)
    BY <2>3 DEF Hit
  <2> QED
    BY <1>1, <1>3, <2>3, <2>4 DEF Gives, Hit
<1> QED
  BY <1>2, <1>3

LEMMA GivesOne ==
  ASSUME NEW f, NEW n \in Nat, NEW k, NEW v, NEW w, Gives(f, n, k, v), Gives(f, n, k, w)
  PROVE  v = w
<1>1. CASE \A m \in 1 .. n : ~Hit(f, m, k)
  BY <1>1 DEF Gives
<1>2. CASE \E m \in 1 .. n : Hit(f, m, k)
  <2>1. PICK a \in 1 .. n : Hit(f, a, k) /\ v = f[a].value /\ \A o \in 1 .. a - 1 : ~Hit(f, o, k)
    BY <1>2 DEF Gives
  <2>2. PICK b \in 1 .. n : Hit(f, b, k) /\ w = f[b].value /\ \A o \in 1 .. b - 1 : ~Hit(f, o, k)
    BY <1>2 DEF Gives
  <2>3. ~(a < b) /\ ~(b < a)
    BY <2>1, <2>2
  <2>4. a = b
    BY <2>3
  <2> QED
    BY <2>1, <2>2, <2>4
<1> QED
  BY <1>1, <1>2

\* Files that agree on their first n lines give the same.
LEMMA GivesSame ==
  ASSUME NEW f, NEW g, NEW n \in Nat, \A m \in 1 .. n : f[m] = g[m], NEW k, NEW v, Gives(f, n, k, v)
  PROVE  Gives(g, n, k, v)
<1>1. \A m \in 1 .. n : Hit(f, m, k) <=> Hit(g, m, k)
  BY DEF Hit
<1>2. \A m \in 1 .. n : \A o \in 1 .. m - 1 : o \in 1 .. n
  OBVIOUS
<1> QED
  BY <1>1, <1>2 DEF Gives

\* One line more gives its value to a key that had none before.
LEMMA GivesNext ==
  ASSUME NEW f \in Seq(Line), NEW n \in Nat, n + 1 <= Len(f), NEW k, NEW v, Gives(f, n, k, v)
  PROVE  Gives(f, n + 1, k, IF v = NoValue /\ Hit(f, n + 1, k) THEN f[n + 1].value ELSE v)
<1>1. \A m \in 1 .. n + 1 : m \in 1 .. n \/ m = n + 1
  OBVIOUS
<1>2. CASE v = NoValue
  <2>1. \A m \in 1 .. n : f[m].value # NoValue
    BY LineValue
  <2>2. \A m \in 1 .. n : ~Hit(f, m, k)
    BY <1>2, <2>1 DEF Gives
  <2>3. CASE Hit(f, n + 1, k)
    <3>1. n + 1 \in 1 .. n + 1 /\ \A o \in 1 .. (n + 1) - 1 : ~Hit(f, o, k)
      BY <2>2
    <3> QED
      BY <1>2, <2>3, <3>1 DEF Gives
  <2>4. CASE ~Hit(f, n + 1, k)
    BY <1>1, <1>2, <2>2, <2>4 DEF Gives
  <2> QED
    BY <2>3, <2>4
<1>3. CASE v # NoValue
  <2>1. PICK m \in 1 .. n : Hit(f, m, k) /\ v = f[m].value /\ \A o \in 1 .. m - 1 : ~Hit(f, o, k)
    BY <1>3 DEF Gives
  <2>2. m \in 1 .. n + 1
    OBVIOUS
  <2> QED
    BY <1>3, <2>1, <2>2 DEF Gives
<1> QED
  BY <1>2, <1>3

\* The replacement gives the key of the write its new value, if the key had one, and leaves the others.
LEMMA ReplacedGives ==
  ASSUME NEW all \in Seq(Line), \A n \in 1 .. Len(all) : IsItem(all[n]), wkey \in Keys, wvalue \in Values
  PROVE  /\ Replaced(all) \in Seq(Line) /\ Len(Replaced(all)) = Len(all)
         /\ \A k \in Keys, v \in Values \cup {NoValue} :
              Gives(all, Len(all), k, v)
              => Gives(Replaced(all), Len(all), k, IF k = wkey /\ v # NoValue THEN wvalue ELSE v)
<1> DEFINE rep == Replaced(all)
           first(n) == all[n].key = wkey /\ \A m \in 1 .. n - 1 : all[m].key # wkey
<1>1. Item(wkey, wvalue) \in Line
  BY DEF Item, Line
<1>2. rep \in Seq(Line) /\ Len(rep) = Len(all)
  <2>1. \A n \in 1 .. Len(all) : all[n] \in Line
    OBVIOUS
  <2>2. rep \in [1 .. Len(all) -> Line] /\ Len(all) \in Nat
    BY <1>1, <2>1 DEF Replaced
  <2> HIDE DEF rep
  <2>3. rep \in Seq(Line)
    BY <2>2, SeqDef
  <2>4. DOMAIN rep = 1 .. Len(all)
    BY <2>2
  <2> QED
    BY <2>2, <2>3, <2>4, LenProperties
<1>3. \A n \in 1 .. Len(all) : rep[n] = IF first(n) THEN Item(wkey, wvalue) ELSE all[n]
  BY DEF Replaced
<1> HIDE DEF rep
<1>4. \A n \in 1 .. Len(all) : \A k : Hit(rep, n, k) <=> Hit(all, n, k)
  BY <1>3 DEF Hit, Item, IsItem
<1>5. ASSUME NEW k \in Keys, NEW v \in Values \cup {NoValue}, Gives(all, Len(all), k, v)
      PROVE  Gives(rep, Len(all), k, IF k = wkey /\ v # NoValue THEN wvalue ELSE v)
  <2>1. CASE \A m \in 1 .. Len(all) : ~Hit(all, m, k)
    <3>1. v = NoValue
      BY <1>5, <2>1 DEF Gives
    <3> QED
      BY <1>4, <2>1, <3>1 DEF Gives
  <2>2. CASE \E m \in 1 .. Len(all) : Hit(all, m, k)
    <3>1. PICK m \in 1 .. Len(all) : /\ Hit(all, m, k) /\ v = all[m].value
                                     /\ \A o \in 1 .. m - 1 : ~Hit(all, o, k)
      BY <1>5, <2>2 DEF Gives
    <3>2. \A o \in 1 .. m - 1 : o \in 1 .. Len(all)
      OBVIOUS
    <3>3. Hit(rep, m, k) /\ \A o \in 1 .. m - 1 : ~Hit(rep, o, k)
      BY <1>4, <3>1, <3>2
    <3>4. v # NoValue
      BY <3>1, LineValue
    <3>5. \A o \in 1 .. m - 1 : all[o].key # k
      BY <3>1, <3>2 DEF Hit, IsItem
    <3>6. rep[m].value = IF k = wkey THEN wvalue ELSE v
      <4>1. CASE k = wkey
        <5>1. first(m)
          BY <3>1, <3>5, <4>1 DEF Hit
        <5> QED
          BY <1>3, <4>1, <5>1 DEF Item
      <4>2. CASE k # wkey
        <5>1. ~first(m)
          BY <3>1, <4>2 DEF Hit
        <5> QED
          BY <1>3, <3>1, <4>2, <5>1
      <4> QED
        BY <4>1, <4>2
    <3> QED
      BY <3>3, <3>4, <3>6 DEF Gives
  <2> QED
    BY <2>1, <2>2
<1> QED
  BY <1>2, <1>5 DEF rep

-----------------------------------------------------------------------------
(* ConfigFile: the inductive invariant *)

CfgTyped ==
  /\ CfgTypeOK
  /\ rpc \in {"idle", "lock", "lines"} /\ wpc \in {"idle", "lock", "gather", "garbled", "lines"}
  /\ rkey \in Keys /\ wkey \in Keys /\ wvalue \in Values /\ ext \in BOOLEAN
  /\ rline \in Nat \ {0} /\ (rpc = "lock" => rline = 1) /\ wline \in Nat \ {0}
  /\ \A n \in 1 .. Len(items) : IsItem(items[n])
  /\ writes \in Nat

\* Outside a write a file that is whole gives each key its value.
CompleteFile == whole /\ wpc # "lines" => \A k \in Keys : Gives(cfgfile, Len(cfgfile), k, truth[k])

\* The items read so far give what the lines read so far give.
Gathered ==
  wpc = "gather" =>
    /\ wline <= Len(cfgfile) + 1
    /\ \A k \in Keys : \E v \in Values \cup {NoValue} :
         Gives(cfgfile, wline - 1, k, v) /\ Gives(items, Len(items), k, v)

Wanted(k) == IF k = wkey /\ truth[k] # NoValue THEN wvalue ELSE truth[k]

\* The lines written and those to be written give what the write is to leave.
Written ==
  wpc = "lines" /\ whole =>
    LET f == cfgfile \o items IN \A k \in Keys : Gives(f, Len(f), k, Wanted(k))

\* The reader has passed no item of its key.
Passed ==
  rpc = "lines" /\ ~ext =>
    rline <= Len(cfgfile) + 1 /\ \A n \in 1 .. rline - 1 : ~Hit(cfgfile, n, rkey)

\* The value of the key of a read is one of those it may give.
Watched == rpc # "idle" => truth[rkey] \in seen

CfgInv == CfgTyped /\ CompleteFile /\ Gathered /\ Written /\ Passed /\ Watched

LEMMA CfgInitInv == CfgInit => CfgInv
<1> SUFFICES ASSUME CfgInit
             PROVE  CfgInv
  OBVIOUS
<1>1. cfgfile \in Seq(Line)
  BY CfgFilesAssumption DEF CfgInit
<1>2. \A k \in Keys : Lookup(cfgfile, k) \in Values \cup {NoValue}
  <2> SUFFICES ASSUME NEW k \in Keys
               PROVE  Lookup(cfgfile, k) \in Values \cup {NoValue}
    OBVIOUS
  <2>1. Gives(cfgfile, Len(cfgfile), k, Lookup(cfgfile, k))
    BY <1>1, LookupGives
  <2>2. \A m \in 1 .. Len(cfgfile) : cfgfile[m].value \in Values
    BY <1>1, LineValue
  <2> QED
    BY <2>1, <2>2 DEF Gives
<1>3. CfgTyped
  <2>1. items \in Seq(Line) /\ Len(items) = 0
    BY DEF CfgInit
  <2>2. truth \in [Keys -> Values \cup {NoValue}]
    BY <1>2 DEF CfgInit
  <2>3. CfgTypeOK
    BY <1>1, <2>1, <2>2, ValuesAssumption, MaxItemsAssumption DEF CfgInit, CfgTypeOK
  <2>4. ext \in BOOLEAN
    BY DEF CfgInit
  <2>5. \A n \in 1 .. Len(items) : IsItem(items[n])
    BY <2>1
  <2> QED
    BY <2>3, <2>4, <2>5 DEF CfgInit, CfgTyped
<1>4. CompleteFile
  BY <1>1, LookupGives DEF CfgInit, CompleteFile
<1> QED
  BY <1>3, <1>4 DEF CfgInit, CfgInv, Gathered, Written, Passed, Watched

\* A new complete file gives each key what a read of it gives.
LEMMA Rebuilt ==
  ASSUME cfgfile \in Seq(Line), truth' = [k \in Keys |-> Lookup(cfgfile, k)]
  PROVE  /\ truth' \in [Keys -> Values \cup {NoValue}]
         /\ \A k \in Keys : Gives(cfgfile, Len(cfgfile), k, truth'[k])
<1>1. \A k \in Keys : Gives(cfgfile, Len(cfgfile), k, truth'[k])
  BY LookupGives
<1>2. \A m \in 1 .. Len(cfgfile) : cfgfile[m].value \in Values
  BY LineValue
<1>3. \A k \in Keys : truth'[k] \in Values \cup {NoValue}
  BY <1>1, <1>2 DEF Gives
<1> QED
  BY <1>1, <1>3

\* Every value a read can give, and what a getter makes of it, is a number or stands for one.
LEMMA ReturnsInt ==
  ASSUME rkey \in Keys, NEW r \in Values \cup {NoValue}, Returns(r)
  PROVE  given' \in Int
<1>1. r \in Int
  BY ValuesAssumption
<1>2. KindOf[rkey] \in {"text", "address", "port", "flag"}
  BY KeysAssumption DEF KindOf
<1>3. Default[KindOf[rkey]] \in Int
  BY <1>2, ValuesAssumption DEF Default
<1>4. Leftover \subseteq Int /\ r % 65536 \in Int
  BY <1>1 DEF Leftover
<1> QED
  BY <1>1, <1>3, <1>4 DEF Returns, Converted

\* The reader at an item of its key, or past the last line, gives the value of the key.
LEMMA ReadGives ==
  ASSUME CfgInv, rpc = "lines", ~ext, whole
  PROVE  /\ rline > Len(cfgfile) => truth[rkey] = NoValue
         /\ rline <= Len(cfgfile) /\ Found => truth[rkey] = cfgfile[rline].value
<1>1. wpc # "lines" /\ Gives(cfgfile, Len(cfgfile), rkey, truth[rkey])
  BY DEF CfgInv, CfgTyped, CfgTypeOK, CompleteFile
<1>2. /\ rline \in Nat \ {0} /\ Len(cfgfile) \in Nat
      /\ rline <= Len(cfgfile) + 1 /\ \A n \in 1 .. rline - 1 : ~Hit(cfgfile, n, rkey)
  BY DEF CfgInv, CfgTyped, CfgTypeOK, Passed
<1>3. ASSUME rline > Len(cfgfile)
      PROVE  truth[rkey] = NoValue
  <2>1. Gives(cfgfile, Len(cfgfile), rkey, NoValue)
    BY <1>2, <1>3 DEF Gives
  <2> QED
    BY <1>1, <1>2, <2>1, GivesOne
<1>4. ASSUME rline <= Len(cfgfile), Found
      PROVE  truth[rkey] = cfgfile[rline].value
  <2>1. Hit(cfgfile, rline, rkey)
    BY <1>4 DEF Found, Hit, IsItem
  <2>2. rline \in 1 .. Len(cfgfile)
    BY <1>2, <1>4
  <2>3. Gives(cfgfile, Len(cfgfile), rkey, cfgfile[rline].value)
    BY <1>2, <2>1, <2>2 DEF Gives
  <2> QED
    BY <1>1, <1>2, <2>3, GivesOne
<1> QED
  BY <1>3, <1>4

LEMMA ReadStep ==
  ASSUME CfgInv,
         (\E k \in Keys : \E e \in BOOLEAN : ReadCall(k, e)) \/ ReadLock \/ ReadLine \/ ReadReturn
  PROVE  CfgInv'
<1> USE DEF CfgInv
<1>1. UNCHANGED <<cfgfile, truth, whole, wvars>>
  BY DEF ReadCall, ReadLock, ReadLine, ReadReturn
<1>2. CompleteFile' /\ Gathered' /\ Written'
  BY <1>1 DEF wvars, CompleteFile, Gathered, Written, Wanted
<1>3. CfgTyped'
  <2>1. ReadReturn => given' \in Int
    <3> SUFFICES ASSUME ReadReturn
                 PROVE  given' \in Int
      OBVIOUS
    <3>1. CASE Returns(NoValue)
      BY <3>1, ReturnsInt DEF CfgTyped
    <3>2. CASE rline <= Len(cfgfile) /\ Returns(cfgfile[rline].value)
      <4>1. cfgfile \in Seq(Line) /\ rline \in 1 .. Len(cfgfile)
        BY <3>2 DEF CfgTyped, CfgTypeOK
      <4>2. cfgfile[rline].value \in Values
        BY <4>1, LineValue
      <4> QED
        BY <3>2, <4>2, ReturnsInt DEF CfgTyped
    <3> QED
      BY <3>1, <3>2 DEF ReadReturn
  <2>2. CASE ReadReturn
    BY <1>1, <2>1, <2>2 DEF wvars, ReadReturn, CfgTyped, CfgTypeOK
  <2>3. CASE ReadLine \/ ReadLock
    BY <1>1, <2>3 DEF wvars, ReadLock, ReadLine, CfgTyped, CfgTypeOK
  <2>4. CASE \E k \in Keys : \E e \in BOOLEAN : ReadCall(k, e)
    BY <1>1, <2>4 DEF wvars, ReadCall, CfgTyped, CfgTypeOK
  <2> QED
    BY <2>2, <2>3, <2>4
<1>4. Passed'
  <2>1. CASE ReadLine
    <3>1. ASSUME ~ext
          PROVE  ~Hit(cfgfile, rline, rkey)
      BY <2>1, <3>1 DEF ReadLine, Found, Hit, IsItem
    <3>2. \A n \in 1 .. rline' - 1 : n \in 1 .. rline - 1 \/ n = rline
      BY <2>1 DEF ReadLine, CfgTyped
    <3>3. rline' <= Len(cfgfile) + 1
      BY <2>1 DEF ReadLine, CfgTyped, CfgTypeOK
    <3> QED
      BY <1>1, <2>1, <3>1, <3>2, <3>3 DEF ReadLine, Passed, Hit
  <2>2. CASE ReadLock
    BY <1>1, <2>2 DEF ReadLock, Passed, CfgTyped, CfgTypeOK
  <2>3. CASE ReadReturn \/ \E k \in Keys : \E e \in BOOLEAN : ReadCall(k, e)
    BY <2>3 DEF ReadReturn, ReadCall, Passed
  <2> QED
    BY <2>1, <2>2, <2>3
<1>5. Watched'
  BY DEF ReadCall, ReadLock, ReadLine, ReadReturn, Watched
<1> QED
  BY <1>2, <1>3, <1>4, <1>5

\* What the reader and the values it may give owe to a step of the writer.
LEMMA WriterKeeps ==
  ASSUME CfgInv, UNCHANGED rvars, UNCHANGED <<truth, seen>>, rpc = "lines" => UNCHANGED cfgfile
  PROVE  Passed' /\ Watched'
  BY DEF CfgInv, rvars, Passed, Watched, Hit

\* What an array that was not filled may hold are items, and no more than it has room for.
LEMMA UnfilledItems ==
  ASSUME CfgTyped, NEW new \in Unfilled
  PROVE  new \in Seq(Line) /\ Len(new) <= MaxItems /\ \A n \in 1 .. Len(new) : IsItem(new[n])
<1>1. CASE new = <<>>
  BY <1>1, MaxItemsAssumption
<1>3. CASE new = items
  BY <1>3 DEF CfgTyped, CfgTypeOK
<1>2. ASSUME NEW k \in Keys, NEW v \in Values, new = <<Item(k, v)>>
      PROVE  new \in Seq(Line) /\ Len(new) <= MaxItems /\ \A n \in 1 .. Len(new) : IsItem(new[n])
  <2>1. Item(k, v) \in Line /\ IsItem(Item(k, v))
    BY DEF Item, Line, IsItem
  <2> HIDE DEF Item
  <2>2. new \in Seq(Line) /\ Len(new) = 1 /\ new[1] = Item(k, v)
    BY <1>2, <2>1
  <2> QED
    BY <2>1, <2>2, MaxItemsAssumption
<1> QED
  BY <1>1, <1>2, <1>3 DEF Unfilled

\* A write that could not read the file, or all of it, has nothing to keep.
LEMMA GarbledStep ==
  ASSUME CfgInv, wpc' = "garbled", items' \in Unfilled, wline' \in Nat \ {0}, wpc = "gather",
         UNCHANGED <<cfgfile, cfgMutex, wkey, wvalue, writes, truth, whole, seen, rvars>>
  PROVE  CfgInv'
<1>1. items' \in Seq(Line) /\ Len(items') <= MaxItems /\ \A n \in 1 .. Len(items') : IsItem(items'[n])
  BY UnfilledItems DEF CfgInv
<1>2. CfgTyped'
  BY <1>1 DEF rvars, CfgInv, CfgTyped, CfgTypeOK
<1>3. Passed' /\ Watched'
  BY WriterKeeps
<1> QED
  BY <1>2, <1>3 DEF CfgInv, CompleteFile, Gathered, Written

\* A line read with room for it leaves what the items give as the lines do.
LEMMA RoomStep ==
  ASSUME CfgInv, Gather, ~(IsItem(cfgfile[wline]) /\ Len(items) = MaxItems)
  PROVE  CfgInv'
<1> USE DEF CfgInv
<1> DEFINE line == cfgfile[wline]
<1>1. /\ wline \in 1 .. Len(cfgfile) /\ line \in Line /\ cfgfile \in Seq(Line) /\ items \in Seq(Line)
      /\ UNCHANGED <<cfgfile, cfgMutex, wpc, wkey, wvalue, writes, truth, whole, seen, rvars>>
      /\ wline' = wline + 1 /\ wpc = "gather" /\ Len(items) <= MaxItems
      /\ items' = IF IsItem(line) THEN Append(items, line) ELSE items
  BY LineValue DEF Gather, CfgTyped, CfgTypeOK
<1>2. CfgTyped'
  <2>1. /\ items' \in Seq(Line) /\ Len(items') <= MaxItems
        /\ \A n \in 1 .. Len(items') : IsItem(items'[n])
    <3>1. CASE IsItem(line)
      <4>1. items' = Append(items, line) /\ Len(items) # MaxItems
        BY <1>1, <3>1
      <4> HIDE DEF line
      <4>2. Len(items) + 1 <= MaxItems
        BY <1>1, <4>1, MaxItemsAssumption
      <4> QED
        BY <1>1, <3>1, <4>1, <4>2, AppendProperties DEF CfgTyped
    <3>2. CASE ~IsItem(line)
      BY <1>1, <3>2 DEF CfgTyped
    <3> QED
      BY <3>1, <3>2
  <2> QED
    BY <1>1, <2>1 DEF rvars, CfgTyped, CfgTypeOK
<1>3. Gathered'
  <2> SUFFICES ASSUME NEW k \in Keys
               PROVE  \E v \in Values \cup {NoValue} :
                        Gives(cfgfile, wline, k, v) /\ Gives(items', Len(items'), k, v)
    BY <1>1 DEF Gathered
  <2>1. PICK v \in Values \cup {NoValue} :
          Gives(cfgfile, wline - 1, k, v) /\ Gives(items, Len(items), k, v)
    BY <1>1 DEF Gathered
  <2> DEFINE w == IF v = NoValue /\ Hit(cfgfile, wline, k) THEN cfgfile[wline].value ELSE v
  <2>2. Gives(cfgfile, wline, k, w)
    <3>1. wline - 1 \in Nat /\ (wline - 1) + 1 = wline /\ wline <= Len(cfgfile)
      BY <1>1
    <3> QED
      BY <1>1, <2>1, <3>1, GivesNext
  <2>3. w \in Values \cup {NoValue}
    BY <1>1, LineValue
  <2>4. Gives(items', Len(items'), k, w)
    <3>1. CASE IsItem(line)
      <4> DEFINE n == Len(items)
                 new == Append(items, line)
      <4>1. /\ new \in Seq(Line) /\ Len(new) = n + 1 /\ new[n + 1] = line /\ n \in Nat
            /\ \A m \in 1 .. n : new[m] = items[m]
        BY <1>1, AppendProperties
      <4> HIDE DEF line, new
      <4>2. Gives(new, n, k, v)
        BY <2>1, <4>1, GivesSame
      <4>3. Gives(new, n + 1, k, IF v = NoValue /\ Hit(new, n + 1, k) THEN new[n + 1].value ELSE v)
        BY <4>1, <4>2, GivesNext
      <4>4. Hit(new, n + 1, k) <=> Hit(cfgfile, wline, k)
        BY <4>1 DEF Hit, line
      <4>5. items' = new
        BY <1>1, <3>1 DEF line, new
      <4> QED
        BY <4>1, <4>3, <4>4, <4>5 DEF line
    <3>2. CASE ~IsItem(line)
      <4>1. w = v /\ items' = items
        BY <1>1, <3>2 DEF Hit, IsItem
      <4> QED
        BY <2>1, <4>1
    <3> QED
      BY <3>1, <3>2
  <2> QED
    BY <2>2, <2>3, <2>4
<1>4. CompleteFile' /\ Written'
  BY <1>1 DEF CompleteFile, Written
<1> QED
  BY <1>1, <1>2, <1>3, <1>4, WriterKeeps

\* One line read of a file leaves what the items give as the lines do.
LEMMA GatherStep ==
  ASSUME CfgInv, Gather
  PROVE  CfgInv'
<1> USE DEF CfgInv
<1> DEFINE line == cfgfile[wline]
<1>a. CASE IsItem(line) /\ Len(items) = MaxItems
  <2>1. /\ wpc' = "garbled" /\ items' \in Unfilled /\ wpc = "gather" /\ wline' \in Nat \ {0}
        /\ UNCHANGED <<cfgfile, cfgMutex, wkey, wvalue, writes, truth, whole, seen, rvars>>
    BY <1>a DEF Gather, CfgTyped
  <2> QED
    BY <2>1, GarbledStep
<1>b. CASE ~(IsItem(line) /\ Len(items) = MaxItems)
  BY <1>b, RoomStep
<1> QED
  BY <1>a, <1>b

\* With the last line read, the items give what the file does, and replaced what the write is to leave.
LEMMA OpenStep ==
  ASSUME CfgInv, WriteOpen
  PROVE  CfgInv'
<1> USE DEF CfgInv
<1>1. /\ wpc \in {"gather", "garbled"} /\ wpc' = "lines" /\ items' = Replaced(items) /\ cfgfile' = <<>>
      /\ UNCHANGED <<cfgMutex, wkey, wvalue, wline, writes, truth, seen, rvars>>
      /\ rpc # "lines" /\ Len(cfgfile) \in Nat /\ whole' = (whole /\ wpc = "gather")
      /\ wpc = "gather" => wline = Len(cfgfile) + 1
  BY DEF WriteOpen, AllRead, CfgTyped, CfgTypeOK, Gathered
<1>2. /\ items \in Seq(Line) /\ \A n \in 1 .. Len(items) : IsItem(items[n])
      /\ wkey \in Keys /\ wvalue \in Values
  BY DEF CfgTyped, CfgTypeOK
<1>3. Replaced(items) \in Seq(Line) /\ Len(Replaced(items)) = Len(items)
  BY <1>2, ReplacedGives
<1>4. ASSUME whole, wpc = "gather" PROVE Written'
  <2>1. cfgfile' \o items' = Replaced(items)
    BY <1>1, <1>3
  <2>2. ASSUME NEW k \in Keys
        PROVE  Gives(Replaced(items), Len(Replaced(items)), k, Wanted(k))
    <3>1. PICK v \in Values \cup {NoValue} :
            Gives(cfgfile, Len(cfgfile), k, v) /\ Gives(items, Len(items), k, v)
      BY <1>1, <1>4 DEF Gathered
    <3>2. Gives(cfgfile, Len(cfgfile), k, truth[k])
      BY <1>4 DEF CompleteFile
    <3>3. v = truth[k]
      BY <1>1, <3>1, <3>2, GivesOne
    <3> QED
      BY <1>2, <1>3, <3>1, <3>3, ReplacedGives DEF Wanted
  <2> QED
    BY <1>1, <2>1, <2>2 DEF Written, Wanted
<1>5. CfgTyped'
  <2>1. \A n \in 1 .. Len(items) : IsItem(Replaced(items)[n])
    BY <1>2 DEF Replaced, IsItem, Item
  <2>2. <<>> \in Seq(Line)
    OBVIOUS
  <2> HIDE DEF Replaced
  <2>3. Len(items) <= MaxItems /\ whole' \in BOOLEAN
    BY <1>1 DEF CfgTyped, CfgTypeOK
  <2> QED
    BY <1>1, <1>3, <2>1, <2>2, <2>3 DEF rvars, CfgTyped, CfgTypeOK
<1>6. Written'
  BY <1>1, <1>4 DEF Written
<1> QED
  BY <1>1, <1>5, <1>6, WriterKeeps DEF CompleteFile, Gathered

\* A line written goes from the items to the file.
LEMMA LineStep ==
  ASSUME CfgInv, WriteLine
  PROVE  CfgInv'
<1> USE DEF CfgInv
<1>1. /\ wpc = "lines" /\ items # <<>> /\ cfgfile' = Append(cfgfile, items[1]) /\ items' = Tail(items)
      /\ UNCHANGED <<cfgMutex, wpc, wkey, wvalue, wline, writes, truth, whole, seen, rvars>>
      /\ rpc # "lines" /\ Len(items) <= MaxItems /\ cfgfile \in Seq(Line) /\ items \in Seq(Line)
  BY DEF WriteLine, CfgTyped, CfgTypeOK
<1>2. items[1] \in Line /\ cfgfile' \in Seq(Line) /\ items' \in Seq(Line) /\ Len(items') = Len(items) - 1
  BY <1>1
<1>3. \A n \in 1 .. Len(items') : items'[n] = items[n + 1]
  BY <1>1
<1>4. CfgTyped'
  <2>1. \A n \in 1 .. Len(items') : n + 1 \in 1 .. Len(items)
    BY <1>1, <1>2
  <2>2. \A n \in 1 .. Len(items') : IsItem(items'[n])
    BY <1>3, <2>1 DEF CfgTyped
  <2>3. Len(items') <= MaxItems
    BY <1>1, <1>2, MaxItemsAssumption
  <2> QED
    BY <1>1, <1>2, <2>2, <2>3 DEF rvars, CfgTyped, CfgTypeOK
<1>5. cfgfile' \o items' = cfgfile \o items
  BY <1>1
<1>6. Written'
  BY <1>1, <1>5 DEF Written, Wanted
<1> QED
  BY <1>1, <1>4, <1>6, WriterKeeps DEF CompleteFile, Gathered

\* At the end of a write that kept the file whole, it is what the write was to leave.
LEMMA ReturnGives ==
  ASSUME CfgInv, WriteReturn, whole
  PROVE  \A k \in Keys : truth'[k] = Wanted(k)
<1> SUFFICES ASSUME NEW k \in Keys
             PROVE  truth'[k] = Wanted(k)
  OBVIOUS
<1>1. cfgfile \in Seq(Line) /\ cfgfile \o items = cfgfile /\ Len(cfgfile) \in Nat
  BY DEF CfgInv, CfgTyped, CfgTypeOK, WriteReturn
<1>2. Gives(cfgfile, Len(cfgfile), k, Wanted(k))
  BY <1>1 DEF CfgInv, Written, WriteReturn
<1>3. Gives(cfgfile, Len(cfgfile), k, truth'[k])
  BY <1>1, Rebuilt DEF WriteReturn
<1> QED
  BY <1>1, <1>2, <1>3, GivesOne

LEMMA WriteStep ==
  ASSUME CfgInv,
         \/ \E k \in Keys, v \in Values : WriteCall(k, v)
         \/ WriteLock \/ GatherFails \/ WriteOpenFails \/ WriteReturn \/ CfgCrash
  PROVE  CfgInv'
<1> USE DEF CfgInv
<1>1. CASE \E k \in Keys, v \in Values : WriteCall(k, v)
  <2>1. CfgTyped'
    BY <1>1 DEF WriteCall, rvars, CfgTyped, CfgTypeOK
  <2> QED
    BY <1>1, <2>1, WriterKeeps DEF WriteCall, CompleteFile, Gathered, Written
<1>2. CASE WriteLock
  <2>1. items' = <<>> /\ wline' = 1 /\ Len(items') = 0 /\ items' \in Seq(Line) /\ Len(cfgfile) \in Nat
    BY <1>2 DEF WriteLock, CfgTyped, CfgTypeOK
  <2>2. CfgTyped'
    BY <1>2, <2>1, MaxItemsAssumption DEF WriteLock, rvars, CfgTyped, CfgTypeOK
  <2>3. Gathered'
    <3>1. \A f, k : Gives(f, 0, k, NoValue)
      <4>1. 1 .. 0 = {}
        OBVIOUS
      <4> QED
        BY <4>1, Zenon DEF Gives
    <3>2. cfgfile' = cfgfile /\ wline' - 1 = 0 /\ wline' <= Len(cfgfile) + 1
      BY <1>2, <2>1 DEF WriteLock
    <3> QED
      BY <2>1, <3>1, <3>2 DEF Gathered
  <2> QED
    BY <1>2, <2>2, <2>3, WriterKeeps DEF WriteLock, CompleteFile, Written
<1>3. CASE WriteReturn
  <2>1. /\ truth' \in [Keys -> Values \cup {NoValue}]
        /\ \A k \in Keys : Gives(cfgfile, Len(cfgfile), k, truth'[k])
    BY <1>3, Rebuilt DEF WriteReturn, CfgTyped, CfgTypeOK
  <2>2. CfgTyped'
    BY <1>3, <2>1 DEF WriteReturn, rvars, CfgTyped, CfgTypeOK
  <2>3. rpc # "lines" /\ rkey' = rkey /\ truth'[rkey] \in seen'
    BY <1>3 DEF WriteReturn, rvars, CfgTyped, CfgTypeOK
  <2> QED
    BY <1>3, <2>1, <2>2, <2>3 DEF WriteReturn, rvars, CompleteFile, Gathered, Written, Passed, Watched
<1>4. CASE CfgCrash
  <2>1. items' \in Seq(Line) /\ Len(items') = 0
    BY <1>4 DEF CfgCrash
  <2>2. UNCHANGED <<cfgfile, truth>> /\ whole' = (whole /\ wpc # "lines") /\ wpc' = "idle" /\ rpc' = "idle"
    BY <1>4 DEF CfgCrash
  <2>3. CfgTyped'
    BY <1>4, <2>1, ValuesAssumption, MaxItemsAssumption DEF CfgCrash, CfgTyped, CfgTypeOK
  <2> QED
    BY <2>2, <2>3 DEF CompleteFile, Gathered, Written, Passed, Watched
<1>5. CASE GatherFails
  <2>1. /\ wpc' = "garbled" /\ items' \in Unfilled /\ wpc = "gather" /\ wline' \in Nat \ {0}
        /\ UNCHANGED <<cfgfile, cfgMutex, wkey, wvalue, writes, truth, whole, seen, rvars>>
    BY <1>5 DEF GatherFails, CfgTyped
  <2> QED
    BY <2>1, GarbledStep
<1>6. CASE WriteOpenFails
  <2>1. items' \in Seq(Line) /\ Len(items') = 0
    BY <1>6 DEF WriteOpenFails
  <2>2. wpc \in {"gather", "garbled"}
    BY <1>6 DEF WriteOpenFails, AllRead
  <2>3. CfgTyped'
    BY <1>6, <2>1, <2>2, MaxItemsAssumption DEF WriteOpenFails, rvars, CfgTyped, CfgTypeOK
  <2> QED
    BY <1>6, <2>2, <2>3, WriterKeeps DEF WriteOpenFails, CompleteFile, Gathered, Written
<1> QED
  BY <1>1, <1>2, <1>3, <1>4, <1>5, <1>6

LEMMA CfgNextInv == CfgInv /\ [CfgNext]_cfgvars => CfgInv'
<1> SUFFICES ASSUME CfgInv, [CfgNext]_cfgvars
             PROVE  CfgInv'
  OBVIOUS
<1>1. CASE CfgNext
  BY <1>1, ReadStep, WriteStep, GatherStep, OpenStep, LineStep DEF CfgNext
<1>2. CASE UNCHANGED cfgvars
  BY <1>2 DEF cfgvars, CfgInv, CfgTyped, CfgTypeOK, CompleteFile, Gathered, Written, Wanted, Passed,
              Watched
<1> QED
  BY <1>1, <1>2

LEMMA CfgInvariant == CfgSpec => []CfgInv
  BY CfgInitInv, CfgNextInv, PTL DEF CfgSpec

\* The threads of config.c that are in the file hold its mutex, and what the getters give are numbers
\* or stand for one, for any keys, values and files.
THEOREM CfgTypeCorrect == CfgSpec => []CfgTypeOK
<1>1. CfgInv => CfgTypeOK
  BY DEF CfgInv, CfgTyped
<1> QED
  BY <1>1, CfgInvariant, PTL

\* As long as the file is whole, a getter of config.c gives what it makes of a value the key had in a
\* complete file while the read lasted, and a write that ends changes the value of its own key only, if
\* that had one: whatever file the program began with, wherever outside the lines of a write it ended
\* before, and whatever could not be opened.  A file is whole until the program ends between the lines of
\* a write, or a write goes on that could not read it or had too few places for its items.
THEOREM FileKept == CfgSpec => FileKeepsValues
<1> DEFINE Read == rpc = "lines" /\ rpc' = "idle" /\ seen' # {} /\ ~ext /\ whole
                     => \E v \in seen : given' \in Converted(KindOf[rkey], v)
           Wrote == wpc = "lines" /\ wpc' = "idle" /\ writes' = writes /\ whole
                      => \A k \in Keys : truth'[k] = IF k = wkey /\ truth[k] # NoValue THEN wvalue
                                                     ELSE truth[k]
<1>1. CfgInv /\ [CfgNext]_cfgvars => [Read]_cfgvars
  <2> SUFFICES ASSUME CfgInv, CfgNext, rpc = "lines", rpc' = "idle", seen' # {}, ~ext, whole
               PROVE  \E v \in seen : given' \in Converted(KindOf[rkey], v)
    OBVIOUS
  <2>1. ReadReturn
    BY DEF CfgNext, ReadCall, ReadLock, ReadLine, WriteCall, WriteLock, Gather, GatherFails,
           WriteOpen, WriteOpenFails, WriteLine, WriteReturn, CfgCrash, rvars
  <2>2. Returns(truth[rkey])
    BY <2>1, ReadGives DEF ReadReturn
  <2>3. truth[rkey] \in seen
    BY DEF CfgInv, Watched
  <2> QED
    BY <2>2, <2>3 DEF Returns
<1>2. CfgInv /\ [CfgNext]_cfgvars => [Wrote]_cfgvars
  <2> SUFFICES ASSUME CfgInv, CfgNext, wpc = "lines", wpc' = "idle", writes' = writes, whole
               PROVE  \A k \in Keys : truth'[k] = Wanted(k)
    BY DEF Wanted
  <2>2. WriteReturn \/ CfgCrash
    BY DEF CfgNext, ReadCall, ReadLock, ReadLine, ReadReturn, WriteCall, WriteLock, Gather, GatherFails,
           AllRead, WriteOpen, WriteOpenFails, WriteLine, wvars
  <2>3. WriteReturn
    BY <2>2 DEF CfgCrash, CfgInv, CfgTyped
  <2> QED
    BY <2>3, ReturnGives
<1> QED
  BY <1>1, <1>2, CfgInvariant, PTL DEF CfgSpec, FileKeepsValues, ReadsWhole, WritesOne

-----------------------------------------------------------------------------
(* SimCtrl: what the rest of an operation leaves *)

Writes(s, k, p) == s[k].kind # "slot" /\ s[k].pin = p
Sets(s, k, p) == s[k].kind = "set" /\ s[k].pin = p
Clears(s, k, p) == s[k].kind = "clear" /\ s[k].pin = p

\* Pin p is high when step k of s comes, given the pins h that are high now.
HighAt(s, h, k, p) ==
  \/ \E j \in 1 .. k - 1 : Sets(s, j, p) /\ \A m \in j + 1 .. k - 1 : ~Writes(s, m, p)
  \/ (\A m \in 1 .. k - 1 : ~Writes(s, m, p)) /\ p \in h

LowAt(s, h, k, p) ==
  \/ \E j \in 1 .. k - 1 : Clears(s, j, p) /\ \A m \in j + 1 .. k - 1 : ~Writes(s, m, p)
  \/ (\A m \in 1 .. k - 1 : ~Writes(s, m, p)) /\ p \notin h

\* The pins that show a card, and those of them that are high while card c is shown.
Shows == {CSEL2, SWDN, CSEL1, EN["CMCC"], OUT_EN}
Should(c) == {EN[c]} \cup (IF c = "CTCC" THEN {} ELSE {OUT_EN})

\* Card c is the one of slot g when s is over.
Named(s, g, c) ==
  \/ c = g /\ \A k \in 1 .. Len(s) : s[k].kind # "slot"
  \/ \E k \in 1 .. Len(s) : s[k] = NameSlot(c) /\ \A m \in 1 .. Len(s) : m # k => s[m].kind # "slot"

\* At the end of s the pins have the levels that show card c, given the pins h that may be high now
\* and those, l, that surely are.
Levelled(s, h, l, c) ==
  \A p \in Shows : IF p \in Should(c) THEN HighAt(s, h, Len(s) + 1, p) ELSE LowAt(s, l, Len(s) + 1, p)

\* A selecting pin is set where it is high already or the switch is down.
Safely(s, h) ==
  \A k \in 1 .. Len(s) : \A p \in {CSEL1, CSEL2, OUT_EN} :
    Sets(s, k, p) => HighAt(s, h, k, p) \/ HighAt(s, h, k, SWDN)

\* A pin whose last write failed may have either level.
Upper == high \cup missed
Lower == high \ missed

SimInv ==
  /\ SimTypeOK
  /\ Safely(todo, Upper)
  /\ ~astray => \E c \in Cards : Named(todo, gCurSlot, c) /\ Levelled(todo, Upper, Lower, c)

Steps == [kind : {"set", "clear"}, pin : Pins] \cup [kind : {"slot"}, card : Cards]

-----------------------------------------------------------------------------
(* SimCtrl: the forms of the operations *)

LEMMA Joined ==
  ASSUME NEW S, NEW s \in Seq(S), NEW t \in Seq(S)
  PROVE  /\ s \o t \in Seq(S) /\ Len(s) \in Nat /\ Len(t) \in Nat /\ Len(s \o t) = Len(s) + Len(t)
         /\ \A k \in 1 .. Len(s) : (s \o t)[k] = s[k]
         /\ \A k \in 1 .. Len(t) : (s \o t)[Len(s) + k] = t[k]
<1>1. Len(s) \in Nat /\ Len(t) \in Nat
  OBVIOUS
<1> DEFINE m == Len(s)
           n == Len(t)
           u == s \o t
<1>2. /\ u \in Seq(S) /\ Len(u) = m + n
      /\ \A i \in 1 .. m + n : u[i] = IF i <= m THEN s[i] ELSE t[i - m]
  BY ConcatProperties
<1>3. m \in Nat /\ n \in Nat
  BY <1>1
<1> HIDE DEF u, m, n
<1>4. \A k \in 1 .. m : u[k] = s[k]
  BY <1>2, <1>3
<1>5. ASSUME NEW k \in 1 .. n
      PROVE  u[m + k] = t[k]
  <2>1. m + k \in 1 .. m + n /\ ~(m + k <= m) /\ (m + k) - m = k
    BY <1>3
  <2> QED
    BY <1>2, <2>1
<1> QED
  BY <1>2, <1>3, <1>4, <1>5 DEF u, m, n

\* From its step b + 1 on, sequence s starts card c; the steps before clear pins, and those after are
\* for pins that do not show a card.
Starts(s, b, c) ==
  /\ s \in Seq(Steps) /\ b + 7 <= Len(s)
  /\ \A k \in 1 .. b : s[k].kind = "clear"
  /\ \A i \in 1 .. 7 : s[b + i] = CardStart(c)[i]
  /\ \A k \in b + 8 .. Len(s) : s[k].kind # "slot" /\ s[k].pin \notin Shows

LEMMA SelectForm ==
  ASSUME NEW c \in Cards
  PROVE  CardSelect(c) \in Seq(Steps) /\ Len(CardSelect(c)) = 3
<1>1. \A p \in Pins : PinSet(p) \in Steps /\ PinClear(p) \in Steps
  BY DEF PinSet, PinClear, Steps
<1>2. CSEL1 \in Pins /\ CSEL2 \in Pins /\ OUT_EN \in Pins
  BY DEF CSEL1, CSEL2, OUT_EN, Pins
<1> QED
  BY <1>1, <1>2 DEF CardSelect, Cards

LEMMA StartForm ==
  ASSUME NEW c \in Cards
  PROVE  LET s == CardStart(c)
             x == CardSelect(c)
         IN  /\ s \in Seq(Steps) /\ Len(s) = 7
             /\ s[1] = PinSet(SWDN) /\ s[2] = x[1] /\ s[3] = x[2] /\ s[4] = x[3]
             /\ s[5] = PinClear(SWDN) /\ s[6] = PinSet(EN[c]) /\ s[7] = NameSlot(c)
<1> DEFINE a == <<SimCtrlPowerOff>>
           x == CardSelect(c)
           z == <<SimCtrlPowerOn, PinSet(EN[c]), NameSlot(c)>>
<1>1. x \in Seq(Steps) /\ Len(x) = 3
  BY SelectForm
<1>2. a \in Seq(Steps) /\ Len(a) = 1 /\ a[1] = PinSet(SWDN)
  BY DEF SimCtrlPowerOff, PinSet, SWDN, Pins, Steps
<1>3. /\ z \in Seq(Steps) /\ Len(z) = 3
      /\ z[1] = PinClear(SWDN) /\ z[2] = PinSet(EN[c]) /\ z[3] = NameSlot(c)
  BY DEF SimCtrlPowerOn, PinClear, PinSet, NameSlot, EN, SWDN, Pins, Cards, Steps
<1> HIDE DEF a, x, z
<1> DEFINE y == a \o x
<1>4. /\ y \in Seq(Steps) /\ Len(y) = 4 /\ y[1] = PinSet(SWDN)
      /\ y[2] = x[1] /\ y[3] = x[2] /\ y[4] = x[3]
  <2>1. /\ y \in Seq(Steps) /\ Len(y) = Len(a) + Len(x)
        /\ \A i \in 1 .. Len(a) : y[i] = a[i]
        /\ \A i \in 1 .. Len(x) : y[Len(a) + i] = x[i]
    <3>1. a \in Seq(Steps) /\ x \in Seq(Steps)
      BY <1>1, <1>2
    <3> QED
      BY <3>1, Joined
  <2> HIDE DEF y
  <2>2. Len(a) = 1 /\ Len(x) = 3
    BY <1>1, <1>2
  <2> HIDE DEF a, x
  <2>3. Len(y) = 4 /\ y[1] = a[1]
    BY <2>1, <2>2
  <2>4. 1 + 1 = 2 /\ 1 + 2 = 3 /\ 1 + 3 = 4 /\ 1 \in 1 .. 3 /\ 2 \in 1 .. 3 /\ 3 \in 1 .. 3
    OBVIOUS
  <2>5. y[2] = x[1] /\ y[3] = x[2] /\ y[4] = x[3]
    BY <2>1, <2>2, <2>4
  <2> QED
    BY <1>2, <2>1, <2>3, <2>5
<1> HIDE DEF y
<1> DEFINE s == y \o z
<1>5. /\ s \in Seq(Steps) /\ Len(s) = 7
      /\ \A i \in 1 .. 4 : s[i] = y[i]
      /\ \A i \in 1 .. 3 : s[4 + i] = z[i]
  <2>1. /\ s \in Seq(Steps) /\ Len(s) = Len(y) + Len(z)
        /\ \A i \in 1 .. Len(y) : s[i] = y[i]
        /\ \A i \in 1 .. Len(z) : s[Len(y) + i] = z[i]
    <3>1. y \in Seq(Steps) /\ z \in Seq(Steps)
      BY <1>3, <1>4
    <3> QED
      BY <3>1, Joined
  <2> HIDE DEF s
  <2> QED
    BY <1>3, <1>4, <2>1
<1>6. CardStart(c) = s
  BY DEF CardStart, a, x, y, z
<1> HIDE DEF s
<1>7. s[1] = PinSet(SWDN) /\ s[2] = x[1] /\ s[3] = x[2] /\ s[4] = x[3]
  BY <1>4, <1>5
<1>8. s[5] = PinClear(SWDN) /\ s[6] = PinSet(EN[c]) /\ s[7] = NameSlot(c)
  BY <1>3, <1>5
<1> QED
  BY <1>5, <1>6, <1>7, <1>8 DEF x

LEMMA StartAlone ==
  ASSUME NEW c \in Cards
  PROVE  Starts(CardStart(c), 0, c)
<1> DEFINE s == CardStart(c)
<1>1. s \in Seq(Steps) /\ Len(s) = 7
  BY StartForm
<1> HIDE DEF s
<1> QED
  BY <1>1 DEF Starts, s

\* Steps that only clear pins may come before the start of a card, and steps for other pins after it.
LEMMA StartAfter ==
  ASSUME NEW c \in Cards, NEW s, NEW b \in Nat, Starts(s, b, c),
         NEW a \in Seq(Steps), \A k \in 1 .. Len(a) : a[k].kind = "clear"
  PROVE  Starts(a \o s, Len(a) + b, c)
<1> DEFINE t == a \o s
           n == Len(a)
           l == Len(s)
           st == CardStart(c)
<1>1. /\ t \in Seq(Steps) /\ n \in Nat /\ l \in Nat /\ Len(t) = n + l /\ b + 7 <= l
      /\ \A k \in 1 .. n : t[k] = a[k] /\ a[k].kind = "clear"
      /\ \A k \in 1 .. l : t[n + k] = s[k]
  <2>1. s \in Seq(Steps) /\ b + 7 <= Len(s)
    BY DEF Starts
  <2>2. /\ t \in Seq(Steps) /\ n \in Nat /\ l \in Nat /\ Len(t) = n + l
        /\ \A k \in 1 .. n : t[k] = a[k]
        /\ \A k \in 1 .. l : t[n + k] = s[k]
    BY <2>1, Joined
  <2> QED
    BY <2>1, <2>2
<1>2. /\ \A k \in 1 .. b : s[k].kind = "clear"
      /\ \A i \in 1 .. 7 : s[b + i] = st[i]
      /\ \A k \in b + 8 .. l : s[k].kind # "slot" /\ s[k].pin \notin Shows
  BY DEF Starts
<1> HIDE DEF t, n, l, st
<1>0. n \in Nat /\ l \in Nat /\ b + 7 <= l /\ Len(t) = n + l
  BY <1>1
<1>3. ASSUME NEW k \in 1 .. n + b
      PROVE  t[k].kind = "clear"
  <2>1. CASE k <= n
    BY <1>1, <2>1
  <2>2. CASE k > n
    <3>1. k - n \in 1 .. l /\ k - n \in 1 .. b /\ n + (k - n) = k
      BY <1>0, <2>2
    <3>2. t[n + (k - n)] = s[k - n]
      BY <1>1, <3>1, Zenon
    <3>3. s[k - n].kind = "clear"
      BY <1>2, <3>1, Zenon
    <3> QED
      BY <3>1, <3>2, <3>3, Zenon
  <2> QED
    BY <1>0, <2>1, <2>2
<1>4. ASSUME NEW i \in 1 .. 7
      PROVE  t[(n + b) + i] = st[i]
  <2>1. b + i \in 1 .. l /\ (n + b) + i = n + (b + i)
    BY <1>0
  <2> QED
    BY <1>1, <1>2, <2>1
<1>5. ASSUME NEW k \in (n + b) + 8 .. n + l
      PROVE  t[k].kind # "slot" /\ t[k].pin \notin Shows
  <2>1. k - n \in 1 .. l /\ k - n \in b + 8 .. l /\ n + (k - n) = k
    BY <1>0
  <2>2. t[n + (k - n)] = s[k - n]
    BY <1>1, <2>1, Zenon
  <2>3. s[k - n].kind # "slot" /\ s[k - n].pin \notin Shows
    BY <1>2, <2>1, Zenon
  <2> QED
    BY <2>1, <2>2, <2>3, Zenon
<1>6. (n + b) + 7 <= Len(t)
  BY <1>0
<1>7. Starts(t, n + b, c)
  BY <1>1, <1>3, <1>4, <1>5, <1>6 DEF Starts, st
<1> QED
  BY <1>7 DEF t, n

LEMMA StartBefore ==
  ASSUME NEW c \in Cards, NEW s, NEW b \in Nat, Starts(s, b, c),
         NEW z \in Seq(Steps), \A k \in 1 .. Len(z) : z[k].kind # "slot" /\ z[k].pin \notin Shows
  PROVE  Starts(s \o z, b, c)
<1> DEFINE t == s \o z
           n == Len(z)
           l == Len(s)
           st == CardStart(c)
<1>1. /\ t \in Seq(Steps) /\ n \in Nat /\ l \in Nat /\ Len(t) = l + n /\ b + 7 <= l
      /\ \A k \in 1 .. l : t[k] = s[k]
      /\ \A k \in 1 .. n : t[l + k] = z[k] /\ z[k].kind # "slot" /\ z[k].pin \notin Shows
  <2>1. s \in Seq(Steps) /\ b + 7 <= Len(s)
    BY DEF Starts
  <2> QED
    BY <2>1, Joined
<1>2. /\ \A k \in 1 .. b : s[k].kind = "clear"
      /\ \A i \in 1 .. 7 : s[b + i] = st[i]
      /\ \A k \in b + 8 .. l : s[k].kind # "slot" /\ s[k].pin \notin Shows
  BY DEF Starts
<1> HIDE DEF t, n, l, st
<1>0. n \in Nat /\ l \in Nat /\ b + 7 <= l /\ Len(t) = n + l
  BY <1>1
<1>3. ASSUME NEW k \in 1 .. b
      PROVE  t[k].kind = "clear"
  <2>1. k \in 1 .. l
    BY <1>0
  <2> QED
    BY <1>1, <1>2, <2>1
<1>4. ASSUME NEW i \in 1 .. 7
      PROVE  t[b + i] = st[i]
  <2>1. b + i \in 1 .. l
    BY <1>0
  <2> QED
    BY <1>1, <1>2, <2>1
<1>5. ASSUME NEW k \in b + 8 .. l + n
      PROVE  t[k].kind # "slot" /\ t[k].pin \notin Shows
  <2>1. CASE k <= l
    <3>1. k \in 1 .. l /\ k \in b + 8 .. l
      BY <1>0, <2>1
    <3> QED
      BY <1>1, <1>2, <3>1
  <2>2. CASE k > l
    <3>1. k - l \in 1 .. n /\ l + (k - l) = k
      BY <1>0, <2>2
    <3> QED
      BY <1>1, <3>1
  <2> QED
    BY <1>0, <2>1, <2>2
<1>6. b + 7 <= Len(t)
  BY <1>0
<1>7. Starts(t, b, c)
  BY <1>1, <1>3, <1>4, <1>5, <1>6 DEF Starts, st
<1> QED
  BY <1>7 DEF t

\* A switch, the start of a card by hand, and the start of the program.
LEMMA OperationsStart ==
  /\ \A c, d \in Cards : Starts(CardToCard(c, d), 1, d) /\ CardToCard(c, d)[1] = PinClear(EN[c])
  /\ Starts(SimCtrlInit, 4, "CMCC")
<1>1. \A c \in Cards : CardStart(c) \in Seq(Steps)
  BY StartForm
<1>2. /\ ModemReset \in Seq(Steps) /\ Pulse(MODEM_POWER) \in Seq(Steps)
      /\ \A k \in 1 .. Len(ModemReset) :
           ModemReset[k].kind # "slot" /\ ModemReset[k].pin \notin Shows
      /\ \A k \in 1 .. Len(Pulse(MODEM_POWER)) :
           Pulse(MODEM_POWER)[k].kind # "slot" /\ Pulse(MODEM_POWER)[k].pin \notin Shows
  BY DEF ModemReset, Pulse, PinSet, PinClear, MODEM_RESET, MODEM_POWER, CSEL1, CSEL2, SWDN, OUT_EN, EN,
         Shows, Steps, Pins
<1>3. ASSUME NEW c \in Cards, NEW d \in Cards
      PROVE  Starts(CardToCard(c, d), 1, d) /\ CardToCard(c, d)[1] = PinClear(EN[c])
  <2> DEFINE a == CardStop(c)
             s == a \o CardStart(d)
  <2>1. a \in Seq(Steps) /\ Len(a) = 1 /\ a[1] = PinClear(EN[c]) /\ \A k \in 1 .. Len(a) : a[k].kind = "clear"
    BY DEF CardStop, PinClear, EN, Cards, Steps, Pins
  <2> HIDE DEF a
  <2>2. Starts(s, Len(a) + 0, d)
    BY <2>1, StartAlone, StartAfter
  <2>3. s[1] = a[1]
    <3>1. a \in Seq(Steps) /\ CardStart(d) \in Seq(Steps)
      BY <1>1, <2>1
    <3>2. \A k \in 1 .. Len(a) : s[k] = a[k]
      BY <3>1, Joined
    <3>3. 1 \in 1 .. Len(a)
      BY <2>1
    <3> QED
      BY <3>2, <3>3
  <2> HIDE DEF s
  <2>4. Starts(s \o ModemReset, 1, d)
    BY <1>2, <2>1, <2>2, StartBefore
  <2>5. (s \o ModemReset)[1] = s[1]
    <3>1. s \in Seq(Steps) /\ 1 \in 1 .. Len(s)
      BY <2>1, <2>2 DEF Starts
    <3> QED
      BY <1>2, <3>1, Joined
  <2>6. CardToCard(c, d) = s \o ModemReset
    BY DEF CardToCard, s, a
  <2> QED
    BY <2>1, <2>3, <2>4, <2>5, <2>6
<1>4. Starts(SimCtrlInit, 4, "CMCC")
  <2> DEFINE a == <<PinClear(6), PinClear(4), PinClear(OUT_EN), PinClear(2)>>
             s == a \o CardStart("CMCC")
  <2>1. a \in Seq(Steps) /\ Len(a) = 4 /\ \A k \in 1 .. Len(a) : a[k].kind = "clear"
    BY DEF PinClear, OUT_EN, Steps, Pins
  <2> HIDE DEF a
  <2>2. Starts(s, Len(a) + 0, "CMCC")
    BY <2>1, StartAlone, StartAfter DEF Cards
  <2> HIDE DEF s
  <2>3. Starts(s \o ModemReset, 4, "CMCC")
    BY <1>2, <2>1, <2>2, StartBefore DEF Cards
  <2>4. Starts((s \o ModemReset) \o Pulse(MODEM_POWER), 4, "CMCC")
    BY <1>2, <2>3, StartBefore DEF Cards
  <2> QED
    BY <2>4 DEF SimCtrlInit, s, a
<1> QED
  BY <1>3, <1>4

-----------------------------------------------------------------------------
(* SimCtrl: an operation that starts a card *)

\* The writes of a start, by the pins they are for.
LEMMA Shape ==
  ASSUME NEW s, NEW c \in Cards, NEW b \in Nat, Starts(s, b, c)
  PROVE  /\ s[b + 1].kind = "set" /\ s[b + 1].pin = 3
         /\ s[b + 5].kind = "clear" /\ s[b + 5].pin = 3
         /\ s[b + 6].kind = "set" /\ s[b + 6].pin = EN[c]
         /\ s[b + 7] = NameSlot(c)
         /\ c = "CMCC" => /\ s[b + 2].kind = "clear" /\ s[b + 2].pin = 2
                          /\ s[b + 3].kind = "set" /\ s[b + 3].pin = 11
                          /\ s[b + 4].kind = "clear" /\ s[b + 4].pin = 4
         /\ c = "CUCC" => /\ s[b + 2].kind = "clear" /\ s[b + 2].pin = 2
                          /\ s[b + 3].kind = "set" /\ s[b + 3].pin = 11
                          /\ s[b + 4].kind = "set" /\ s[b + 4].pin = 4
         /\ c = "CTCC" => /\ s[b + 2].kind = "clear" /\ s[b + 2].pin = 11
                          /\ s[b + 3].kind = "clear" /\ s[b + 3].pin = 4
                          /\ s[b + 4].kind = "set" /\ s[b + 4].pin = 2
<1> DEFINE st == CardStart(c)
           x == CardSelect(c)
<1>1. /\ s[b + 1] = st[1] /\ s[b + 2] = st[2] /\ s[b + 3] = st[3] /\ s[b + 4] = st[4]
      /\ s[b + 5] = st[5] /\ s[b + 6] = st[6] /\ s[b + 7] = st[7]
  <2>1. \A i \in 1 .. 7 : s[b + i] = st[i]
    BY DEF Starts
  <2> HIDE DEF st
  <2> QED
    BY <2>1
<1>2. /\ st[1] = PinSet(SWDN) /\ st[2] = x[1] /\ st[3] = x[2] /\ st[4] = x[3]
      /\ st[5] = PinClear(SWDN) /\ st[6] = PinSet(EN[c]) /\ st[7] = NameSlot(c)
  BY StartForm
<1> HIDE DEF st
<1>3. c = "CMCC" => x[1] = PinClear(CSEL2) /\ x[2] = PinSet(OUT_EN) /\ x[3] = PinClear(CSEL1)
  BY DEF CardSelect
<1>4. c = "CUCC" => x[1] = PinClear(CSEL2) /\ x[2] = PinSet(OUT_EN) /\ x[3] = PinSet(CSEL1)
  BY DEF CardSelect
<1>5. c = "CTCC" => x[1] = PinClear(OUT_EN) /\ x[2] = PinClear(CSEL1) /\ x[3] = PinSet(CSEL2)
  BY DEF CardSelect
<1> HIDE DEF x
<1>6. \A p : /\ PinSet(p).kind = "set" /\ PinSet(p).pin = p
             /\ PinClear(p).kind = "clear" /\ PinClear(p).pin = p
  BY DEF PinSet, PinClear
<1> QED
  BY <1>1, <1>2, <1>3, <1>4, <1>5, <1>6 DEF SWDN, CSEL1, CSEL2, OUT_EN

\* The last write of a pin before step k decides its level.
LEMMA LastWrite ==
  ASSUME NEW s, NEW h, NEW l, NEW k \in Nat, NEW p, NEW j \in 1 .. k - 1,
         s[j].pin = p, \A m \in j + 1 .. k - 1 : s[m].kind = "slot" \/ s[m].pin # p
  PROVE  /\ s[j].kind = "set" => HighAt(s, h, k, p)
         /\ s[j].kind = "clear" => LowAt(s, l, k, p)
  BY DEF HighAt, LowAt, Sets, Clears, Writes

\* A start raises a selecting pin under the switch that is down, or one that is high already.
LEMMA StartSafely ==
  ASSUME NEW s, NEW h, NEW c \in Cards, NEW b \in Nat, Starts(s, b, c)
  PROVE  Safely(s, h)
<1>1. /\ s[b + 1].kind = "set" /\ s[b + 1].pin = 3
      /\ s[b + 5].kind = "clear" /\ s[b + 5].pin = 3
      /\ s[b + 6].pin = EN[c] /\ s[b + 7].kind = "slot"
  <2>1. /\ s[b + 1].kind = "set" /\ s[b + 1].pin = 3
        /\ s[b + 5].kind = "clear" /\ s[b + 5].pin = 3
        /\ s[b + 6].pin = EN[c] /\ s[b + 7] = NameSlot(c)
    BY Shape
  <2> QED
    BY <2>1 DEF NameSlot
<1>2. s[b + 2].pin # 3 /\ s[b + 3].pin # 3 /\ s[b + 4].pin # 3
  BY Shape DEF Cards
<1>3. c # "CMCC" => s[b + 4].kind = "set" /\ s[b + 4].pin = EN[c]
  BY Shape DEF Cards, EN
<1>4. /\ Len(s) \in Nat
      /\ \A k \in 1 .. b : s[k].kind = "clear"
      /\ \A k \in b + 8 .. Len(s) : s[k].pin \notin {2, 4, 11}
  <2>1. /\ Len(s) \in Nat
        /\ \A k \in 1 .. b : s[k].kind = "clear"
        /\ \A k \in b + 8 .. Len(s) : s[k].pin \notin Shows
    BY SMTT(30) DEF Starts
  <2> QED
    BY <2>1 DEF Shows, CSEL1, CSEL2, OUT_EN
<1> SUFFICES ASSUME NEW k \in 1 .. Len(s), NEW p \in {2, 4, 11}, Sets(s, k, p)
             PROVE  HighAt(s, h, k, p) \/ HighAt(s, h, k, 3)
  BY DEF Safely, CSEL1, CSEL2, OUT_EN, SWDN
<1>5. s[k].kind = "set" /\ s[k].pin = p
  BY DEF Sets
<1>6. \/ k \in 1 .. b \/ k \in b + 8 .. Len(s)
      \/ k = b + 1 \/ k = b + 2 \/ k = b + 3 \/ k = b + 4 \/ k = b + 5 \/ k = b + 6 \/ k = b + 7
  OBVIOUS
<1>7. k = b + 2 \/ k = b + 3 \/ k = b + 4 \/ k = b + 6
  <2>1. k \notin 1 .. b /\ k \notin b + 8 .. Len(s)
    BY <1>4, <1>5
  <2>2. k # b + 1 /\ k # b + 5 /\ k # b + 7
    BY <1>1, <1>5
  <2> QED
    BY <1>6, <2>1, <2>2
<1>8. CASE k = b + 2 \/ k = b + 3 \/ k = b + 4
  <2>1. \A m \in (b + 1) + 1 .. k - 1 : m = b + 2 \/ m = b + 3
    BY <1>8
  <2>2. \A m \in (b + 1) + 1 .. k - 1 : s[m].pin # 3
    BY <1>2, <2>1
  <2>3. b + 1 \in 1 .. k - 1 /\ k \in Nat
    BY <1>8
  <2> QED
    BY <1>1, <2>2, <2>3, LastWrite
<1>9. CASE k = b + 6
  <2>1. p = EN[c] /\ p # 3 /\ c # "CMCC"
    BY <1>1, <1>5, <1>9 DEF EN
  <2>2. s[b + 4].kind = "set" /\ s[b + 4].pin = p
    BY <1>3, <2>1
  <2>3. \A m \in (b + 4) + 1 .. k - 1 : m = b + 5
    BY <1>9
  <2>4. \A m \in (b + 4) + 1 .. k - 1 : s[m].pin # p
    BY <1>1, <2>1, <2>3
  <2>5. b + 4 \in 1 .. k - 1 /\ k \in Nat
    BY <1>9
  <2> QED
    BY <2>2, <2>4, <2>5, LastWrite
<1> QED
  BY <1>7, <1>8, <1>9

\* A start leaves the levels that show its card, if it begins with CmccEnable low for another.
LEMMA StartEnds ==
  ASSUME NEW s, NEW h, NEW l, NEW g, NEW c \in Cards, NEW b \in Nat, Starts(s, b, c),
         c # "CMCC" => LowAt(s, l, b + 1, 6)
  PROVE  Named(s, g, c) /\ Levelled(s, h, l, c)
<1> DEFINE n == Len(s)
<1>1. n \in Nat /\ b + 7 <= n
  BY DEF Starts
<1>2. /\ \A k \in 1 .. b : s[k].kind = "clear"
      /\ \A k \in b + 8 .. n : s[k].kind # "slot" /\ s[k].pin \notin {2, 3, 4, 6, 11}
  BY DEF Starts, Shows, CSEL1, CSEL2, OUT_EN, SWDN, EN
<1> HIDE DEF n
<1>3. \A k \in 1 .. n : \/ k \in 1 .. b \/ k \in b + 8 .. n
                        \/ k = b + 1 \/ k = b + 2 \/ k = b + 3 \/ k = b + 4 \/ k = b + 5 \/ k = b + 6
                        \/ k = b + 7
  BY <1>1
<1>4. Named(s, g, c)
  <2>1. s[b + 7] = NameSlot(c)
    BY Shape
  <2>2. /\ s[b + 1].kind # "slot" /\ s[b + 2].kind # "slot" /\ s[b + 3].kind # "slot"
        /\ s[b + 4].kind # "slot" /\ s[b + 5].kind # "slot" /\ s[b + 6].kind # "slot"
    BY Shape DEF Cards
  <2>3. \A m \in 1 .. n : m # b + 7 => s[m].kind # "slot"
    BY <1>2, <1>3, <2>2
  <2>4. b + 7 \in 1 .. n
    BY <1>1
  <2> QED
    BY <2>1, <2>3, <2>4 DEF Named, n
\* The last of the steps b + 2 to b + 6 for a pin decides its level.
<1>5. ASSUME NEW k \in 2 .. 6, NEW p \in {2, 3, 4, 6, 11}, s[b + k].pin = p,
             \A m \in k + 1 .. 6 : s[b + m].pin # p
      PROVE  /\ s[b + k].kind = "set" => HighAt(s, h, n + 1, p)
             /\ s[b + k].kind = "clear" => LowAt(s, l, n + 1, p)
  <2>1. b + k \in 1 .. (n + 1) - 1
    BY <1>1
  <2>2. ASSUME NEW m \in (b + k) + 1 .. (n + 1) - 1
        PROVE  s[m].kind = "slot" \/ s[m].pin # p
    <3>1. CASE m \in b + 8 .. n
      BY <1>2, <3>1
    <3>2. CASE m = b + 7
      <4>1. s[b + 7] = NameSlot(c)
        BY Shape
      <4> QED
        BY <3>2, <4>1 DEF NameSlot
    <3>3. CASE m < b + 7
      <4>1. m - b \in k + 1 .. 6 /\ b + (m - b) = m
        BY <3>3
      <4> QED
        BY <1>5, <4>1
    <3>4. m \in b + 8 .. n \/ m = b + 7 \/ m < b + 7
      BY <1>1
    <3> QED
      BY <3>1, <3>2, <3>3, <3>4
  <2> DEFINE j == b + k
             e == n + 1
  <2>3. e \in Nat /\ j \in 1 .. e - 1 /\ s[j].pin = p
    BY <1>1, <1>5, <2>1
  <2> HIDE DEF e, j
  <2>4. \A m \in j + 1 .. e - 1 : s[m].kind = "slot" \/ s[m].pin # p
    BY <2>2 DEF e, j
  <2>5. /\ s[j].kind = "set" => HighAt(s, h, e, p)
        /\ s[j].kind = "clear" => LowAt(s, l, e, p)
    BY <2>3, <2>4, LastWrite
  <2> QED
    BY <2>5 DEF e, j
<1>6. \A m \in 5 .. 6 : m = 5 \/ m = 6
  OBVIOUS
<1>7. \A m \in 4 .. 6 : m = 4 \/ m = 5 \/ m = 6
  OBVIOUS
<1>8. \A m \in 3 .. 6 : m = 3 \/ m = 4 \/ m = 5 \/ m = 6
  OBVIOUS
<1>9. \A m \in 6 + 1 .. 6 : FALSE
  OBVIOUS
<1>10. LowAt(s, l, n + 1, 3)
  <2>1. s[b + 5].kind = "clear" /\ s[b + 5].pin = 3 /\ s[b + 6].pin # 3
    BY Shape DEF Cards, EN
  <2>2. \A m \in 5 + 1 .. 6 : m = 6
    OBVIOUS
  <2> QED
    BY <1>5, <2>1, <2>2
<1>11. CASE c = "CMCC"
  <2>1. /\ s[b + 2].kind = "clear" /\ s[b + 2].pin = 2
        /\ s[b + 3].kind = "set" /\ s[b + 3].pin = 11
        /\ s[b + 4].kind = "clear" /\ s[b + 4].pin = 4
        /\ s[b + 5].pin = 3 /\ s[b + 6].kind = "set" /\ s[b + 6].pin = 6
    <3>1. EN["CMCC"] = 6
      BY DEF EN
    <3> QED
      BY <1>11, <3>1, Shape
  <2>2. LowAt(s, l, n + 1, 2) /\ HighAt(s, h, n + 1, 11) /\ LowAt(s, l, n + 1, 4) /\ HighAt(s, h, n + 1, 6)
    BY <1>5, <1>6, <1>7, <1>8, <1>9, <2>1
  <2> QED
    BY <1>4, <1>10, <1>11, <2>2 DEF Levelled, Should, Shows, n, CSEL1, CSEL2, OUT_EN, SWDN, EN
<1>12. ASSUME c # "CMCC"
       PROVE  LowAt(s, l, n + 1, 6)
  <2>1. /\ s[b + 1].pin # 6 /\ s[b + 2].pin # 6 /\ s[b + 3].pin # 6
        /\ s[b + 4].pin # 6 /\ s[b + 5].pin # 6 /\ s[b + 6].pin # 6
        /\ s[b + 7].kind = "slot"
    BY <1>12, Shape DEF Cards, EN, NameSlot
  <2>2. \A m \in b + 1 .. n : m \in 1 .. n /\ m \notin 1 .. b
    OBVIOUS
  <2>3. \A m \in b + 1 .. n : ~Writes(s, m, 6)
    BY <1>2, <1>3, <2>1, <2>2 DEF Writes
  <2>4. (b + 1) - 1 = b /\ (n + 1) - 1 = n
    BY <1>1
  <2>5. CASE \E j \in 1 .. b : Clears(s, j, 6) /\ \A m \in j + 1 .. b : ~Writes(s, m, 6)
    <3>1. PICK j \in 1 .. b : Clears(s, j, 6) /\ \A m \in j + 1 .. b : ~Writes(s, m, 6)
      BY <2>5
    <3>2. j \in 1 .. n /\ \A m \in j + 1 .. n : m \in j + 1 .. b \/ m \in b + 1 .. n
      BY <1>1
    <3> QED
      BY <2>3, <2>4, <3>1, <3>2 DEF LowAt
  <2>6. CASE (\A m \in 1 .. b : ~Writes(s, m, 6)) /\ 6 \notin l
    <3>1. \A m \in 1 .. n : m \in 1 .. b \/ m \in b + 1 .. n
      BY <1>1
    <3> QED
      BY <2>3, <2>4, <2>6, <3>1 DEF LowAt
  <2> QED
    BY <1>12, <2>4, <2>5, <2>6 DEF LowAt
<1>13. CASE c = "CUCC"
  <2>1. /\ s[b + 2].kind = "clear" /\ s[b + 2].pin = 2
        /\ s[b + 3].kind = "set" /\ s[b + 3].pin = 11 /\ s[b + 4].pin = 4
        /\ s[b + 5].pin = 3 /\ s[b + 6].kind = "set" /\ s[b + 6].pin = 4
    <3>1. EN["CUCC"] = 4
      BY DEF EN
    <3> QED
      BY <1>13, <3>1, Shape
  <2>2. LowAt(s, l, n + 1, 2) /\ HighAt(s, h, n + 1, 11) /\ HighAt(s, h, n + 1, 4)
    BY <1>5, <1>6, <1>7, <1>8, <1>9, <2>1
  <2> QED
    BY <1>4, <1>10, <1>12, <1>13, <2>2
    DEF Levelled, Should, Shows, n, CSEL1, CSEL2, OUT_EN, SWDN, EN
<1>14. CASE c = "CTCC"
  <2>1. /\ s[b + 2].kind = "clear" /\ s[b + 2].pin = 11
        /\ s[b + 3].kind = "clear" /\ s[b + 3].pin = 4 /\ s[b + 4].pin = 2
        /\ s[b + 5].pin = 3 /\ s[b + 6].kind = "set" /\ s[b + 6].pin = 2
    <3>1. EN["CTCC"] = 2
      BY DEF EN
    <3> QED
      BY <1>14, <3>1, Shape
  <2>2. LowAt(s, l, n + 1, 11) /\ LowAt(s, l, n + 1, 4) /\ HighAt(s, h, n + 1, 2)
    BY <1>5, <1>6, <1>7, <1>8, <1>9, <2>1
  <2> QED
    BY <1>4, <1>10, <1>12, <1>14, <2>2
    DEF Levelled, Should, Shows, n, CSEL1, CSEL2, OUT_EN, SWDN, EN
<1> QED
  BY <1>11, <1>13, <1>14 DEF Cards

-----------------------------------------------------------------------------
(* SimCtrl: the invariant *)

\* The steps before step k + 1 are the first, and those before step k of what is left.
LEMMA ShiftedBefore ==
  ASSUME NEW s \in Seq(Steps), s # <<>>, NEW k \in 1 .. Len(s), NEW h, NEW i, NEW l, NEW m, NEW p,
         p \in h /\ ~Writes(s, 1, p) => p \in i, Sets(s, 1, p) => p \in i,
         p \notin l /\ ~Writes(s, 1, p) => p \notin m, Clears(s, 1, p) => p \notin m
  PROVE  /\ HighAt(s, h, k + 1, p) => HighAt(Tail(s), i, k, p)
         /\ LowAt(s, l, k + 1, p) => LowAt(Tail(s), m, k, p)
<1> DEFINE t == Tail(s)
<1>1. \A n \in 1 .. k - 1 : t[n] = s[n + 1]
  OBVIOUS
<1> HIDE DEF t
<1>2. /\ \A n \in 1 .. k - 1 : Writes(t, n, p) <=> Writes(s, n + 1, p)
      /\ \A n \in 1 .. k - 1 : Sets(t, n, p) <=> Sets(s, n + 1, p)
      /\ \A n \in 1 .. k - 1 : Clears(t, n, p) <=> Clears(s, n + 1, p)
  BY <1>1 DEF Writes, Sets, Clears
<1>3. ASSUME NEW j \in 1 .. (k + 1) - 1, \A n \in j + 1 .. (k + 1) - 1 : ~Writes(s, n, p)
      PROVE  \A n \in j .. k - 1 : ~Writes(t, n, p)
  <2> SUFFICES ASSUME NEW n \in j .. k - 1
               PROVE  ~Writes(t, n, p)
    OBVIOUS
  <2>1. n + 1 \in j + 1 .. (k + 1) - 1 /\ n \in 1 .. k - 1
    OBVIOUS
  <2> QED
    BY <1>2, <1>3, <2>1
<1>4. ASSUME \A n \in 1 .. (k + 1) - 1 : ~Writes(s, n, p)
      PROVE  ~Writes(s, 1, p) /\ \A n \in 1 .. k - 1 : ~Writes(t, n, p)
  <2>1. 1 \in 1 .. (k + 1) - 1 /\ \A n \in 1 .. k - 1 : n + 1 \in 1 .. (k + 1) - 1
    OBVIOUS
  <2> QED
    BY <1>2, <1>4, <2>1
<1>5. ASSUME HighAt(s, h, k + 1, p)
      PROVE  HighAt(t, i, k, p)
  <2>1. CASE \E j \in 1 .. (k + 1) - 1 :
               Sets(s, j, p) /\ \A n \in j + 1 .. (k + 1) - 1 : ~Writes(s, n, p)
    <3>1. PICK j \in 1 .. (k + 1) - 1 :
            Sets(s, j, p) /\ \A n \in j + 1 .. (k + 1) - 1 : ~Writes(s, n, p)
      BY <2>1
    <3>2. \A n \in j .. k - 1 : ~Writes(t, n, p)
      BY <1>3, <3>1
    <3>3. CASE j = 1
      BY <3>1, <3>2, <3>3 DEF HighAt
    <3>4. CASE j # 1
      <4>1. j - 1 \in 1 .. k - 1 /\ (j - 1) + 1 = j
        BY <3>4
      <4>2. Sets(t, j - 1, p)
        BY <1>2, <3>1, <4>1
      <4> QED
        BY <3>2, <4>1, <4>2 DEF HighAt
    <3> QED
      BY <3>3, <3>4
  <2>2. CASE (\A n \in 1 .. (k + 1) - 1 : ~Writes(s, n, p)) /\ p \in h
    BY <1>4, <2>2 DEF HighAt
  <2> QED
    BY <1>5, <2>1, <2>2 DEF HighAt
<1>6. ASSUME LowAt(s, l, k + 1, p)
      PROVE  LowAt(t, m, k, p)
  <2>1. CASE \E j \in 1 .. (k + 1) - 1 :
               Clears(s, j, p) /\ \A n \in j + 1 .. (k + 1) - 1 : ~Writes(s, n, p)
    <3>1. PICK j \in 1 .. (k + 1) - 1 :
            Clears(s, j, p) /\ \A n \in j + 1 .. (k + 1) - 1 : ~Writes(s, n, p)
      BY <2>1
    <3>2. \A n \in j .. k - 1 : ~Writes(t, n, p)
      BY <1>3, <3>1
    <3>3. CASE j = 1
      BY <3>1, <3>2, <3>3 DEF LowAt
    <3>4. CASE j # 1
      <4>1. j - 1 \in 1 .. k - 1 /\ (j - 1) + 1 = j
        BY <3>4
      <4>2. Clears(t, j - 1, p)
        BY <1>2, <3>1, <4>1
      <4> QED
        BY <3>2, <4>1, <4>2 DEF LowAt
    <3> QED
      BY <3>3, <3>4
  <2>2. CASE (\A n \in 1 .. (k + 1) - 1 : ~Writes(s, n, p)) /\ p \notin l
    BY <1>4, <2>2 DEF LowAt
  <2> QED
    BY <1>6, <2>1, <2>2 DEF LowAt
<1> QED
  BY <1>5, <1>6 DEF t

\* One step of an operation, done or missed, leaves what its rest leads to.
LEMMA OneStepInv ==
  ASSUME SimInv, PinWrite \/ PinFail \/ SlotNamed
  PROVE  SimInv'
<1> USE DEF SimInv
<1>1. /\ todo # <<>> /\ todo' = Tail(todo) /\ astray' = astray /\ todo \in Seq(Steps)
      /\ todo[1] \in Steps /\ Len(todo) \in Nat
  BY DEF PinWrite, PinFail, SlotNamed, AtRest, SimTypeOK, Steps
<1>2. /\ todo' \in Seq(Steps) /\ Len(todo') = Len(todo) - 1
      /\ \A k \in 1 .. Len(todo') : todo'[k] = todo[k + 1]
  BY <1>1
<1>3. SimTypeOK'
  <2>1. high' \subseteq Pins /\ missed' \subseteq Pins
    <3>1. todo[1].kind # "slot" => todo[1].pin \in Pins
      BY <1>1 DEF Steps
    <3> QED
      BY <3>1 DEF SimTypeOK, PinWrite, PinFail, SlotNamed
  <2>2. gCurSlot' \in Cards /\ cn_oper' \in Cards
    <3>1. todo[1].kind = "slot" => todo[1].card \in Cards
      BY <1>1 DEF Steps
    <3> QED
      BY <3>1 DEF SimTypeOK, PinWrite, PinFail, SlotNamed
  <2> QED
    BY <1>1, <1>2, <2>1, <2>2 DEF SimTypeOK, Steps
<1>4. \A p : /\ p \in Upper /\ ~Writes(todo, 1, p) => p \in Upper'
             /\ Sets(todo, 1, p) => p \in Upper'
             /\ p \notin Lower /\ ~Writes(todo, 1, p) => p \notin Lower'
             /\ Clears(todo, 1, p) => p \notin Lower'
  <2>1. CASE PinWrite
    BY <2>1 DEF PinWrite, Upper, Lower, Writes, Sets, Clears
  <2>2. CASE PinFail
    BY <2>2 DEF PinFail, Upper, Lower, Writes, Sets, Clears
  <2>3. CASE SlotNamed
    BY <2>3 DEF SlotNamed, Upper, Lower, Writes, Sets, Clears
  <2> QED
    BY <2>1, <2>2, <2>3
<1>5. \A k \in 1 .. Len(todo) : \A p :
        /\ HighAt(todo, Upper, k + 1, p) => HighAt(todo', Upper', k, p)
        /\ LowAt(todo, Lower, k + 1, p) => LowAt(todo', Lower', k, p)
  <2> SUFFICES ASSUME NEW k \in 1 .. Len(todo), NEW p
               PROVE  /\ HighAt(todo, Upper, k + 1, p) => HighAt(Tail(todo), Upper', k, p)
                      /\ LowAt(todo, Lower, k + 1, p) => LowAt(Tail(todo), Lower', k, p)
    BY <1>1
  <2> QED
    BY <1>1, <1>4, ShiftedBefore
<1>6. Safely(todo, Upper)'
  <2> SUFFICES ASSUME NEW k \in 1 .. Len(todo'), NEW p \in {CSEL1, CSEL2, OUT_EN}, Sets(todo', k, p)
               PROVE  HighAt(todo', Upper', k, p) \/ HighAt(todo', Upper', k, SWDN)
    BY DEF Safely
  <2>1. k + 1 \in 1 .. Len(todo) /\ k \in 1 .. Len(todo)
    BY <1>1, <1>2
  <2>2. Sets(todo, k + 1, p)
    BY <1>2 DEF Sets
  <2>3. HighAt(todo, Upper, k + 1, p) \/ HighAt(todo, Upper, k + 1, SWDN)
    BY <2>1, <2>2 DEF Safely
  <2> QED
    BY <1>5, <2>1, <2>3
<1>7. ASSUME NEW c \in Cards, Levelled(todo, Upper, Lower, c)
      PROVE  Levelled(todo', Upper', Lower', c)
  <2>1. Len(todo') + 1 = Len(todo) /\ Len(todo) \in 1 .. Len(todo)
    BY <1>1, <1>2
  <2> QED
    BY <1>5, <1>7, <2>1 DEF Levelled
<1>8. ASSUME NEW c \in Cards, Named(todo, gCurSlot, c)
      PROVE  Named(todo', gCurSlot', c)
  <2>1. \A k \in 1 .. Len(todo') : k + 1 \in 1 .. Len(todo) /\ k + 1 # 1
    BY <1>1, <1>2
  <2>2. 1 \in 1 .. Len(todo)
    BY <1>1
  <2>3. CASE c = gCurSlot /\ \A k \in 1 .. Len(todo) : todo[k].kind # "slot"
    <3>1. gCurSlot' = gCurSlot
      BY <2>2, <2>3 DEF PinWrite, PinFail, SlotNamed
    <3> QED
      BY <1>2, <2>1, <2>3, <3>1 DEF Named
  <2>4. CASE \E k \in 1 .. Len(todo) :
               todo[k] = NameSlot(c) /\ \A m \in 1 .. Len(todo) : m # k => todo[m].kind # "slot"
    <3>1. PICK k \in 1 .. Len(todo) :
            todo[k] = NameSlot(c) /\ \A m \in 1 .. Len(todo) : m # k => todo[m].kind # "slot"
      BY <2>4
    <3>2. CASE k = 1
      <4>1. gCurSlot' = c
        BY <3>1, <3>2 DEF PinWrite, PinFail, SlotNamed, NameSlot
      <4>2. \A m \in 1 .. Len(todo') : todo'[m].kind # "slot"
        BY <1>2, <2>1, <3>1, <3>2
      <4> QED
        BY <4>1, <4>2 DEF Named
    <3>3. CASE k # 1
      <4>1. k - 1 \in 1 .. Len(todo') /\ (k - 1) + 1 = k
        BY <1>2, <3>3
      <4>2. todo'[k - 1] = NameSlot(c)
        BY <1>2, <3>1, <4>1
      <4>3. \A m \in 1 .. Len(todo') : m # k - 1 => m + 1 # k
        BY <3>3
      <4>4. \A m \in 1 .. Len(todo') : m # k - 1 => todo'[m].kind # "slot"
        BY <1>2, <2>1, <3>1, <4>3
      <4> QED
        BY <4>1, <4>2, <4>4 DEF Named
    <3> QED
      BY <3>2, <3>3
  <2> QED
    BY <1>8, <2>3, <2>4 DEF Named
<1> QED
  BY <1>1, <1>3, <1>6, <1>7, <1>8

\* With nothing under way the pins have the levels of a card that is named and levelled.
LEMMA RestShows ==
  ASSUME NEW s, NEW h, NEW l, NEW g, NEW c \in Cards, Len(s) = 0
  PROVE  /\ Named(s, g, c) => c = g
         /\ Levelled(s, h, l, c) <=> \A p \in Shows : IF p \in Should(c) THEN p \in h ELSE p \notin l
<1>1. 1 .. Len(s) = {} /\ 1 .. (Len(s) + 1) - 1 = {}
  OBVIOUS
<1> QED
  BY <1>1 DEF Named, Levelled, HighAt, LowAt

LEMMA SimInitInv == SimInit => SimInv
<1> SUFFICES ASSUME SimInit PROVE SimInv
  OBVIOUS
<1>1. Starts(todo, 4, "CMCC") /\ "CMCC" \in Cards
  BY OperationsStart DEF SimInit, Cards
<1>2. SimTypeOK
  <2>1. todo \in Seq(Steps)
    BY <1>1 DEF Starts
  <2>2. high \subseteq Pins /\ missed \subseteq Pins
    BY DEF SimInit, EN, OUT_EN, Pins
  <2> QED
    BY <1>1, <2>1, <2>2 DEF SimTypeOK, SimInit, Steps
<1>3. Safely(todo, Upper)
  BY <1>1, StartSafely
<1>4. Named(todo, gCurSlot, "CMCC") /\ Levelled(todo, Upper, Lower, "CMCC")
  BY <1>1, StartEnds
<1> QED
  BY <1>1, <1>2, <1>3, <1>4 DEF SimInv

LEMMA RestartInv ==
  ASSUME SimInv, SimRestart
  PROVE  SimInv'
<1>1. Starts(todo', 4, "CMCC") /\ "CMCC" \in Cards
  BY OperationsStart DEF SimRestart, Cards
<1>2. SimTypeOK'
  <2>1. todo' \in Seq(Steps)
    BY <1>1 DEF Starts
  <2> QED
    BY <1>1, <2>1 DEF SimInv, SimTypeOK, SimRestart, Steps
<1>3. Safely(todo', Upper')
  BY <1>1, StartSafely
<1>4. Named(todo', gCurSlot', "CMCC") /\ Levelled(todo', Upper', Lower', "CMCC")
  BY <1>1, StartEnds
<1> QED
  BY <1>1, <1>2, <1>3, <1>4 DEF SimInv

\* A switch begins by stopping the card it takes to be the current one: with that card shown,
\* CmccEnable is low when another is started.
LEMMA OperSetInv ==
  ASSUME SimInv, NEW d \in Cards, NEW ok \in BOOLEAN, OperSet(d, ok)
  PROVE  SimInv'
<1>1. /\ todo = <<>> /\ todo' = CardToCard(cn_oper, d) /\ cn_oper \in Cards /\ gCurSlot \in Cards
      /\ high' = high /\ missed' = missed /\ gCurSlot' = gCurSlot
      /\ astray \in BOOLEAN /\ astray' = (astray \/ cn_oper # gCurSlot)
  BY DEF OperSet, AtRest, SimInv, SimTypeOK
<1>2. Starts(todo', 1, d) /\ todo'[1] = PinClear(EN[cn_oper])
  BY <1>1, OperationsStart
<1>3. SimTypeOK'
  <2>1. todo' \in Seq(Steps)
    BY <1>2 DEF Starts
  <2>2. cn_oper' \in Cards
    BY <1>1 DEF OperSet
  <2>3. astray' \in BOOLEAN
    BY <1>1
  <2> QED
    BY <1>1, <2>1, <2>2, <2>3 DEF SimInv, SimTypeOK, Steps
<1>4. Safely(todo', Upper')
  BY <1>2, StartSafely
<1>5. ASSUME ~astray'
      PROVE  Named(todo', gCurSlot', d) /\ Levelled(todo', Upper', Lower', d)
  <2>1. ~astray /\ cn_oper = gCurSlot
    BY <1>1, <1>5
  <2>2. PICK c \in Cards : Named(todo, gCurSlot, c) /\ Levelled(todo, Upper, Lower, c)
    BY <2>1 DEF SimInv
  <2>3. Len(todo) = 0
    BY <1>1
  <2>4. c = gCurSlot
    BY <2>2, <2>3, RestShows
  <2>5. \A p \in Shows : IF p \in Should(c) THEN p \in Upper ELSE p \notin Lower
    BY <2>2, <2>3, RestShows
  <2>6. LowAt(todo', Lower', 1 + 1, 6)
    <3>1. todo'[1].kind = "clear" /\ todo'[1].pin = EN[cn_oper]
      BY <1>2 DEF PinClear
    <3>2. 1 \in 1 .. (1 + 1) - 1 /\ (\A m \in 1 + 1 .. (1 + 1) - 1 : FALSE) /\ 1 .. (1 + 1) - 1 = {1}
      OBVIOUS
    <3>3. CASE cn_oper = "CMCC"
      <4>1. todo'[1].pin = 6
        BY <3>1, <3>3 DEF EN
      <4> QED
        BY <3>1, <3>2, <4>1 DEF LowAt, Clears
    <3>4. CASE cn_oper # "CMCC"
      <4>1. todo'[1].pin # 6
        BY <1>1, <3>1, <3>4 DEF EN, Cards
      <4>2. 6 \in Shows /\ 6 \notin Should(c)
        BY <2>1, <2>4, <3>4 DEF Shows, Should, EN, Cards, OUT_EN
      <4>3. 6 \notin Lower'
        BY <1>1, <2>5, <4>2 DEF Lower
      <4> QED
        BY <3>2, <4>1, <4>3 DEF LowAt, Writes
    <3> QED
      BY <3>3, <3>4
  <2> DEFINE s == todo'
             h == Upper'
             l == Lower'
             g == gCurSlot'
  <2>7. Starts(s, 1, d) /\ LowAt(s, l, 1 + 1, 6) /\ 1 \in Nat
    BY <1>2, <2>6
  <2> HIDE DEF s, h, l, g
  <2>8. Named(s, g, d) /\ Levelled(s, h, l, d)
    BY <2>7, StartEnds
  <2> QED
    BY <2>8 DEF s, h, l, g
<1> QED
  BY <1>3, <1>4, <1>5 DEF SimInv

\* No command by hand but the start of a card raises a selecting pin.
LEMMA CommandInv ==
  ASSUME SimInv, Command
  PROVE  SimInv'
<1>1. astray' = TRUE /\ todo' \in Commands
  BY DEF Command
<1>2. todo' \in Seq(Steps) /\ Safely(todo', Upper')
  <2> SUFFICES ASSUME NEW s \in Commands, NEW h
               PROVE  s \in Seq(Steps) /\ Safely(s, h)
    BY <1>1
  <2>1. ASSUME NEW c \in Cards, s = CardStart(c)
        PROVE  s \in Seq(Steps) /\ Safely(s, h)
    BY <2>1, StartAlone, StartSafely DEF Starts
  <2>2. CASE \/ \E c \in Cards : s = CardStop(c)
             \/ s \in {<<SimCtrlPowerOn>>, <<SimCtrlPowerOff>>, Pulse(MODEM_POWER), ModemReset}
    <3>1. s \in Seq(Steps) /\ Len(s) \in Nat
      <4>1. \A p \in {0, 1, 2, 3, 4, 6} : PinSet(p) \in Steps /\ PinClear(p) \in Steps
        BY DEF PinSet, PinClear, Pins, Steps
      <4>2. \A c \in Cards : EN[c] \in {2, 4, 6}
        BY DEF Cards, EN
      <4>3. ASSUME NEW c \in Cards, s = <<PinClear(EN[c])>>
            PROVE  s \in Seq(Steps) /\ Len(s) \in Nat
        <5>1. PinClear(EN[c]) \in Steps
          BY <4>1, <4>2
        <5> QED
          BY <4>3, <5>1
      <4>4. CASE s \in {<<SimCtrlPowerOn>>, <<SimCtrlPowerOff>>, Pulse(MODEM_POWER), ModemReset}
        <5>1. \/ s = <<PinClear(3)>> \/ s = <<PinSet(3)>>
              \/ s = <<PinSet(0), PinClear(0)>> \/ s = <<PinSet(1), PinClear(1)>>
          BY <4>4 DEF SimCtrlPowerOn, SimCtrlPowerOff, ModemReset, Pulse, SWDN, MODEM_POWER, MODEM_RESET
        <5>2. /\ PinClear(3) \in Steps /\ PinSet(3) \in Steps /\ PinSet(0) \in Steps
              /\ PinClear(0) \in Steps /\ PinSet(1) \in Steps /\ PinClear(1) \in Steps
          BY <4>1
        <5>3. \A x, y \in Steps : /\ <<x>> \in Seq(Steps) /\ Len(<<x>>) \in Nat
                                  /\ <<x, y>> \in Seq(Steps) /\ Len(<<x, y>>) \in Nat
          OBVIOUS
        <5> QED
          BY <5>1, <5>2, <5>3, Zenon
      <4> QED
        BY <2>2, <4>3, <4>4 DEF CardStop
    <3>2. \A k \in 1 .. Len(s) : s[k].kind = "clear" \/ s[k].pin \in {0, 1, 3}
      BY <2>2 DEF CardStop, SimCtrlPowerOn, SimCtrlPowerOff, ModemReset, Pulse, PinSet, PinClear, EN, SWDN,
                  MODEM_POWER, MODEM_RESET, Cards
    <3> QED
      BY <3>1, <3>2 DEF Safely, Sets, CSEL1, CSEL2, OUT_EN
  <2> QED
    BY <2>1, <2>2 DEF Commands
<1> QED
  BY <1>1, <1>2 DEF SimInv, SimTypeOK, Command, Steps

\* The mode switch has a pin of its own.
LEMMA ModeSwitchInv ==
  ASSUME SimInv, ModeSwitch
  PROVE  SimInv'
<1>1. /\ todo = <<>> /\ todo' \in {<<PinSet(37)>>, <<PinClear(37)>>}
      /\ Upper' = Upper /\ Lower' = Lower /\ gCurSlot' = gCurSlot /\ astray' = astray
  BY DEF ModeSwitch, AtRest, F_T_SW, Upper, Lower
<1>2. /\ todo' \in Seq(Steps) /\ Len(todo') = 1 /\ todo'[1].kind # "slot" /\ todo'[1].pin = 37
  <2>1. PinSet(37) \in Steps /\ PinClear(37) \in Steps
    BY DEF PinSet, PinClear, Steps, Pins
  <2>2. PICK x \in {PinSet(37), PinClear(37)} : todo' = <<x>>
    BY <1>1
  <2>3. x \in Steps /\ x.kind # "slot" /\ x.pin = 37
    BY <2>1, <2>2 DEF PinSet, PinClear
  <2> QED
    BY <2>2, <2>3
<1>3. SimTypeOK'
  BY <1>2 DEF SimInv, SimTypeOK, ModeSwitch, Steps
<1>4. \A k \in 1 .. Len(todo') : k = 1
  BY <1>2
<1>5. Safely(todo', Upper')
  BY <1>2, <1>4 DEF Safely, Sets, CSEL1, CSEL2, OUT_EN
<1>6. ASSUME NEW c \in Cards, Named(todo, gCurSlot, c), Levelled(todo, Upper, Lower, c)
      PROVE  Named(todo', gCurSlot, c) /\ Levelled(todo', Upper, Lower, c)
  <2>1. Len(todo) = 0
    BY <1>1
  <2>2. c = gCurSlot
    BY <1>6, <2>1, RestShows
  <2>3. \A p \in Shows : IF p \in Should(c) THEN p \in Upper ELSE p \notin Lower
    BY <1>6, <2>1, RestShows
  <2>4. 37 \notin Shows
    BY DEF Shows, CSEL1, CSEL2, OUT_EN, SWDN, EN
  <2>5. \A m \in 1 .. (Len(todo') + 1) - 1 : m = 1
    BY <1>2
  <2>6. \A p \in Shows : \A m \in 1 .. (Len(todo') + 1) - 1 : ~Writes(todo', m, p)
    BY <1>2, <2>4, <2>5 DEF Writes
  <2>7. Levelled(todo', Upper, Lower, c)
    BY <2>3, <2>6 DEF Levelled, HighAt, LowAt
  <2>8. Named(todo', gCurSlot, c)
    BY <1>2, <1>4, <2>2 DEF Named
  <2> QED
    BY <2>7, <2>8
<1> QED
  BY <1>1, <1>3, <1>5, <1>6 DEF SimInv

LEMMA SimNextInv == SimInv /\ [SimNext]_simvars => SimInv'
<1> SUFFICES ASSUME SimInv, [SimNext]_simvars PROVE SimInv'
  OBVIOUS
<1>1. CASE PinWrite \/ PinFail \/ SlotNamed
  BY <1>1, OneStepInv
<1>2. ASSUME NEW d \in Cards, OperTold(d) PROVE SimInv'
  <2>1. /\ todo' = todo /\ Upper' = Upper /\ Lower' = Lower /\ gCurSlot' = gCurSlot /\ astray' = astray
        /\ SimTypeOK'
    BY <1>2 DEF OperTold, Upper, Lower, SimInv, SimTypeOK
  <2> QED
    BY <2>1 DEF SimInv
<1>3. ASSUME NEW d \in Cards, NEW ok \in BOOLEAN, OperSet(d, ok) PROVE SimInv'
  BY <1>3, OperSetInv
<1>4. CASE Command
  BY <1>4, CommandInv
<1>5. CASE ModeSwitch
  BY <1>5, ModeSwitchInv
<1>6. CASE SimRestart
  BY <1>6, RestartInv
<1>7. CASE UNCHANGED simvars
  <2>1. /\ todo' = todo /\ Upper' = Upper /\ Lower' = Lower /\ gCurSlot' = gCurSlot /\ astray' = astray
        /\ SimTypeOK'
    BY <1>7 DEF simvars, Upper, Lower, SimInv, SimTypeOK
  <2> QED
    BY <2>1 DEF SimInv
<1> QED
  BY <1>1, <1>2, <1>3, <1>4, <1>5, <1>6, <1>7 DEF SimNext

LEMMA SimInvariant == SimSpec => []SimInv
  BY SimInitInv, SimNextInv, PTL DEF SimSpec

\* Every variable of the SIM switch has a value the code can give it.
THEOREM SimTypeCorrect == SimSpec => []SimTypeOK
<1>1. SimInv => SimTypeOK
  BY DEF SimInv
<1> QED
  BY <1>1, SimInvariant, PTL

LEMMA RestShown ==
  ASSUME SimInv
  PROVE  CardShown
<1> SUFFICES ASSUME AtRest, missed = {}, ~astray
             PROVE  Shown(gCurSlot) /\ SWDN \notin high
  BY DEF CardShown
<1>1. PICK c \in Cards : Named(todo, gCurSlot, c) /\ Levelled(todo, Upper, Lower, c)
  BY DEF SimInv
<1>2. Len(todo) = 0
  BY DEF AtRest
<1>3. c = gCurSlot
  BY <1>1, <1>2, RestShows
<1>4. \A p \in Shows : p \in high <=> p \in Should(c)
  <2>1. \A p \in Shows : IF p \in Should(c) THEN p \in Upper ELSE p \notin Lower
    BY <1>1, <1>2, RestShows
  <2> QED
    BY <2>1 DEF Upper, Lower
<1>5. \A p \in {2, 3, 4, 6, 11} : p \in high <=> (p = EN[c] \/ (p = 11 /\ c # "CTCC"))
  BY <1>4 DEF Shows, Should, CSEL1, CSEL2, OUT_EN, SWDN, EN
<1>6. EN[c] \in {2, 4, 6}
  BY DEF EN, Cards
<1> QED
  BY <1>3, <1>5, <1>6 DEF Shown, OUT_EN, SWDN

LEMMA RisesDown ==
  ASSUME SimInv, [SimNext]_simvars, missed = {}, (high' \ high) \cap {CSEL1, CSEL2, OUT_EN} # {}
  PROVE  SWDN \in high
<1>1. PICK p \in {CSEL1, CSEL2, OUT_EN} : p \in high' /\ p \notin high
  OBVIOUS
<1>2. PinWrite
  BY <1>1 DEF SimNext, simvars, PinFail, SlotNamed, OperTold, OperSet, Command, ModeSwitch, SimRestart
<1>3. Sets(todo, 1, p) /\ 1 \in 1 .. Len(todo)
  <2>1. todo # <<>> /\ todo \in Seq(Steps)
    BY <1>2 DEF PinWrite, AtRest, SimInv, SimTypeOK, Steps
  <2> QED
    BY <1>1, <1>2, <2>1 DEF PinWrite, Sets
<1>4. HighAt(todo, Upper, 1, p) \/ HighAt(todo, Upper, 1, SWDN)
  BY <1>3 DEF SimInv, Safely
<1>5. 1 .. 1 - 1 = {} /\ Upper = high
  BY DEF Upper
<1> QED
  BY <1>1, <1>4, <1>5 DEF HighAt

\* One card at a time: at rest the modem has the card that was asked for and no other is enabled, and
\* while one is switched no selecting pin rises but under the switch that is down.
THEOREM CardsKeptApart == SimSpec => CardsApart
<1>1. SimInv => CardShown
  BY RestShown
<1>2. SimInv /\ [SimNext]_simvars =>
        [missed = {} /\ (high' \ high) \cap {CSEL1, CSEL2, OUT_EN} # {} => SWDN \in high]_simvars
  BY RisesDown
<1> QED
  BY <1>1, <1>2, SimInvariant, PTL DEF SimSpec, CardsApart, SelectedDown

-----------------------------------------------------------------------------
(* Readings: the columns of a row *)

LEMMA ColumnOf ==
  ASSUME NEW s, NEW k \in Nat
  PROVE  /\ IsFiniteSet({i \in 1 .. k : s[i] # Missing})
         /\ Column(s, k) \in Nat
         /\ Column(s, 0) = 0
         /\ Column(s, k + 1) = IF s[k + 1] # Missing THEN Column(s, k) + 1 ELSE Column(s, k)
         /\ \A j \in 1 .. k : s[j] # Missing => Column(s, j) \in 1 .. Column(s, k)
<1> DEFINE T(n) == {i \in 1 .. n : s[i] # Missing}
<1>1. \A n \in Nat : IsFiniteSet(T(n)) /\ Cardinality(T(n)) \in Nat
  <2> SUFFICES ASSUME NEW n \in Nat
               PROVE  IsFiniteSet(T(n)) /\ Cardinality(T(n)) \in Nat
    OBVIOUS
  <2>1. 1 \in Int /\ n \in Int
    OBVIOUS
  <2>2. IsFiniteSet(1 .. n)
    BY <2>1, FS_Interval
  <2>3. IsFiniteSet(T(n))
    BY <2>2, FS_Subset
  <2> QED
    BY <2>3, FS_CardinalityType
<1>2. T(0) = {}
  <2>1. 1 .. 0 = {}
    OBVIOUS
  <2> QED
    BY <2>1
<1>3. T(k + 1) = IF s[k + 1] # Missing THEN T(k) \cup {k + 1} ELSE T(k)
  <2>1. 1 .. k + 1 = (1 .. k) \cup {k + 1}
    OBVIOUS
  <2> QED
    BY <2>1
<1>4. k + 1 \notin T(k)
  OBVIOUS
<1>5. \A j \in 1 .. k : T(j) \subseteq T(k) /\ (s[j] # Missing => j \in T(j))
  OBVIOUS
<1>6. k + 1 \in Nat /\ 0 \in Nat
  OBVIOUS
<1> DEFINE C(n) == Cardinality(T(n))
<1>7. \A n : Column(s, n) = C(n)
  BY DEF Column
<1> HIDE DEF T
<1>8. C(0) = 0
  BY <1>2, FS_EmptySet
<1>9. C(k + 1) = IF s[k + 1] # Missing THEN C(k) + 1 ELSE C(k)
  <2>1. CASE s[k + 1] # Missing
    <3>1. IsFiniteSet(T(k)) /\ T(k + 1) = T(k) \cup {k + 1}
      BY <1>1, <1>3, <2>1
    <3> QED
      BY <1>4, <2>1, <3>1, FS_AddElement
  <2>2. CASE ~(s[k + 1] # Missing)
    BY <1>3, <2>2
  <2> QED
    BY <2>1, <2>2
<1>10. ASSUME NEW j \in 1 .. k, s[j] # Missing
       PROVE  C(j) \in 1 .. C(k)
  <2>1. j \in Nat
    OBVIOUS
  <2>2. IsFiniteSet(T(j)) /\ IsFiniteSet(T(k)) /\ C(j) \in Nat /\ C(k) \in Nat
    BY <1>1, <2>1
  <2>3. T(j) \subseteq T(k) /\ T(j) # {}
    BY <1>5, <1>10
  <2>4. C(j) <= C(k)
    BY <2>2, <2>3, FS_Subset
  <2>5. C(j) # 0
    BY <2>2, <2>3, FS_EmptySet
  <2> HIDE DEF C
  <2> QED
    BY <2>2, <2>4, <2>5
<1>11. IsFiniteSet(T(k)) /\ C(k) \in Nat
  BY <1>1
<1> QED
  BY <1>7, <1>8, <1>9, <1>10, <1>11 DEF T

LEMMA ColumnSame ==
  ASSUME NEW s, NEW t, NEW k \in Nat, \A i \in 1 .. k : s[i] = t[i]
  PROVE  Column(s, k) = Column(t, k)
<1>1. {i \in 1 .. k : s[i] # Missing} = {i \in 1 .. k : t[i] # Missing}
  OBVIOUS
<1> QED
  BY <1>1 DEF Column

-----------------------------------------------------------------------------
(* Readings: the invariant *)

Modem == [isvaild : BOOLEAN, manu_id : {HUAWEI, YUGA}, regis_ok : BOOLEAN]

Answer == [type : {"none", "NOSERVICE", "LTE", "CDMA", "GSM", "CCSQ"}, n : Nat, dBm : Int]

\* What any modem may answer.
Answered(a) ==
  \/ a = Missing
  \/ a = [type |-> "NOSERVICE", n |-> 0, dBm |-> 0]
  \/ a.n \in Levels /\ a.type \in {"LTE", "CDMA", "GSM"} /\ a.dBm = QualityH(a.type, a.n)
  \/ a.n \in Levels /\ a.type = "CCSQ" /\ a.dBm = QualityY(a.n)

\* The columns b are those of the answers s.
Columns(b, s) ==
  /\ Len(b) = Column(s, Len(s))
  /\ \A k \in 1 .. Len(s) : s[k] # Missing => b[Column(s, k)] = s[k].dBm

\* From the second row on the buffer holds the columns of the sweep under way, and none in between.
ReadInv ==
  /\ at \in 1 .. ScanModems /\ pModem \in [1 .. ScanModems -> Modem] /\ modem_info_num \in 0 .. 2
  /\ info_buf \in Seq(Int) /\ answers \in Seq(Answer)
  /\ \A k \in 1 .. Len(answers) : Answered(answers[k])
  /\ stage \notin {"sweep", "save"} => answers = <<>>
  /\ modem_info_num >= 1 => Columns(info_buf, answers)

LEMMA AnswerForm ==
  ASSUME NEW modem \in Modem, NEW a \in AnswersOf(modem)
  PROVE  a \in Answer /\ Answered(a)
<1> USE LevelsAssumption
<1>1. \A n \in Nat : /\ Rsrp(n) \in Int /\ Rscp(n) \in Int /\ QualityY(n) \in Int
  BY DEF Rsrp, Rscp, QualityY
<1>2. \A n \in Nat : \A t \in {"LTE", "CDMA", "GSM"} : QualityH(t, n) \in Int
  <2>1. \A n \in Nat : QualityH("LTE", n) = Rsrp(n) /\ QualityH("CDMA", n) = Rscp(n) /\ QualityH("GSM", n) = n
    BY DEF QualityH
  <2> QED
    BY <1>1, <2>1
<1>3. QualityH("NOSERVICE", 0) = 0
  BY DEF QualityH
<1>4. CASE a = Missing
  BY <1>4 DEF Answer, Answered, Missing
<1>5. CASE a = [type |-> "NOSERVICE", n |-> 0, dBm |-> QualityH("NOSERVICE", 0)]
  BY <1>3, <1>5 DEF Answer, Answered
<1>6. ASSUME NEW t \in {"LTE", "CDMA", "GSM"}, NEW n \in Levels,
             a = [type |-> t, n |-> n, dBm |-> QualityH(t, n)]
      PROVE  a \in Answer /\ Answered(a)
  BY <1>2, <1>6 DEF Answer, Answered
<1>7. ASSUME NEW n \in Levels, a = [type |-> "CCSQ", n |-> n, dBm |-> QualityY(n)]
      PROVE  a \in Answer /\ Answered(a)
  BY <1>1, <1>7 DEF Answer, Answered
<1>8. \/ a = Missing
      \/ a = [type |-> "NOSERVICE", n |-> 0, dBm |-> QualityH("NOSERVICE", 0)]
      \/ \E t \in {"LTE", "CDMA", "GSM"}, n \in Levels : a = [type |-> t, n |-> n, dBm |-> QualityH(t, n)]
      \/ \E n \in Levels : a = [type |-> "CCSQ", n |-> n, dBm |-> QualityY(n)]
  <2>1. a \in AnswersOf(modem)
    OBVIOUS
  <2> QED
    BY ONLY <2>1 DEF AnswersOf
<1> QED
  BY <1>4, <1>5, <1>6, <1>7, <1>8, Zenon

LEMMA NextAt ==
  ASSUME at \in 1 .. ScanModems, NEW s, NEW t, NextModem(s, t)
  PROVE  at' \in 1 .. ScanModems /\ stage' \in {s, t}
  BY ScanModemsAssumption DEF NextModem

LEMMA ReadInitInv == ReadInit => ReadInv
<1> SUFFICES ASSUME ReadInit PROVE ReadInv
  OBVIOUS
<1>1. at \in 1 .. ScanModems /\ modem_info_num \in 0 .. 2 /\ ~(modem_info_num >= 1)
  BY ScanModemsAssumption DEF ReadInit
<1>2. pModem \in [1 .. ScanModems -> Modem]
  BY DEF ReadInit, Modem
<1>3. info_buf \in Seq(Int)
  <2>1. <<>> \in Seq(Int) /\ <<1>> \in Seq(Int)
    OBVIOUS
  <2> QED
    BY <2>1 DEF ReadInit, Garbage
<1>4. answers = <<>> /\ answers \in Seq(Answer) /\ \A k \in 1 .. Len(answers) : FALSE
  BY DEF ReadInit
<1> QED
  BY <1>1, <1>2, <1>3, <1>4 DEF ReadInv

\* A column is added for an answer that was given, and the others stay where they are.
LEMMA ColumnAdded ==
  ASSUME NEW b \in Seq(Int), NEW s \in Seq(Answer), Columns(b, s), NEW a \in Answer
  PROVE  Columns(IF a = Missing THEN b ELSE Append(b, a.dBm), Append(s, a))
<1> DEFINE t == Append(s, a)
           l == Len(s)
           c == IF a = Missing THEN b ELSE Append(b, a.dBm)
<1>1. /\ l \in Nat /\ Len(t) = l + 1 /\ t[l + 1] = a /\ a.dBm \in Int
      /\ \A k \in 1 .. l : t[k] = s[k]
  BY DEF Answer
<1>2. /\ Len(b) \in Nat
      /\ a = Missing => c = b
      /\ a # Missing => /\ Len(c) = Len(b) + 1 /\ c[Len(b) + 1] = a.dBm
                        /\ \A k \in 1 .. Len(b) : c[k] = b[k]
  BY <1>1
<1>3. Len(b) = Column(s, l) /\ \A k \in 1 .. l : s[k] # Missing => b[Column(s, k)] = s[k].dBm
  BY DEF Columns
<1> HIDE DEF t, l, c
<1>4. \A k \in 1 .. l : Column(t, k) = Column(s, k)
  <2> SUFFICES ASSUME NEW k \in 1 .. l PROVE Column(t, k) = Column(s, k)
    OBVIOUS
  <2>1. k \in Nat /\ \A i \in 1 .. k : t[i] = s[i]
    BY <1>1
  <2> QED
    BY <2>1, ColumnSame
<1>5. Column(t, l) = Column(s, l)
  BY <1>1, ColumnSame
<1>6. Column(t, l + 1) = IF a # Missing THEN Column(t, l) + 1 ELSE Column(t, l)
  BY <1>1, ColumnOf
<1>7. \A j \in 1 .. l : s[j] # Missing => Column(s, j) \in 1 .. Column(s, l)
  BY <1>1, ColumnOf
<1>8. Len(c) = Column(t, l + 1)
  BY <1>2, <1>3, <1>5, <1>6
<1>9. ASSUME NEW k \in 1 .. l + 1, t[k] # Missing
      PROVE  c[Column(t, k)] = t[k].dBm
  <2>1. CASE k = l + 1
    <3>1. a # Missing /\ Column(t, k) = Len(b) + 1
      BY <1>1, <1>3, <1>5, <1>6, <1>9, <2>1
    <3> QED
      BY <1>1, <1>2, <2>1, <3>1
  <2>2. CASE k # l + 1
    <3>1. k \in 1 .. l
      BY <1>1, <2>2
    <3>2. t[k] = s[k] /\ Column(t, k) = Column(s, k) /\ Column(s, k) \in 1 .. Len(b)
      BY <1>1, <1>3, <1>4, <1>7, <1>9, <3>1
    <3>3. b[Column(s, k)] = s[k].dBm
      BY <1>3, <1>9, <3>1, <3>2
    <3> QED
      BY <1>2, <3>2, <3>3
  <2> QED
    BY <2>1, <2>2
<1>10. Columns(c, t)
  BY <1>1, <1>8, <1>9 DEF Columns
<1> QED
  BY <1>10 DEF c, t

LEMMA ReadNextInv == ReadInv /\ [ReadNext]_readvars => ReadInv'
<1> SUFFICES ASSUME ReadInv, [ReadNext]_readvars PROVE ReadInv'
  OBVIOUS
<1> DEFINE Kept ==
      /\ info_buf' = info_buf /\ modem_info_num' = modem_info_num /\ answers' = answers
<1>1. ASSUME Kept, at' \in 1 .. ScanModems, pModem' \in [1 .. ScanModems -> Modem],
             stage' \in {"sweep", "save"} => stage \in {"sweep", "save"},
             stage \in {"sweep", "save"} => stage' \in {"sweep", "save"}
      PROVE  ReadInv'
  BY <1>1 DEF ReadInv
<1>2. CASE InitModem
  <2>1. Kept /\ stage' \in {"init", "status"} /\ stage = "init" /\ at' \in 1 .. ScanModems
    BY <1>2, NextAt DEF InitModem, ReadInv
  <2>2. pModem' \in [1 .. ScanModems -> Modem]
    <3>1. PICK v \in BOOLEAN, m \in {HUAWEI, YUGA} :
            pModem' = [pModem EXCEPT ![at] = [[pModem[at] EXCEPT !.isvaild = v] EXCEPT !.manu_id = m]]
      BY <1>2 DEF InitModem
    <3>2. pModem \in [1 .. ScanModems -> Modem] /\ pModem[at] \in Modem
      BY DEF ReadInv
    <3>3. [[pModem[at] EXCEPT !.isvaild = v] EXCEPT !.manu_id = m] \in Modem
      BY <3>2 DEF Modem
    <3> QED
      BY <3>1, <3>2, <3>3
  <2> QED
    BY <1>1, <2>1, <2>2
<1>3. CASE CheckModem
  <2>1. Kept /\ stage' \in {"status", "connect"} /\ stage = "status" /\ at' \in 1 .. ScanModems
    BY <1>3, NextAt DEF CheckModem, ReadInv
  <2>2. pModem' \in [1 .. ScanModems -> Modem]
    BY <1>3 DEF CheckModem, ReadInv, Modem
  <2> QED
    BY <1>1, <2>1, <2>2
<1>4. CASE ConnectModem
  <2>1. Kept /\ stage' \in {"connect", "loop"} /\ stage = "connect" /\ at' \in 1 .. ScanModems
    BY <1>4, NextAt DEF ConnectModem, ReadInv
  <2>2. pModem' \in [1 .. ScanModems -> Modem]
    BY <1>4 DEF ConnectModem, ReadInv
  <2> QED
    BY <1>1, <2>1, <2>2
<1>5. CASE RunFlag \/ UNCHANGED readvars
  BY <1>5 DEF RunFlag, readvars, ReadInv
<1>6. CASE StartSweep
  <2>1. answers = <<>> /\ answers' = <<>>
    BY <1>6 DEF StartSweep, ReadInv
  <2> QED
    BY <1>6, <2>1 DEF StartSweep, ReadInv
<1>7. CASE AskModem
  <2>1. PICK a \in AnswersOf(pModem[at]) :
          /\ answers' = Append(answers, a)
          /\ info_buf' = IF a = Missing THEN info_buf ELSE Append(info_buf, a.dBm)
    BY <1>7 DEF AskModem
  <2>2. /\ stage' \in {"sweep", "save"} /\ at' \in 1 .. ScanModems
        /\ pModem' = pModem /\ modem_info_num' = modem_info_num
    BY <1>7, NextAt DEF AskModem, ReadInv
  <2>3. pModem[at] \in Modem
    BY DEF ReadInv
  <2>4. a \in Answer /\ Answered(a)
    BY <2>3, AnswerForm
  <2>5. /\ info_buf \in Seq(Int) /\ answers \in Seq(Answer) /\ Len(answers) \in Nat
        /\ \A k \in 1 .. Len(answers) : Answered(answers[k])
        /\ modem_info_num >= 1 => Columns(info_buf, answers)
    BY DEF ReadInv
  <2>6. /\ answers' \in Seq(Answer) /\ info_buf' \in Seq(Int)
        /\ Len(answers') = Len(answers) + 1 /\ answers'[Len(answers) + 1] = a
        /\ \A k \in 1 .. Len(answers) : answers'[k] = answers[k]
    <3>1. a.dBm \in Int
      BY <2>4 DEF Answer
    <3> QED
      BY <2>1, <2>4, <2>5, <3>1
  <2>7. \A k \in 1 .. Len(answers') : Answered(answers'[k])
    <3>1. \A k \in 1 .. Len(answers) + 1 : k \in 1 .. Len(answers) \/ k = Len(answers) + 1
      BY <2>5
    <3> QED
      BY <2>4, <2>5, <2>6, <3>1
  <2>8. modem_info_num >= 1 => Columns(info_buf', answers')
    BY <2>1, <2>4, <2>5, ColumnAdded
  <2> QED
    BY <2>2, <2>6, <2>7, <2>8 DEF ReadInv
<1>8. CASE SaveRow
  <2>1. info_buf' = <<>> /\ answers' = <<>> /\ stage' = "loop" /\ at' = at /\ pModem' = pModem
    BY <1>8 DEF SaveRow, Cleared
  <2>2. Columns(<<>>, <<>>)
    <3>1. Column(<<>>, 0) = 0
      BY ColumnOf
    <3>2. Len(<<>>) = 0 /\ 1 .. 0 = {}
      OBVIOUS
    <3> QED
      BY <3>1, <3>2 DEF Columns
  <2>3. modem_info_num' \in 0 .. 2
    BY <1>8 DEF SaveRow, ReadInv
  <2>4. <<>> \in Seq(Int) /\ <<>> \in Seq(Answer) /\ \A k \in 1 .. Len(<<>>) : FALSE
    OBVIOUS
  <2> QED
    BY <2>1, <2>2, <2>3, <2>4 DEF ReadInv
<1> QED
  BY <1>2, <1>3, <1>4, <1>5, <1>6, <1>7, <1>8 DEF ReadNext

LEMMA ReadInvariant == ReadSpec => []ReadInv
  BY ReadInitInv, ReadNextInv, PTL DEF ReadSpec

LEMMA LevelOrder ==
  /\ \A x, y \in Nat : x <= y /\ y <= 97 => Rsrp(x) <= Rsrp(y)
  /\ \A x, y \in Nat : x <= y /\ y <= 96 => Rscp(x) <= Rscp(y)
  /\ \A x, y \in Nat : x <= y /\ y <= 31 => QualityY(x) <= QualityY(y)
  /\ Rsrp(99) = -250 /\ Rsrp(255) = -250 /\ Rscp(99) = -250 /\ Rscp(255) = -250
  /\ QualityY(99) = 0 /\ QualityY(255) = 397
<1>1. \A x, y \in Nat : x <= y /\ y <= 97 => Rsrp(x) <= Rsrp(y)
  BY DEF Rsrp
<1>2. \A x, y \in Nat : x <= y /\ y <= 96 => Rscp(x) <= Rscp(y)
  BY DEF Rscp
<1>3. \A x, y \in Nat : x <= y /\ y <= 31 => QualityY(x) <= QualityY(y)
  BY DEF QualityY
<1>4. Rsrp(99) = -250 /\ Rsrp(255) = -250 /\ Rscp(99) = -250 /\ Rscp(255) = -250
  BY DEF Rsrp, Rscp
<1>5. QualityY(99) = 0 /\ QualityY(255) = 397
  BY DEF QualityY
<1> QED
  BY <1>1, <1>2, <1>3, <1>4, <1>5

\* What an answered level is written as, technology by technology.
LEMMA WrittenAs ==
  ASSUME NEW a, Answered(a)
  PROVE  /\ a.type = "LTE" => a.dBm = Rsrp(a.n)
         /\ a.type = "CDMA" => a.dBm = Rscp(a.n)
         /\ a.type = "CCSQ" => a.dBm = QualityY(a.n)
<1>1. CASE a = Missing
  <2>1. a.type = "none"
    BY <1>1 DEF Missing
  <2> QED
    BY <2>1
<1>2. CASE a = [type |-> "NOSERVICE", n |-> 0, dBm |-> 0]
  <2>1. a.type = "NOSERVICE"
    BY <1>2
  <2> QED
    BY <2>1
<1>3. CASE a.n \in Levels /\ a.type \in {"LTE", "CDMA", "GSM"} /\ a.dBm = QualityH(a.type, a.n)
  <2>1. CASE a.type = "LTE"
    BY <1>3, <2>1 DEF QualityH
  <2>2. CASE a.type = "CDMA"
    BY <1>3, <2>2 DEF QualityH
  <2>3. CASE a.type = "GSM"
    BY <2>3
  <2> QED
    BY <1>3, <2>1, <2>2, <2>3
<1>4. CASE a.n \in Levels /\ a.type = "CCSQ" /\ a.dBm = QualityY(a.n)
  BY <1>4
<1> QED
  BY <1>1, <1>2, <1>3, <1>4 DEF Answered

\* A stronger level is written higher, whatever is read; an unknown one is not among the levels.
LEMMA LevelsApart ==
  ASSUME NEW a \in Answer, NEW b \in Answer, Answered(a), Answered(b), a.type = b.type, Known(a)
  PROVE  /\ Known(b) /\ a.n <= b.n => a.dBm <= b.dBm
         /\ b.n \in {99, 255} /\ ~Known(b) => b.dBm \notin -140 .. -25
<1>1. a.type \in {"LTE", "CDMA", "CCSQ"}
  <2>1. DOMAIN Strongest = {"LTE", "CDMA", "CCSQ"}
    BY DEF Strongest
  <2> QED
    BY <2>1 DEF Known
<1>2. a.n \in Nat /\ b.n \in Nat
  BY DEF Answer
<1>3. CASE a.type = "LTE"
  <2>1. a.dBm = Rsrp(a.n) /\ b.dBm = Rsrp(b.n)
    BY <1>3, WrittenAs
  <2>2. Known(b) <=> b.n <= 97
    BY <1>3 DEF Known, Strongest
  <2>3. a.n <= b.n /\ b.n <= 97 => Rsrp(a.n) <= Rsrp(b.n)
    BY <1>2, LevelOrder
  <2>4. b.n \in {99, 255} => Rsrp(b.n) = -250
    BY LevelOrder
  <2>5. -250 \notin -140 .. -25
    OBVIOUS
  <2> QED
    BY <2>1, <2>2, <2>3, <2>4, <2>5
<1>4. CASE a.type = "CDMA"
  <2>1. a.dBm = Rscp(a.n) /\ b.dBm = Rscp(b.n)
    BY <1>4, WrittenAs
  <2>2. Known(b) <=> b.n <= 96
    BY <1>4 DEF Known, Strongest
  <2>3. a.n <= b.n /\ b.n <= 96 => Rscp(a.n) <= Rscp(b.n)
    BY <1>2, LevelOrder
  <2>4. b.n \in {99, 255} => Rscp(b.n) = -250
    BY LevelOrder
  <2>5. -250 \notin -140 .. -25
    OBVIOUS
  <2> QED
    BY <2>1, <2>2, <2>3, <2>4, <2>5
<1>5. CASE a.type = "CCSQ"
  <2>1. a.dBm = QualityY(a.n) /\ b.dBm = QualityY(b.n)
    BY <1>5, WrittenAs
  <2>2. Known(b) <=> b.n <= 31
    BY <1>5 DEF Known, Strongest
  <2>3. a.n <= b.n /\ b.n <= 31 => QualityY(a.n) <= QualityY(b.n)
    BY <1>2, LevelOrder
  <2>4. b.n \in {99, 255} => QualityY(b.n) = 0 \/ QualityY(b.n) = 397
    BY LevelOrder
  <2>5. 0 \notin -140 .. -25 /\ 397 \notin -140 .. -25
    OBVIOUS
  <2> QED
    BY <2>1, <2>2, <2>3, <2>4, <2>5
<1> QED
  BY <1>1, <1>3, <1>4, <1>5

\* For any number of modems and any levels: from the second row on the columns of a row are the answers
\* of its own sweep in their order, a stronger level is written higher, and an unknown one is not written
\* as a level that can be measured.
THEOREM RowsAreTrue == ReadSpec => []RowsTrue
<1>1. ReadInv => RowsTrue
  <2> SUFFICES ASSUME ReadInv PROVE RowsTrue
    OBVIOUS
  <2>1. DOMAIN answers = 1 .. Len(answers)
    BY DEF ReadInv
  <2>2. ColumnsOfSweep
    BY <2>1 DEF ReadInv, Columns, ColumnsOfSweep
  <2>3. StrongerIsHigher
    <3> SUFFICES ASSUME NEW i \in 1 .. Len(answers), NEW j \in 1 .. Len(answers),
                        answers[i].type = answers[j].type, Known(answers[i])
                 PROVE  /\ Known(answers[j]) /\ answers[i].n <= answers[j].n
                             => answers[i].dBm <= answers[j].dBm
                        /\ answers[j].n \in {99, 255} /\ ~Known(answers[j])
                             => answers[j].dBm \notin -140 .. -25
      BY <2>1 DEF StrongerIsHigher
    <3>1. /\ Answered(answers[i]) /\ Answered(answers[j])
          /\ answers[i] \in Answer /\ answers[j] \in Answer
      BY DEF ReadInv
    <3> QED
      BY <3>1, LevelsApart
  <2> QED
    BY <2>2, <2>3 DEF RowsTrue
<1> QED
  BY <1>1, ReadInvariant, PTL

-----------------------------------------------------------------------------
(* CellSel: the sorts *)

\* The greatest of some numbers up to N.
LEMMA Greatest ==
  ASSUME NEW N \in Nat, NEW S, S \subseteq 0 .. N, 0 \in S
  PROVE  Fin!Max(S) \in S /\ \A j \in S : j <= Fin!Max(S)
<1> DEFINE T == {n \in 0 .. N : \E m \in S : m <= n /\ \A j \in S : j <= n => j <= m}
<1>1. 0 \in T
  OBVIOUS
<1>2. \A k \in 1 .. N : k - 1 \in T => k \in T
  <2> SUFFICES ASSUME NEW k \in 1 .. N, k - 1 \in T PROVE k \in T
    OBVIOUS
  <2>1. PICK m \in S : m <= k - 1 /\ \A j \in S : j <= k - 1 => j <= m
    OBVIOUS
  <2>2. CASE k \in S
    BY <2>2
  <2>3. CASE k \notin S
    <3>1. \A j \in S : j <= k => j <= k - 1
      BY <2>3
    <3> QED
      BY <2>1, <3>1
  <2> QED
    BY <2>2, <2>3
<1>3. T \subseteq 0 .. N
  OBVIOUS
<1> HIDE DEF T
<1>4. T = 0 .. N
  BY <1>1, <1>2, <1>3, Reach
<1>5. \E m \in S : \A j \in S : m >= j
  <2>1. N \in T
    BY <1>4
  <2>2. PICK m \in S : m <= N /\ \A j \in S : j <= N => j <= m
    BY <2>1 DEF T
  <2> QED
    BY <2>2
<1>6. Fin!Max(S) \in S /\ \A j \in S : Fin!Max(S) >= j
  BY <1>5, Zenon DEF Fin!Max
<1> DEFINE m == Fin!Max(S)
<1> HIDE DEF m
<1>7. m \in S /\ \A j \in S : m >= j
  BY <1>6, Zenon DEF m
<1>8. m \in S /\ \A j \in S : j <= m
  BY <1>7
<1> QED
  BY <1>8, Zenon DEF m

Sorted(s, key) == \A i, j \in 1 .. Len(s) : i <= j => s[i][key] <= s[j][key]

\* An element more is placed in order.
LEMMA PlacedInOrder ==
  ASSUME NEW S, NEW s \in Seq(S), NEW t \in S, NEW key, \A x \in S : x[key] \in Int
  PROVE  /\ Placed(s, t, key) \in Seq(S)
         /\ Cells(Placed(s, t, key)) = Cells(s) \cup {t}
         /\ Sorted(s, key) => Sorted(Placed(s, t, key), key)
<1> DEFINE lower == {0} \cup {j \in DOMAIN s : s[j][key] <= t[key]}
           p == Fin!Max(lower)
           a == SubSeq(s, 1, p)
           b == SubSeq(s, p + 1, Len(s))
           r == Placed(s, t, key)
<1>1. DOMAIN s = 1 .. Len(s) /\ Len(s) \in Nat
  OBVIOUS
<1>2. lower \subseteq 0 .. Len(s) /\ 0 \in lower
  BY <1>1
<1>3. p \in lower /\ \A j \in lower : j <= p
  <2> HIDE DEF lower
  <2> QED
    BY <1>1, <1>2, Greatest
<1> HIDE DEF p
<1>4. /\ p \in 0 .. Len(s)
      /\ p # 0 => s[p][key] <= t[key]
      /\ \A j \in 1 .. Len(s) : j > p => ~(s[j][key] <= t[key])
  BY <1>1, <1>2, <1>3
<1> HIDE DEF lower
<1>0. Len(s) \in Nat /\ p \in Nat /\ p <= Len(s)
  BY <1>1, <1>4
<1>5. r = a \o <<t>> \o b
  <2>1. (p + 1) - 1 = p
    BY <1>0
  <2>2. r = SubSeq(s, 1, (p + 1) - 1) \o <<t>> \o SubSeq(s, p + 1, Len(s))
    BY DEF Placed, p, lower, Lists!InsertAt
  <2> HIDE DEF r
  <2> QED
    BY <2>1, <2>2
<1> HIDE DEF r
<1>6. a \in Seq(S) /\ Len(a) = p /\ \A i \in 1 .. p : a[i] = s[i]
  <2>1. 1 \in Int /\ p \in Int /\ \A i \in 1 .. p : s[i] \in S
    BY <1>1, <1>4
  <2>2. /\ a \in Seq(S) /\ Len(a) = IF 1 <= p THEN p - 1 + 1 ELSE 0
        /\ \A i \in 1 .. p - 1 + 1 : a[i] = s[1 + i - 1]
    BY <2>1, SubSeqProperties
  <2> HIDE DEF a
  <2> QED
    BY <1>1, <1>4, <2>2
<1>7. b \in Seq(S) /\ Len(b) = Len(s) - p /\ \A i \in 1 .. Len(s) - p : b[i] = s[p + i]
  <2>1. p + 1 \in Int /\ Len(s) \in Int /\ \A i \in p + 1 .. Len(s) : s[i] \in S
    BY <1>1, <1>4
  <2>2. /\ b \in Seq(S) /\ Len(b) = IF p + 1 <= Len(s) THEN Len(s) - (p + 1) + 1 ELSE 0
        /\ \A i \in 1 .. Len(s) - (p + 1) + 1 : b[i] = s[p + 1 + i - 1]
    BY <2>1, SubSeqProperties
  <2> HIDE DEF b
  <2>3. /\ Len(s) - (p + 1) + 1 = Len(s) - p
        /\ (IF p + 1 <= Len(s) THEN Len(s) - (p + 1) + 1 ELSE 0) = Len(s) - p
        /\ \A i \in 1 .. Len(s) - p : p + 1 + i - 1 = p + i
    BY <1>0
  <2> QED
    BY <2>2, <2>3
<1>8. <<t>> \in Seq(S) /\ Len(<<t>>) = 1 /\ <<t>>[1] = t
  OBVIOUS
<1> HIDE DEF a, b
<1> DEFINE c == a \o <<t>>
<1>9. c \in Seq(S) /\ Len(c) = p + 1 /\ c[p + 1] = t /\ \A i \in 1 .. p : c[i] = s[i]
  <2> DEFINE d == <<t>>
  <2>1. d \in Seq(S) /\ Len(d) = 1 /\ d[1] = t
    BY <1>8
  <2> HIDE DEF d
  <2>2. /\ a \o d \in Seq(S) /\ Len(a \o d) = Len(a) + Len(d)
        /\ \A k \in 1 .. Len(a) + Len(d) : (a \o d)[k] = IF k <= Len(a) THEN a[k] ELSE d[k - Len(a)]
    BY <1>6, <2>1, ConcatProperties
  <2>3. c = a \o d
    BY DEF c, d
  <2> HIDE DEF c
  <2> QED
    BY <1>4, <1>6, <2>1, <2>2, <2>3
<1>10. r = c \o b
  BY <1>5
<1> HIDE DEF c
<1>11. r \in Seq(S) /\ Len(r) = Len(s) + 1
  <2>1. /\ c \o b \in Seq(S) /\ Len(c \o b) = Len(c) + Len(b)
        /\ \A k \in 1 .. Len(c) + Len(b) : (c \o b)[k] = IF k <= Len(c) THEN c[k] ELSE b[k - Len(c)]
    BY <1>7, <1>9, ConcatProperties
  <2> QED
    BY <1>1, <1>4, <1>7, <1>9, <1>10, <2>1
<1>12. /\ \A i \in 1 .. p : r[i] = s[i]
       /\ r[p + 1] = t
       /\ \A i \in p + 2 .. Len(s) + 1 : r[i] = s[i - 1]
  <2>1. \A i \in 1 .. p + 1 : r[i] = c[i]
    BY <1>1, <1>4, <1>7, <1>9, <1>10
  <2>2. \A i \in p + 2 .. Len(s) + 1 : r[i] = b[i - (p + 1)]
    BY <1>1, <1>4, <1>7, <1>9, <1>10
  <2>3. \A i \in p + 2 .. Len(s) + 1 : i - (p + 1) \in 1 .. Len(s) - p /\ p + (i - (p + 1)) = i - 1
    <3> DEFINE N == Len(s)
    <3>1. N \in Nat /\ p \in 0 .. N
      BY <1>1, <1>4
    <3> HIDE DEF N, p
    <3>2. \A i \in p + 2 .. N + 1 : i - (p + 1) \in 1 .. N - p /\ p + (i - (p + 1)) = i - 1
      BY ONLY <3>1
    <3> QED
      BY <3>2 DEF N
  <2>4. \A i \in 1 .. p : i \in 1 .. p + 1
    BY <1>4
  <2>5. p + 1 \in 1 .. p + 1
    BY <1>4
  <2>6. \A i \in 1 .. p : r[i] = s[i]
    BY <1>9, <2>1, <2>4
  <2>7. r[p + 1] = t
    BY <1>9, <2>1, <2>5
  <2> QED
    BY <1>7, <2>2, <2>3, <2>6, <2>7
<1>13. Cells(r) = Cells(s) \cup {t}
  <2>1. DOMAIN r = 1 .. Len(s) + 1
    BY <1>11
  <2>2. ASSUME NEW i \in DOMAIN r PROVE r[i] \in Cells(s) \cup {t}
    <3>1. i \in 1 .. p \/ i = p + 1 \/ i \in p + 2 .. Len(s) + 1
      BY <1>1, <1>4, <2>1
    <3>2. i \in 1 .. p => i \in DOMAIN s
      BY <1>1, <1>4
    <3>3. i \in p + 2 .. Len(s) + 1 => i - 1 \in DOMAIN s
      BY <1>1, <1>4
    <3> QED
      BY <1>12, <3>1, <3>2, <3>3 DEF Cells
  <2>3. ASSUME NEW i \in DOMAIN s PROVE s[i] \in Cells(r)
    <3>1. CASE i <= p
      <4>1. i \in 1 .. p /\ i \in DOMAIN r
        BY <1>1, <1>4, <2>1, <3>1
      <4> QED
        BY <1>12, <4>1 DEF Cells
    <3>2. CASE ~(i <= p)
      <4>1. i + 1 \in p + 2 .. Len(s) + 1 /\ i + 1 \in DOMAIN r /\ (i + 1) - 1 = i
        BY <1>1, <1>4, <2>1, <3>2
      <4>2. r[i + 1] = s[i]
        BY <1>12, <4>1
      <4> QED
        BY <4>1, <4>2 DEF Cells
    <3> QED
      BY <3>1, <3>2
  <2>4. t \in Cells(r)
    <3>1. p + 1 \in DOMAIN r
      BY <1>1, <1>4, <2>1
    <3> QED
      BY <1>12, <3>1 DEF Cells
  <2> QED
    BY <2>2, <2>3, <2>4 DEF Cells
<1>14. ASSUME Sorted(s, key) PROVE Sorted(r, key)
  <2> SUFFICES ASSUME NEW i \in 1 .. Len(r), NEW j \in 1 .. Len(r), i <= j
               PROVE  r[i][key] <= r[j][key]
    BY DEF Sorted
  <2>1. \A k \in 1 .. Len(s) : s[k][key] \in Int
    OBVIOUS
  <2>2. t[key] \in Int
    OBVIOUS
  <2>3. \A k, l \in 1 .. Len(s) : k <= l => s[k][key] <= s[l][key]
    BY <1>14 DEF Sorted
  <2> DEFINE v == [k \in 1 .. Len(s) |-> s[k][key]]
             w == [k \in 1 .. Len(s) + 1 |-> r[k][key]]
             u == t[key]
  <2>4. \A k \in 1 .. Len(s) : v[k] \in Int
    BY <2>1
  <2>5. \A k, l \in 1 .. Len(s) : k <= l => v[k] <= v[l]
    BY <2>3
  <2>6. \A k \in 1 .. Len(s) : IF k <= p THEN v[k] <= v[p] /\ v[p] <= u ELSE u <= v[k]
    BY <1>1, <1>4, <2>1, <2>2, <2>3
  <2>7. /\ \A k \in 1 .. p : w[k] = v[k]
        /\ w[p + 1] = u
        /\ \A k \in p + 2 .. Len(s) + 1 : w[k] = v[k - 1]
    BY <1>1, <1>4, <1>12
  <2>8. w[i] = r[i][key] /\ w[j] = r[j][key]
    BY <1>11
  <2>9. i \in 1 .. Len(s) + 1 /\ j \in 1 .. Len(s) + 1 /\ u \in Int
    BY <1>11, <2>2
  <2> HIDE DEF v, w, u
  <2>10. w[i] <= w[j]
    <3>1. CASE i <= p /\ j <= p
      BY <1>1, <1>4, <2>5, <2>7, <2>9, <3>1
    <3>2. CASE i <= p /\ j = p + 1
      <4>1. i \in 1 .. Len(s) /\ p \in 1 .. Len(s)
        BY <1>1, <1>4, <2>9, <3>2
      <4>2. w[i] = v[i] /\ w[j] = u
        BY <1>4, <2>7, <2>9, <3>2
      <4>3. v[i] <= v[p] /\ v[p] <= u
        BY <2>6, <3>2, <4>1
      <4> QED
        BY <2>4, <2>9, <4>1, <4>2, <4>3
    <3>3. CASE i <= p /\ j > p + 1
      <4>1. i \in 1 .. Len(s) /\ p \in 1 .. Len(s) /\ j - 1 \in 1 .. Len(s) /\ i <= j - 1
        BY <1>1, <1>4, <2>9, <3>3
      <4>2. w[i] = v[i] /\ w[j] = v[j - 1]
        BY <1>1, <1>4, <2>7, <2>9, <3>3
      <4> QED
        BY <2>5, <4>1, <4>2
    <3>4. CASE i = p + 1 /\ j = p + 1
      BY <2>7, <2>9, <3>4
    <3>5. CASE i = p + 1 /\ j > p + 1
      <4>1. j - 1 \in 1 .. Len(s) /\ ~(j - 1 <= p)
        BY <1>1, <1>4, <2>9, <3>5
      <4>2. w[i] = u /\ w[j] = v[j - 1]
        BY <1>1, <1>4, <2>7, <2>9, <3>5
      <4> QED
        BY <2>6, <4>1, <4>2
    <3>6. CASE i > p + 1
      <4>1. i - 1 \in 1 .. Len(s) /\ j - 1 \in 1 .. Len(s) /\ i - 1 <= j - 1
        BY <1>1, <1>4, <2>9, <3>6
      <4>2. w[i] = v[i - 1] /\ w[j] = v[j - 1]
        BY <1>1, <1>4, <2>7, <2>9, <3>6
      <4> QED
        BY <2>5, <4>1, <4>2
    <3> QED
      BY <1>4, <2>9, <3>1, <3>2, <3>3, <3>4, <3>5, <3>6
  <2> QED
    BY <2>8, <2>10
<1>15. r = Placed(s, t, key)
  BY DEF r
<1> QED
  BY <1>11, <1>13, <1>14, <1>15

\* The sort gives the same elements in order.
LEMMA SortOf ==
  ASSUME NEW S, NEW A \in Seq(S), NEW key, \A x \in S : x[key] \in Int
  PROVE  /\ Dir_Insert(A, key) \in Seq(S)
         /\ Cells(Dir_Insert(A, key)) = Cells(A)
         /\ Sorted(Dir_Insert(A, key), key)
<1> DEFINE n == Len(A)
           Is(f) == f = [k \in 0 .. n |-> IF k = 0 THEN <<>> ELSE Placed(f[k - 1], A[k], key)]
           sorted == CHOOSE f : Is(f)
           step == [ks \in (1 .. n) \X Seq(S) |-> Placed(ks[2], A[ks[1]], key)]
<1>1. Dir_Insert(A, key) = sorted[n]
  BY DEF Dir_Insert
<1>2. n \in Nat /\ \A k \in 1 .. n : A[k] \in S
  OBVIOUS
<1> HIDE DEF n
<1>3. \A s \in Seq(S), k \in 1 .. n :
        /\ Placed(s, A[k], key) \in Seq(S)
        /\ Cells(Placed(s, A[k], key)) = Cells(s) \cup {A[k]}
        /\ Sorted(s, key) => Sorted(Placed(s, A[k], key), key)
  BY <1>2, PlacedInOrder
<1>4. step \in [(1 .. n) \X Seq(S) -> Seq(S)] /\ \A k \in 1 .. n, s \in Seq(S) : step[<<k, s>>] = Placed(s, A[k], key)
  BY <1>3
<1> HIDE DEF step
<1>5. <<>> \in Seq(S)
  OBVIOUS
<1>6. PICK f \in [0 .. n -> Seq(S)] : Goes(f, n, <<>>, step)
  <2> DEFINE X == Seq(S)
             nil == <<>>
  <2>1. nil \in X /\ \A k \in 1 .. n, x \in X : step[<<k, x>>] \in X
    BY <1>3, <1>4, <1>5
  <2> HIDE DEF X, nil
  <2>2. \E f \in [0 .. n -> X] : Goes(f, n, nil, step)
    BY <1>2, <2>1, StepsExist
  <2> QED
    BY <2>2 DEF X, nil
<1>7. \A k \in 1 .. n : k \in 0 .. n /\ k - 1 \in 0 .. n
  BY <1>2
<1>8. \A k \in 1 .. n : f[k] = Placed(f[k - 1], A[k], key)
  BY <1>4, <1>6, <1>7 DEF Goes
<1>9. Is(f)
  <2> DEFINE g == [k \in 0 .. n |-> IF k = 0 THEN <<>> ELSE Placed(f[k - 1], A[k], key)]
  <2>1. ASSUME NEW k \in 0 .. n PROVE f[k] = g[k]
    <3>1. CASE k = 0
      BY <1>6, <3>1 DEF Goes
    <3>2. CASE k # 0
      <4>1. k \in 1 .. n
        BY <1>2, <3>2
      <4> QED
        BY <1>8, <3>2, <4>1
    <3> QED
      BY <3>1, <3>2
  <2>2. f \in [0 .. n -> Seq(S)] /\ DOMAIN g = 0 .. n /\ g = [k \in DOMAIN g |-> g[k]]
    OBVIOUS
  <2> HIDE DEF g
  <2>3. f = g
    BY <2>1, <2>2
  <2> QED
    BY <2>3 DEF g
<1>10. Is(sorted)
  BY <1>9, Zenon
<1> HIDE DEF sorted
<1>11. sorted[0] = <<>> /\ \A k \in 1 .. n : sorted[k] = Placed(sorted[k - 1], A[k], key)
  <2>1. 0 \in 0 .. n /\ \A k \in 1 .. n : k # 0
    BY <1>2
  <2>2. \A k \in 0 .. n : sorted[k] = IF k = 0 THEN <<>> ELSE Placed(sorted[k - 1], A[k], key)
    BY <1>10, Zenon
  <2> QED
    BY <1>7, <2>1, <2>2
<1> HIDE DEF Is
<1> DEFINE Good(k) == /\ sorted[k] \in Seq(S)
                      /\ Cells(sorted[k]) = {A[i] : i \in 1 .. k}
                      /\ Sorted(sorted[k], key)
           T == {k \in 0 .. n : Good(k)}
<1>12. 0 \in T
  <2>1. Cells(<<>>) = {} /\ {A[i] : i \in 1 .. 0} = {}
    BY DEF Cells
  <2>2. Sorted(<<>>, key)
    BY DEF Sorted
  <2>3. Good(0)
    BY <1>5, <1>11, <2>1, <2>2, Zenon
  <2> HIDE DEF Good
  <2>4. 0 \in 0 .. n
    BY <1>2
  <2> QED
    BY <2>3, <2>4
<1>13. \A k \in 1 .. n : k - 1 \in T => k \in T
  <2> SUFFICES ASSUME NEW k \in 1 .. n, k - 1 \in T PROVE k \in T
    OBVIOUS
  <2>1. Good(k - 1)
    OBVIOUS
  <2>2. /\ sorted[k] \in Seq(S)
        /\ Cells(sorted[k]) = Cells(sorted[k - 1]) \cup {A[k]}
        /\ Sorted(sorted[k], key)
    <3>1. sorted[k - 1] \in Seq(S) /\ Sorted(sorted[k - 1], key) /\ A[k] \in S
      BY <1>2, <2>1
    <3>2. sorted[k] = Placed(sorted[k - 1], A[k], key)
      BY <1>11
    <3> HIDE DEF Good
    <3> QED
      BY <1>3, <3>1, <3>2
  <2>3. {A[i] : i \in 1 .. k - 1} \cup {A[k]} = {A[i] : i \in 1 .. k}
    <3>1. 1 .. k = (1 .. k - 1) \cup {k}
      BY <1>2
    <3> QED
      BY <3>1
  <2>4. Good(k)
    BY <2>1, <2>2, <2>3, Zenon
  <2> HIDE DEF Good
  <2> QED
    BY <1>7, <2>4
<1>14. T \subseteq 0 .. n
  OBVIOUS
<1> HIDE DEF T
<1>15. T = 0 .. n
  BY <1>2, <1>12, <1>13, <1>14, Reach
<1>16. Good(n)
  <2>1. n \in T
    BY <1>2, <1>15
  <2> HIDE DEF Good
  <2> QED
    BY <2>1 DEF T
<1>17. Cells(A) = {A[i] : i \in 1 .. n}
  <2>1. DOMAIN A = 1 .. n
    BY DEF n
  <2> QED
    BY <2>1 DEF Cells
<1> QED
  BY <1>1, <1>16, <1>17

\* After a sort the least is in front.
LEMMA Front ==
  ASSUME NEW S, NEW s \in Seq(S), NEW key, Sorted(s, key), Cells(s) # {}
  PROVE  /\ 1 \in 1 .. Len(s) /\ s[1] \in Cells(s)
         /\ \A d \in Cells(s) : s[1][key] <= d[key]
<1>1. DOMAIN s = 1 .. Len(s) /\ Len(s) \in Nat
  OBVIOUS
<1>2. 1 \in 1 .. Len(s)
  BY <1>1 DEF Cells
<1>3. s[1] \in Cells(s)
  BY <1>1, <1>2 DEF Cells
<1>4. ASSUME NEW d \in Cells(s) PROVE s[1][key] <= d[key]
  <2>1. PICK j \in 1 .. Len(s) : d = s[j]
    BY <1>1 DEF Cells
  <2> QED
    BY <1>1, <1>2, <2>1 DEF Sorted
<1> QED
  BY <1>2, <1>3, <1>4

\* Two sorts find the least by two fields.
LEMMA LeastOf ==
  ASSUME NEW S, NEW A \in Seq(S), A # <<>>, NEW first, NEW second,
         \A x \in S : x[first] \in Int, \A x \in S : x[second] \in Int
  PROVE  Least(A, first, second) \in Cells(A) /\ Weakest(Least(A, first, second), Cells(A), first, second)
<1> DEFINE s == Dir_Insert(A, first)
           E == {i \in DOMAIN s : s[i][first] = s[1][first]}
           m == Cardinality(E)
           front == SubSeq(s, 1, m)
           q == Dir_Insert(front, second)
           c == q[1]
<1>1. Least(A, first, second) = c
  BY DEF Least
<1>2. s \in Seq(S) /\ Cells(s) = Cells(A) /\ Sorted(s, first)
  BY SortOf
<1>3. Cells(A) # {}
  <2>1. 1 \in DOMAIN A
    OBVIOUS
  <2> QED
    BY <2>1 DEF Cells
<1> HIDE DEF s
<1>4. DOMAIN s = 1 .. Len(s) /\ Len(s) \in Nat /\ 1 \in 1 .. Len(s) /\ \A i \in 1 .. Len(s) : s[i] \in S
  BY <1>2, <1>3, Front
<1>5. \A d \in Cells(A) : s[1][first] <= d[first]
  BY <1>2, <1>3, Front
<1>6. \E k \in 1 .. Len(s) : E = 1 .. k
  <2> DEFINE k == Fin!Max({0} \cup E)
  <2>1. {0} \cup E \subseteq 0 .. Len(s)
    BY <1>4
  <2> HIDE DEF E
  <2>2. k \in {0} \cup E /\ \A j \in {0} \cup E : j <= k
    BY <1>4, <2>1, Greatest
  <2> HIDE DEF k
  <2>3. 1 \in E
    BY <1>4 DEF E
  <2>4. k \in E /\ k \in 1 .. Len(s) /\ \A j \in E : j <= k
    BY <1>4, <2>1, <2>2, <2>3
  <2>5. ASSUME NEW i \in 1 .. k PROVE i \in E
    <3>1. i \in 1 .. Len(s) /\ 1 <= i /\ i <= k
      BY <1>4, <2>4
    <3>2. s[1][first] <= s[i][first] /\ s[i][first] <= s[k][first]
      BY <1>2, <1>4, <2>4, <3>1 DEF Sorted
    <3>3. s[k][first] = s[1][first]
      BY <2>4 DEF E
    <3>4. s[1][first] \in Int /\ s[i][first] \in Int
      BY <1>4, <3>1
    <3>5. s[i][first] = s[1][first]
      <4> DEFINE v == s[i][first]
                 w == s[1][first]
      <4>1. w <= v /\ v <= w /\ v \in Int /\ w \in Int
        BY <3>2, <3>3, <3>4
      <4> HIDE DEF v, w
      <4>2. v = w
        BY <4>1
      <4> QED
        BY <4>2 DEF v, w
    <3> QED
      BY <1>4, <3>1, <3>5 DEF E
  <2>6. \A i \in E : i \in 1 .. k
    BY <1>4, <2>4 DEF E
  <2> QED
    BY <2>4, <2>5, <2>6
<1>7. m \in 1 .. Len(s) /\ E = 1 .. m
  <2>1. PICK k \in 1 .. Len(s) : E = 1 .. k
    BY <1>6
  <2>2. 1 \in Int /\ k \in Int /\ k >= 1
    BY <1>4
  <2>3. Cardinality(1 .. k) = k
    BY <2>2, FS_Interval
  <2> HIDE DEF E
  <2> QED
    BY <2>1, <2>3
<1> HIDE DEF m
<1>8. front \in Seq(S) /\ Len(front) = m /\ \A i \in 1 .. m : front[i] = s[i]
  <2>1. 1 \in Int /\ m \in Int /\ \A i \in 1 .. m : s[i] \in S
    BY <1>4, <1>7
  <2>2. /\ front \in Seq(S) /\ Len(front) = IF 1 <= m THEN m - 1 + 1 ELSE 0
        /\ \A i \in 1 .. m - 1 + 1 : front[i] = s[1 + i - 1]
    BY <2>1, SubSeqProperties
  <2> HIDE DEF front
  <2>3. m \in Nat /\ 1 <= m
    BY <1>4, <1>7
  <2>4. m - 1 + 1 = m
    BY <2>3
  <2>5. \A i \in 1 .. m : 1 + i - 1 = i
    OBVIOUS
  <2> HIDE DEF m
  <2>6. \A i \in 1 .. m : front[i] = s[i]
    BY <2>2, <2>4, <2>5
  <2> QED
    BY <2>2, <2>3, <2>4, <2>6
<1> HIDE DEF front
<1>9. Cells(front) = {s[i] : i \in 1 .. m}
  <2>1. DOMAIN front = 1 .. m
    BY <1>8
  <2> QED
    BY <1>8, <2>1 DEF Cells
<1>10. q \in Seq(S) /\ Cells(q) = Cells(front) /\ Sorted(q, second)
  BY <1>8, SortOf
<1> HIDE DEF q
<1>11. Cells(q) # {}
  <2>1. 1 \in 1 .. m
    BY <1>4, <1>7
  <2> QED
    BY <1>9, <1>10, <2>1
<1>12. c \in Cells(q) /\ \A d \in Cells(q) : c[second] <= d[second]
  BY <1>10, <1>11, Front
<1> HIDE DEF c
<1>13. PICK i \in 1 .. m : c = s[i]
  BY <1>9, <1>10, <1>12
<1>14. i \in 1 .. Len(s) /\ i \in E
  BY <1>4, <1>7
<1>15. c \in Cells(A) /\ c[first] = s[1][first]
  BY <1>2, <1>4, <1>13, <1>14 DEF Cells
<1>16. ASSUME NEW d \in Cells(A)
       PROVE  c[first] < d[first] \/ (c[first] = d[first] /\ c[second] <= d[second])
  <2>1. PICK j \in 1 .. Len(s) : d = s[j]
    BY <1>2, <1>4 DEF Cells
  <2>2. CASE d[first] = s[1][first]
    <3>1. j \in 1 .. m
      BY <1>4, <1>7, <2>1, <2>2
    <3>2. d \in Cells(q)
      BY <1>9, <1>10, <2>1, <3>1
    <3> QED
      BY <1>12, <1>15, <2>2, <3>2
  <2>3. CASE d[first] # s[1][first]
    <3>1. c[first] <= d[first] /\ c[first] # d[first]
      BY <1>5, <1>15, <2>3
    <3>2. d[first] \in Int /\ s[1][first] \in Int
      BY <1>4, <2>1
    <3> QED
      BY <1>15, <3>1, <3>2
  <2> QED
    BY <2>2, <2>3
<1> QED
  BY <1>1, <1>15, <1>16 DEF Weakest

\* The frequencies kept are those of a higher priority.
LEMMA HigherOf ==
  ASSUME NEW S, NEW freqs \in Seq(S)
  PROVE  Higher(freqs) \in Seq(S) /\ Cells(Higher(freqs)) = Better(freqs)
<1> DEFINE n == Len(freqs)
           Taken(f, k) == IF freqs[k].priority > ServingPriority THEN Append(f, freqs[k]) ELSE f
           Is(f) == f = [k \in 0 .. n |-> IF k = 0 THEN <<>> ELSE Taken(f[k - 1], k)]
           kept == CHOOSE f : Is(f)
           step == [ks \in (1 .. n) \X Seq(S) |-> Taken(ks[2], ks[1])]
<1>1. Higher(freqs) = kept[n]
  BY DEF Higher
<1>2. n \in Nat /\ DOMAIN freqs = 1 .. n /\ \A k \in 1 .. n : freqs[k] \in S
  OBVIOUS
<1> HIDE DEF n
<1>3. \A s \in Seq(S), k \in 1 .. n :
        /\ Taken(s, k) \in Seq(S)
        /\ Cells(Taken(s, k)) = Cells(s) \cup {f \in {freqs[k]} : f.priority > ServingPriority}
  <2> SUFFICES ASSUME NEW s \in Seq(S), NEW k \in 1 .. n
               PROVE  /\ Taken(s, k) \in Seq(S)
                      /\ Cells(Taken(s, k)) = Cells(s) \cup {f \in {freqs[k]} : f.priority > ServingPriority}
    OBVIOUS
  <2>1. CASE freqs[k].priority > ServingPriority
    <3> DEFINE x == freqs[k]
               a == Append(s, x)
    <3>1. x \in S
      BY <1>2
    <3>2. Taken(s, k) = a
      BY <2>1
    <3>3. {f \in {x} : f.priority > ServingPriority} = {x}
      BY <2>1
    <3> HIDE DEF x
    <3>4. a \in Seq(S) /\ Len(a) = Len(s) + 1 /\ a[Len(s) + 1] = x /\ \A i \in 1 .. Len(s) : a[i] = s[i]
      BY <3>1
    <3> HIDE DEF a
    <3>5. DOMAIN a = (DOMAIN s) \cup {Len(s) + 1} /\ DOMAIN s = 1 .. Len(s)
      BY <3>4
    <3>6. Cells(a) = Cells(s) \cup {x}
      BY <3>4, <3>5 DEF Cells
    <3> HIDE DEF Taken
    <3> QED
      BY <3>2, <3>3, <3>4, <3>6 DEF x
  <2>2. CASE ~(freqs[k].priority > ServingPriority)
    <3>1. Taken(s, k) = s
      BY <2>2
    <3>2. {f \in {freqs[k]} : f.priority > ServingPriority} = {}
      BY <2>2
    <3> HIDE DEF Taken
    <3> QED
      BY <3>1, <3>2
  <2> QED
    BY <2>1, <2>2
<1> HIDE DEF Taken
<1>4. \A k \in 1 .. n, s \in Seq(S) : step[<<k, s>>] = Taken(s, k)
  OBVIOUS
<1> HIDE DEF step
<1>5. <<>> \in Seq(S)
  OBVIOUS
<1>6. PICK f \in [0 .. n -> Seq(S)] : Goes(f, n, <<>>, step)
  <2> DEFINE X == Seq(S)
             nil == <<>>
  <2>1. nil \in X /\ \A k \in 1 .. n, x \in X : step[<<k, x>>] \in X
    BY <1>3, <1>4, <1>5
  <2> HIDE DEF X, nil
  <2>2. \E f \in [0 .. n -> X] : Goes(f, n, nil, step)
    BY <1>2, <2>1, StepsExist
  <2> QED
    BY <2>2 DEF X, nil
<1>7. \A k \in 1 .. n : k \in 0 .. n /\ k - 1 \in 0 .. n /\ k # 0
  BY <1>2
<1>8. \A k \in 1 .. n : f[k] = Taken(f[k - 1], k)
  BY <1>4, <1>6, <1>7 DEF Goes
<1>9. Is(f)
  <2> DEFINE g == [k \in 0 .. n |-> IF k = 0 THEN <<>> ELSE Taken(f[k - 1], k)]
  <2>1. ASSUME NEW k \in 0 .. n PROVE f[k] = g[k]
    <3>1. CASE k = 0
      BY <1>6, <3>1 DEF Goes
    <3>2. CASE k # 0
      <4>1. k \in 1 .. n
        BY <1>2, <3>2
      <4> QED
        BY <1>8, <3>2, <4>1
    <3> QED
      BY <3>1, <3>2
  <2>2. f \in [0 .. n -> Seq(S)] /\ DOMAIN g = 0 .. n /\ g = [k \in DOMAIN g |-> g[k]]
    OBVIOUS
  <2> HIDE DEF g
  <2>3. f = g
    BY <2>1, <2>2
  <2> QED
    BY <2>3 DEF g
<1>10. Is(kept)
  BY <1>9, Zenon
<1> HIDE DEF kept
<1>11. kept[0] = <<>> /\ \A k \in 1 .. n : kept[k] = Taken(kept[k - 1], k)
  <2>1. 0 \in 0 .. n
    BY <1>2
  <2>2. \A k \in 0 .. n : kept[k] = IF k = 0 THEN <<>> ELSE Taken(kept[k - 1], k)
    BY <1>10, Zenon
  <2> QED
    BY <1>7, <2>1, <2>2
<1> HIDE DEF Is
<1> DEFINE Good(k) == /\ kept[k] \in Seq(S)
                      /\ Cells(kept[k]) = {q \in {freqs[i] : i \in 1 .. k} : q.priority > ServingPriority}
           T == {k \in 0 .. n : Good(k)}
<1>12. 0 \in T
  <2>1. Cells(<<>>) = {} /\ {q \in {freqs[i] : i \in 1 .. 0} : q.priority > ServingPriority} = {}
    BY DEF Cells
  <2>2. Good(0)
    BY <1>5, <1>11, <2>1, Zenon
  <2> HIDE DEF Good
  <2>3. 0 \in 0 .. n
    BY <1>2
  <2> QED
    BY <2>2, <2>3
<1>13. \A k \in 1 .. n : k - 1 \in T => k \in T
  <2> SUFFICES ASSUME NEW k \in 1 .. n, k - 1 \in T PROVE k \in T
    OBVIOUS
  <2>1. Good(k - 1)
    OBVIOUS
  <2>2. /\ kept[k] \in Seq(S)
        /\ Cells(kept[k]) = Cells(kept[k - 1]) \cup {q \in {freqs[k]} : q.priority > ServingPriority}
    <3>1. kept[k - 1] \in Seq(S)
      BY <2>1
    <3> HIDE DEF Good
    <3> QED
      BY <1>3, <1>11, <3>1
  <2>3. {freqs[i] : i \in 1 .. k - 1} \cup {freqs[k]} = {freqs[i] : i \in 1 .. k}
    <3>1. 1 .. k = (1 .. k - 1) \cup {k}
      BY <1>2
    <3> QED
      BY <3>1
  <2>4. Good(k)
    <3>1. /\ kept[k] \in Seq(S)
          /\ Cells(kept[k - 1]) = {q \in {freqs[i] : i \in 1 .. k - 1} : q.priority > ServingPriority}
      BY <2>1, <2>2
    <3> DEFINE F == {freqs[i] : i \in 1 .. k - 1}
               G == {freqs[i] : i \in 1 .. k}
    <3>2. F \cup {freqs[k]} = G
      BY <2>3
    <3> HIDE DEF F, G
    <3>3. {q \in F : q.priority > ServingPriority} \cup {q \in {freqs[k]} : q.priority > ServingPriority}
            = {q \in G : q.priority > ServingPriority}
      BY <3>2
    <3> QED
      BY <2>2, <3>1, <3>3 DEF F, G
  <2> HIDE DEF Good
  <2> QED
    BY <1>7, <2>4
<1>14. T \subseteq 0 .. n
  OBVIOUS
<1> HIDE DEF T
<1>15. T = 0 .. n
  BY <1>2, <1>12, <1>13, <1>14, Reach
<1>16. Good(n)
  <2>1. n \in T
    BY <1>2, <1>15
  <2> HIDE DEF Good
  <2> QED
    BY <2>1 DEF T
<1>17. Better(freqs) = {q \in {freqs[i] : i \in 1 .. n} : q.priority > ServingPriority}
  BY <1>2 DEF Better, Cells
<1> QED
  BY <1>1, <1>16, <1>17

-----------------------------------------------------------------------------
(* CellSel: the choice of a cell *)

CellTypes ==
  /\ intrafreqCell \in Seq(Cell) /\ num_intrafreq_cells \in Nat
  /\ answer \in Report /\ acquired \in Report
  /\ choosing \in {"none", "head", "read", "built"}

\* The cells counted are stored, or are about to be by the thread that counted them.
CountedSoon ==
  \/ num_intrafreq_cells <= Len(intrafreqCell)
  \/ choosing = "head" /\ num_intrafreq_cells <= Len(answer.intra)
  \/ acquired # NoReport /\ num_intrafreq_cells <= Len(acquired.intra)

\* A choice that the scan thread has not crossed works on the report it began with.
FromAnswer ==
  ~crossed /\ choosing # "none" =>
    /\ acquired = NoReport /\ currentSCellInfo = answer.serving
    /\ choosing = "head" => (answer.sib3 => num_intrafreq_cells = Len(answer.intra))
    /\ choosing = "read" =>
         /\ interfreqs = answer.inter
         /\ answer.sib3 => /\ Entries(num_intrafreq_cells, intrafreqCell) = answer.intra
                           /\ num_intrafreq_cells = Len(answer.intra)
    /\ choosing = "built" => WeakestNeighbour(targetCell, answer) /\ WeakestOfLowest(targetCell, answer)

\* The cell imitated is the right one of the report it was chosen from.
Reported ==
  report # NoReport =>
    WeakestNeighbour(strPbsPara, report) /\ WeakestOfLowest(strPbsPara, report) /\ FollowsServing

CellInv == CellTypes /\ CountedSoon /\ FromAnswer /\ Reported

\* The cells read are in front of those that are left of earlier reports.
LEMMA OverlaidBy ==
  ASSUME NEW S, NEW a \in Seq(S), NEW b \in Seq(S)
  PROVE  /\ Overlaid(a, b) \in Seq(S)
         /\ Len(a) <= Len(Overlaid(a, b)) /\ Len(b) <= Len(Overlaid(a, b))
         /\ \A i \in 1 .. Len(a) : Overlaid(a, b)[i] = a[i]
<1> DEFINE c == SubSeq(b, Len(a) + 1, Len(b))
<1>1. Len(a) \in Nat /\ Len(b) \in Nat
  OBVIOUS
<1>2. c \in Seq(S) /\ Len(c) = IF Len(a) + 1 <= Len(b) THEN Len(b) - Len(a) ELSE 0
  <2>1. Len(a) + 1 \in Int /\ Len(b) \in Int /\ \A i \in Len(a) + 1 .. Len(b) : b[i] \in S
    BY <1>1
  <2>2. c \in Seq(S) /\ Len(c) = IF Len(a) + 1 <= Len(b) THEN (Len(b) - (Len(a) + 1)) + 1 ELSE 0
    BY <2>1, SubSeqProperties
  <2> HIDE DEF c
  <2> QED
    BY <1>1, <2>2
<1> HIDE DEF c
<1>3. /\ a \o c \in Seq(S) /\ Len(a \o c) = Len(a) + Len(c)
      /\ \A i \in 1 .. Len(a) + Len(c) : (a \o c)[i] = IF i <= Len(a) THEN a[i] ELSE c[i - Len(a)]
  BY <1>2, ConcatProperties
<1>4. Overlaid(a, b) = a \o c
  BY DEF Overlaid, c
<1> QED
  BY <1>1, <1>2, <1>3, <1>4

LEMMA NoReportIn == NoReport \in Report
<1>1. NoServing \in Serving
  BY DEF NoServing, Serving
<1>2. <<>> \in UpTo(MAX_CELL_INTRA, Cell) /\ <<>> \in UpTo(MAX_FREQ, Freq)
  BY DEF UpTo, MAX_CELL_INTRA, MAX_FREQ
<1> QED
  BY <1>1, <1>2 DEF NoReport, Report

LEMMA CellStart == CellInit => CellInv
<1> SUFFICES ASSUME CellInit PROVE CellInv
  OBVIOUS
<1>1. num_intrafreq_cells = 0 /\ intrafreqCell = <<>>
  BY DEF CellInit
<1>2. intrafreqCell \in Seq(Cell) /\ num_intrafreq_cells \in Nat /\ CountedSoon
  BY <1>1 DEF CountedSoon
<1>3. CellTypes
  BY <1>2, NoReportIn DEF CellInit, CellTypes
<1> QED
  BY <1>2, <1>3 DEF CellInit, CellInv, FromAnswer, Reported

LEMMA ReportCells ==
  ASSUME NEW r \in Report
  PROVE  /\ r.serving \in Serving /\ r.intra \in Seq(Cell) /\ r.inter \in Seq(Freq)
         /\ Len(r.intra) \in Nat /\ (r.answered => r # NoReport)
<1>1. r.serving \in Serving /\ r.intra \in Seq(Cell) /\ r.inter \in Seq(Freq)
  BY DEF Report, UpTo
<1>2. r.answered => r # NoReport
  BY DEF NoReport
<1> QED
  BY <1>1, <1>2

\* The cells of a report that are stored leave the array no shorter than it was or than they are, and
\* are its first ones.
LEMMA StoredCells ==
  ASSUME CellTypes, NEW r \in Report, StoreCells(r)
  PROVE  /\ intrafreqCell' \in Seq(Cell) /\ num_intrafreq_cells' = num_intrafreq_cells
         /\ Len(intrafreqCell) <= Len(intrafreqCell') /\ Len(r.intra) <= Len(intrafreqCell')
         /\ Len(intrafreqCell) \in Nat /\ Len(intrafreqCell') \in Nat
         /\ interfreqs' = r.inter /\ currentSCellInfo' = currentSCellInfo
         /\ num_intrafreq_cells = Len(r.intra) => Entries(num_intrafreq_cells, intrafreqCell') = r.intra
<1> DEFINE a == r.intra
           b == intrafreqCell
           c == intrafreqCell'
<1>1. a \in Seq(Cell) /\ b \in Seq(Cell)
  BY ReportCells DEF CellTypes
<1>2. c = Overlaid(a, b)
  BY DEF StoreCells
<1>3. /\ c \in Seq(Cell) /\ Len(a) <= Len(c) /\ Len(b) <= Len(c)
      /\ \A i \in 1 .. Len(a) : c[i] = a[i]
  BY <1>1, <1>2, OverlaidBy
<1>4. Len(a) \in Nat /\ Len(b) \in Nat /\ Len(c) \in Nat
  <2> HIDE DEF a, b, c
  <2> QED
    BY <1>1, <1>3
<1>5. Entries(Len(a), c) = a
  <2> HIDE DEF a, b, c
  <2>1. a = [i \in 1 .. Len(a) |-> a[i]]
    BY <1>1
  <2>2. \A i \in 1 .. Len(a) : i <= Len(c) /\ c[i] = a[i]
    BY <1>3, <1>4
  <2>3. Entries(Len(a), c) = [i \in 1 .. Len(a) |-> a[i]]
    BY <2>2 DEF Entries
  <2> QED
    BY <2>1, <2>3
<1>6. UNCHANGED <<currentSCellInfo, num_intrafreq_cells>> /\ interfreqs' = r.inter
  BY DEF StoreCells
<1> QED
  BY <1>3, <1>4, <1>5, <1>6

LEMMA NeighbourIs ==
  ASSUME NEW serving \in Serving, NEW found
  PROVE  /\ Neighbour(serving, found).pci = found.pci
         /\ Neighbour(serving, found).earfcn = found.earfcn
<1>1. DOMAIN serving = {"band", "earfcn", "pci", "cellId"}
  BY DEF Serving
<1> QED
  BY <1>1 DEF Neighbour

\* A cell built from a report is its weakest neighbour, or the weakest of the lowest of the better
\* frequencies.
LEMMA ChosenRight ==
  ASSUME NEW r \in Report, NEW n, NEW s, r.sib3 => Entries(n, s) = r.intra /\ n = Len(r.intra),
         NEW t, t = buildReselTargetCellPara(r.serving, n, s, r.inter)
  PROVE  WeakestNeighbour(t, r) /\ WeakestOfLowest(t, r)
<1>3. r.serving \in Serving /\ r.intra \in Seq(Cell) /\ r.inter \in Seq(Freq)
  BY ReportCells
<1>4. WeakestNeighbour(t, r)
  <2> SUFFICES ASSUME r.sib3, r.inter = <<>>, r.intra # <<>>
               PROVE  \E c \in Cells(r.intra) :
                        c.pci = t.pci /\ Weakest(c, Cells(r.intra), "rsrp", "srxlev")
    BY DEF WeakestNeighbour
  <2> DEFINE c == Least(r.intra, "rsrp", "srxlev")
             found == [earfcn |-> r.serving.earfcn, pci |-> IntraFreqCell(r.intra).pci]
  <2>1. Entries(n, s) = r.intra
    OBVIOUS
  <2>2. n > 0
    <3>1. n = Len(r.intra)
      OBVIOUS
    <3> DEFINE a == r.intra
    <3>2. a \in Seq(Cell) /\ a # <<>>
      BY <1>3
    <3> HIDE DEF a
    <3>3. Len(a) > 0
      BY <3>2
    <3> QED
      BY <3>1, <3>3 DEF a
  <2>3. t = Neighbour(r.serving, found)
    <3>1. t = Neighbour(r.serving, [earfcn |-> r.serving.earfcn, pci |-> IntraFreqCell(Entries(n, s)).pci])
      <4> HIDE DEF c, found
      <4> QED
        BY <2>2 DEF buildReselTargetCellPara
    <3> QED
      BY <2>1, <3>1, Zenon
  <2>4. t.pci = c.pci
    <3>1. found.pci = c.pci
      BY Zenon DEF IntraFreqCell
    <3> HIDE DEF found, c
    <3>2. t.pci = found.pci
      BY <1>3, <2>3, NeighbourIs
    <3> QED
      BY <3>1, <3>2
  <2>5. \A x \in Cell : x["rsrp"] \in Int
    BY DEF Cell
  <2>6. \A x \in Cell : x["srxlev"] \in Int
    BY DEF Cell
  <2>7. c \in Cells(r.intra) /\ Weakest(c, Cells(r.intra), "rsrp", "srxlev")
    BY <1>3, <2>5, <2>6, LeastOf
  <2> HIDE DEF c
  <2> QED
    BY <2>4, <2>7
<1>5. WeakestOfLowest(t, r)
  <2> SUFFICES ASSUME Better(r.inter) # {}
               PROVE  \E f \in Better(r.inter) :
                        /\ f.earfcn = t.earfcn
                        /\ \A g \in Better(r.inter) : f.threshX <= g.threshX
                        /\ f.cells # <<>> => \E c \in Cells(f.cells) :
                             c.pci = t.pci /\ Weakest(c, Cells(f.cells), "srxlev", "rsrp")
    BY DEF WeakestOfLowest
  <2> DEFINE h == Higher(r.inter)
             q == Dir_Insert(h, "threshX")
             f == q[1]
             found == InterFreqCellSelect(r.inter)
  <2>1. h \in Seq(Freq) /\ Cells(h) = Better(r.inter)
    BY <1>3, HigherOf
  <2>2. h # <<>>
    <3>1. Cells(<<>>) = {}
      BY DEF Cells
    <3> QED
      BY <2>1, <3>1
  <2>3. \A x \in Freq : x["threshX"] \in Int
    BY DEF Freq
  <2>4. q \in Seq(Freq) /\ Cells(q) = Better(r.inter) /\ Sorted(q, "threshX")
    <3> HIDE DEF h
    <3> QED
      BY <2>1, <2>3, SortOf
  <2>5. f \in Better(r.inter) /\ \A g \in Better(r.inter) : f["threshX"] <= g["threshX"]
    <3> HIDE DEF q
    <3> QED
      BY <2>4, Front
  <2>6. f \in Freq
    <3> HIDE DEF q
    <3>1. 1 \in 1 .. Len(q)
      BY <2>4, Front
    <3> QED
      BY <2>4, <3>1
  <2>7. found = [earfcn |-> f.earfcn, pci |-> IF f.cells = <<>> THEN 0 ELSE Least(f.cells, "srxlev", "rsrp").pci]
    BY <2>2 DEF InterFreqCellSelect, InterFreq
  <2>8. r.inter # <<>>
    <3>1. Better(<<>>) = {}
      BY DEF Better, Cells
    <3> QED
      BY <3>1
  <2>9. t = Neighbour(r.serving, found)
    BY <2>8 DEF buildReselTargetCellPara
  <2> HIDE DEF f, found
  <2>10. t.earfcn = found.earfcn /\ t.pci = found.pci
    BY <1>3, <2>9, NeighbourIs
  <2>11. f.cells # <<>> => \E c \in Cells(f.cells) :
           c.pci = t.pci /\ Weakest(c, Cells(f.cells), "srxlev", "rsrp")
    <3> SUFFICES ASSUME f.cells # <<>>
                 PROVE  \E c \in Cells(f.cells) :
                          c.pci = t.pci /\ Weakest(c, Cells(f.cells), "srxlev", "rsrp")
      OBVIOUS
    <3> DEFINE c == Least(f.cells, "srxlev", "rsrp")
    <3>1. f.cells \in Seq(Cell)
      BY <2>6 DEF Freq, UpTo
    <3>2. \A x \in Cell : x["rsrp"] \in Int
      BY DEF Cell
    <3>3. \A x \in Cell : x["srxlev"] \in Int
      BY DEF Cell
    <3>4. c \in Cells(f.cells) /\ Weakest(c, Cells(f.cells), "srxlev", "rsrp")
      BY <3>1, <3>2, <3>3, LeastOf
    <3>5. found.pci = c.pci
      BY <2>7
    <3> HIDE DEF c
    <3> QED
      BY <2>10, <3>4, <3>5
  <2>12. f.earfcn = t.earfcn
    BY <2>7, <2>10
  <2> QED
    BY <2>5, <2>11, <2>12
<1> QED
  BY <1>4, <1>5

LEMMA HeadStored ==
  ASSUME CellTypes, NEW r \in Report, StoreHead(r)
  PROVE  /\ num_intrafreq_cells' \in Nat /\ currentSCellInfo' = r.serving /\ r # NoReport
         /\ UNCHANGED <<intrafreqCell, interfreqs>>
         /\ r.sib3 => num_intrafreq_cells' = Len(r.intra)
         /\ ~r.sib3 => num_intrafreq_cells' = num_intrafreq_cells
  BY ReportCells DEF StoreHead, Complete, CellTypes

\* The steps of main's choice.
LEMMA ChoiceStep ==
  ASSUME CellInv, (\E r \in CellReports : Selects(r)) \/ SelectReads \/ SelectBuilds \/ SelectSets
  PROVE  CellInv'
<1> USE DEF CellInv
<1>1. ASSUME NEW r \in CellReports, Selects(r) PROVE CellInv'
  <2>1. r \in Report
    BY CellReportsAssumption
  <2>2. /\ choosing = "none" /\ StoreHead(r) /\ choosing' = "head" /\ answer' = r
        /\ crossed' = (acquired # NoReport) /\ UNCHANGED <<unitvars, targetCell, acquired>>
    BY <1>1 DEF Selects
  <2>3. /\ num_intrafreq_cells' \in Nat /\ currentSCellInfo' = r.serving
        /\ UNCHANGED <<intrafreqCell, interfreqs>>
        /\ r.sib3 => num_intrafreq_cells' = Len(r.intra)
        /\ ~r.sib3 => num_intrafreq_cells' = num_intrafreq_cells
    BY <2>1, <2>2, HeadStored
  <2>4. CellTypes'
    BY <2>1, <2>2, <2>3 DEF CellTypes
  <2>5. CountedSoon'
    <3>1. CASE r.sib3
      <4>1. num_intrafreq_cells' = Len(r.intra) /\ Len(r.intra) \in Nat
        BY <2>1, <2>3, <3>1, ReportCells
      <4> QED
        BY <2>2, <4>1 DEF CountedSoon
    <3>2. CASE ~r.sib3
      BY <2>2, <2>3, <3>2 DEF CountedSoon
    <3> QED
      BY <3>1, <3>2
  <2>6. FromAnswer'
    BY <2>2, <2>3 DEF FromAnswer
  <2>7. Reported'
    BY <2>2 DEF unitvars, Reported, FollowsServing
  <2> QED
    BY <2>4, <2>5, <2>6, <2>7
<1>2. CASE SelectReads
  <2>1. /\ choosing = "head" /\ StoreCells(answer) /\ choosing' = "read" /\ answer \in Report
        /\ UNCHANGED <<unitvars, answer, targetCell, acquired, crossed>>
    BY <1>2 DEF SelectReads, CellTypes
  <2>2. /\ intrafreqCell' \in Seq(Cell) /\ num_intrafreq_cells' = num_intrafreq_cells
        /\ Len(intrafreqCell) <= Len(intrafreqCell') /\ Len(answer.intra) <= Len(intrafreqCell')
        /\ Len(intrafreqCell) \in Nat /\ Len(intrafreqCell') \in Nat
        /\ interfreqs' = answer.inter /\ currentSCellInfo' = currentSCellInfo
        /\ num_intrafreq_cells = Len(answer.intra)
             => Entries(num_intrafreq_cells, intrafreqCell') = answer.intra
    BY <2>1, StoredCells
  <2>3. CellTypes'
    BY <2>1, <2>2 DEF CellTypes
  <2>4. CountedSoon'
    <3>1. num_intrafreq_cells \in Nat /\ Len(answer.intra) \in Nat
      BY <2>1, ReportCells DEF CellTypes
    <3> QED
      BY <2>1, <2>2, <3>1 DEF CountedSoon
  <2>5. FromAnswer'
    <3> SUFFICES ASSUME ~crossed
                 PROVE  FromAnswer'
      BY <2>1 DEF FromAnswer
    <3>1. /\ acquired = NoReport /\ currentSCellInfo = answer.serving
          /\ answer.sib3 => num_intrafreq_cells = Len(answer.intra)
      BY <2>1 DEF FromAnswer
    <3> QED
      BY <2>1, <2>2, <3>1 DEF FromAnswer
  <2>6. Reported'
    BY <2>1 DEF unitvars, Reported, FollowsServing
  <2> QED
    BY <2>3, <2>4, <2>5, <2>6
<1>3. CASE SelectBuilds
  <2>1. /\ choosing = "read" /\ choosing' = "built" /\ answer \in Report
        /\ targetCell' = buildReselTargetCellPara(currentSCellInfo, num_intrafreq_cells, intrafreqCell,
                                                  interfreqs)
        /\ UNCHANGED <<storedvars, unitvars, answer, acquired, crossed>>
    BY <1>3 DEF SelectBuilds, CellTypes
  <2>2. CellTypes'
    BY <2>1 DEF storedvars, CellTypes
  <2>3. CountedSoon'
    BY <2>1 DEF storedvars, CountedSoon
  <2>4. FromAnswer'
    <3> SUFFICES ASSUME ~crossed
                 PROVE  FromAnswer'
      BY <2>1 DEF FromAnswer
    <3>1. /\ acquired = NoReport /\ currentSCellInfo = answer.serving /\ interfreqs = answer.inter
          /\ answer.sib3 => /\ Entries(num_intrafreq_cells, intrafreqCell) = answer.intra
                            /\ num_intrafreq_cells = Len(answer.intra)
      BY <2>1 DEF FromAnswer
    <3>2. WeakestNeighbour(targetCell', answer) /\ WeakestOfLowest(targetCell', answer)
      BY <2>1, <3>1, ChosenRight
    <3> QED
      BY <2>1, <3>1, <3>2 DEF storedvars, FromAnswer
  <2>5. Reported'
    BY <2>1 DEF unitvars, Reported, FollowsServing
  <2> QED
    BY <2>2, <2>3, <2>4, <2>5
<1>4. CASE SelectSets
  <2>1. /\ choosing = "built" /\ strPbsPara' = targetCell /\ choosing' = "none" /\ answer' = NoReport
        /\ report' = (IF crossed THEN NoReport ELSE answer)
        /\ UNCHANGED <<storedvars, acquired>>
    BY <1>4 DEF SelectSets
  <2>2. CellTypes'
    BY <2>1, NoReportIn DEF storedvars, CellTypes
  <2>3. CountedSoon'
    BY <2>1 DEF storedvars, CountedSoon
  <2>4. Reported'
    <3> SUFFICES ASSUME ~crossed
                 PROVE  Reported'
      BY <2>1 DEF Reported
    <3>1. /\ currentSCellInfo = answer.serving /\ report' = answer
          /\ WeakestNeighbour(targetCell, answer) /\ WeakestOfLowest(targetCell, answer)
      BY <2>1 DEF FromAnswer
    <3>2. FollowsServing'
      <4>1. CASE targetCell.band >= 33 /\ tddfdd_mode' = "TDD" /\ lte_sync_cfg(targetCell, currentSCellInfo)
        BY <2>1, <3>1, <4>1 DEF lte_sync_cfg, FollowsServing
      <4>2. CASE targetCell.band \in 1 .. 32 /\ tddfdd_mode' = "FDD"
        BY <2>1, <4>2 DEF FollowsServing
      <4>3. CASE targetCell.band = 0
        BY <2>1, <4>3 DEF FollowsServing
      <4> QED
        BY <1>4, <4>1, <4>2, <4>3 DEF SelectSets
    <3> QED
      BY <2>1, <3>1, <3>2 DEF Reported
  <2> QED
    BY <2>1, <2>2, <2>3, <2>4 DEF FromAnswer
<1> QED
  BY <1>1, <1>2, <1>3, <1>4

\* The steps of the scan thread.
LEMMA AcquireStep ==
  ASSUME CellInv, (\E r \in CellReports : Acquires(r)) \/ AcquireReads
  PROVE  CellInv'
<1> USE DEF CellInv
<1>1. UNCHANGED <<unitvars, choosing, answer, targetCell>> /\ crossed' = (choosing # "none")
  BY DEF Acquires, AcquireReads
<1>2. FromAnswer' /\ Reported'
  BY <1>1 DEF unitvars, FromAnswer, Reported, FollowsServing
<1>3. ASSUME NEW r \in CellReports, Acquires(r) PROVE CellTypes' /\ CountedSoon'
  <2>1. r \in Report /\ acquired = NoReport /\ StoreHead(r) /\ acquired' = r
    BY <1>3, CellReportsAssumption DEF Acquires
  <2>2. /\ num_intrafreq_cells' \in Nat /\ r # NoReport /\ UNCHANGED <<intrafreqCell, interfreqs>>
        /\ r.sib3 => num_intrafreq_cells' = Len(r.intra)
        /\ ~r.sib3 => num_intrafreq_cells' = num_intrafreq_cells
    BY <2>1, HeadStored
  <2>3. CellTypes'
    BY <1>1, <2>1, <2>2 DEF CellTypes
  <2>4. CASE r.sib3
    <3>1. num_intrafreq_cells' = Len(r.intra) /\ Len(r.intra) \in Nat
      BY <2>1, <2>2, <2>4, ReportCells
    <3> QED
      BY <2>1, <2>2, <2>3, <3>1 DEF CountedSoon
  <2>5. CASE ~r.sib3
    BY <1>1, <2>1, <2>2, <2>3, <2>5 DEF CountedSoon
  <2> QED
    BY <2>3, <2>4, <2>5
<1>4. CASE AcquireReads
  <2>1. acquired # NoReport /\ StoreCells(acquired) /\ acquired' = NoReport /\ acquired \in Report
    BY <1>4 DEF AcquireReads, CellTypes
  <2>2. /\ intrafreqCell' \in Seq(Cell) /\ num_intrafreq_cells' = num_intrafreq_cells
        /\ Len(intrafreqCell) <= Len(intrafreqCell') /\ Len(acquired.intra) <= Len(intrafreqCell')
        /\ Len(intrafreqCell) \in Nat /\ Len(intrafreqCell') \in Nat
    BY <2>1, StoredCells
  <2>3. num_intrafreq_cells \in Nat /\ Len(acquired.intra) \in Nat
    BY <2>1, ReportCells DEF CellTypes
  <2>4. CellTypes'
    BY <1>1, <2>1, <2>2, NoReportIn DEF CellTypes
  <2>5. num_intrafreq_cells' <= Len(intrafreqCell') \/ (choosing = "head" /\ num_intrafreq_cells <= Len(answer.intra))
    BY <2>2, <2>3 DEF CountedSoon
  <2> QED
    <3>1. answer' = answer /\ choosing' = choosing
      BY <1>1
    <3> QED
      BY <1>2, <2>2, <2>4, <2>5, <3>1 DEF CountedSoon
<1> QED
  BY <1>2, <1>3, <1>4

LEMMA CellStep == CellInv /\ [CellNext]_cellvars => CellInv'
<1> SUFFICES ASSUME CellInv, [CellNext]_cellvars PROVE CellInv'
  OBVIOUS
<1>1. ASSUME NEW u \in ParaUpdates, lte_para_update_req(u) PROVE CellInv'
  <2>1. /\ UNCHANGED <<storedvars, choosing, answer, targetCell, acquired, crossed>>
        /\ report' = NoReport
    BY <1>1 DEF lte_para_update_req
  <2> QED
    BY <2>1 DEF storedvars, CellInv, CellTypes, CountedSoon, FromAnswer, Reported
<1>2. CASE UNCHANGED cellvars
  BY <1>2 DEF cellvars, storedvars, unitvars, CellInv, CellTypes, CountedSoon, FromAnswer, Reported,
              FollowsServing
<1> QED
  BY <1>1, <1>2, ChoiceStep, AcquireStep DEF CellNext

\* For any reports of any cells and frequencies, in any order and of any length that the arrays hold, and
\* with the scan thread storing its own between any two steps of a choice: no choice that this leaves
\* alone is made from an entry that was not read, the cell it sets is the weakest neighbour of the report
\* it was chosen from (given the system information of the serving cell), or the weakest of the lowest
\* frequency that is better than the serving cell's, and a TDD unit follows the cell it hears, unless
\* the cell has no band.
THEOREM ImitatesRightCell == CellSelSpec => []RightCell
<1>1. CellInv => RightCell
  BY DEF CellInv, CellTypes, CountedSoon, FromAnswer, Reported, RightCell, CountedCellsRead
<1> QED
  BY <1>1, CellStart, CellStep, PTL DEF CellSelSpec
=============================================================================
