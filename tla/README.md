# Verification of the signal scanner

TLA+ models of the scanner in this repository, the TLC runs that check them and the theorems
TLAPS proves about them. `PROJECT.json` lists every component, run, theorem and hazard and maps
each definition to the lines it stands for.

## 1. The system

The scanner is a C program on an OpenWrt board that flies on a UAV. It measures the signal of up
to three cellular modems (HUAWEI and YUGA) and writes one row per sweep to a file. The flight
controller tells it by UDP when the UAV takes off, lands or turns back; the user chooses 4G or 3G
on a web page. A second family of programs (`active/`) controls LTE, WCDMA and GSM test units from
the same utility library.

### Inventory

| Component | State | Operations | Interacts with |
|---|---|---|---|
| Control thread (`scan_logic_control.c`) | `scan_oper_mode`, `g_last_uav_status`, locals of the loop | read config, decide the mode, switch the modems, act on takeoff and landing | modem thread through `scan_run_flag`, `pModem` and `info_file_fp`; net thread through three globals; shell commands |
| Net thread (`scan_net.c`) | `g_uav_status`, `g_main_status`, `g_time_std_s`, position | store a datagram, field after field | control thread (loads) |
| Modem thread (`scan_modem.c`, `scan_file.c`) | `pModem[i]`, row buffer, `info_file_fp`, `modem_info_num` | boot check, sweep, open file, write row | control thread, AT transactions |
| Radio readings (`scan_modem.c`) | none | index in the answer to dBm | row of a sweep |
| Modem driver (`modem.c`; `util/modem.c` is an older copy, with the UART in one file, that nothing links) | `status`, `abyAtCmdRespBuf`, error counts | open, check, initialise, run, reset; command with three tries | UART, message ring, timers |
| Message ring (`modem.c`) | five slots, two indices | put, get | modem thread and its users |
| UART (`util/oss_uart.c`) | file descriptor, semaphore | open, write, read until an answer or 32 polls | every AT transaction |
| Timers (`util/oss_time.c`) | 8 callbacks, 16 event slots, `gdwTick` | set, set again, delete, scan | state machines of `active/` |
| Configuration (`util/config.c`, `scan_cfg.c`) | open `FILE`, lock, parser position | open, read a key, close | control thread, `scan_modem_init`; the web page writes the same file |
| Clock (`util/oss_time.c`) | `gdwTick`, a semaphore | signal every 20 ms, scan | timers |
| Logs (`util/oss_log.c`) | current file, its size | append, rotate | all |
| List (`util/dlist.c`) | head, tail, links | insert, delete, walk | users of the library |
| SIM switch (`util/sim_ctrl.c`), GPIO (`util/oss_gpio.c`) | pin values | power and select one of three cards | shell commands on `/sys/class/gpio` |
| Sessions (`util/oss_net.c`) | sockets, client table | accept, receive by `select`, close | programs of `active/` |
| Discovery (`util/multicast`) | none | answer a multicast request | Windows dialog |
| LTE unit (`active/lte/ht7220`) | `lte_state_t`: state, counters, `start_value` | one handler per state; one loop receives a message and scans the timers | unit by UDP, operator by UDP, timers |
| LTE orders and scans (`lte_oam.c`) | operators with their bands, `cn_oper`, `scan_type`, `sync_var` | set operator, band or mode; scan bands | a thread of its own, the modem, the SIM switch |
| LTE cell selection (`lte_cell_sel.c`) | cells of the last report | read a report, choose the cell to imitate | modem, `strPbsPara` |
| WCDMA and GSM units (`active/wcdma/wg`) | `gsm_state_t`, `event_index` | start, script of requests, answers | unit by UDP, timers |
| Web pages and scripts (`luci/`, `script/`, `active/lte/web`) | `/etc/config/scan`, log directories | save the form, start iperf, watch a process, upgrade | control thread through files and processes |

### What is hard in it

* **Threads without a lock.** The control, net and modem threads share a dozen globals. No mutex
  protects them; the code relies on delays (15 s and 5 s in a mode switch) and on single stores.
* **A file closed under its writer.** The control thread closes `info_file_fp` during a switch while
  the modem thread may be between its test of the pointer and its `fputs`.
* **A cache of hardware state.** A modem is sent a mode command only when `pModem[i].mode`, read
  some time before, says it is needed.
* **Decisions from several loads.** A status is tested and loaded again before it is remembered; the
  mode is computed from two config keys, each read from the file anew, and from the telemetry.
* **Unreliable peripherals.** AT commands fail, answer late or answer something else; modems roam.
* **Hand-written containers and timers.** The ring, the list and the timer table have the usual edges:
  full, empty, re-armed from their own callback, wrap-around.

### What makes each part correct

| Component | Properties |
|---|---|
| The three threads | no write through a closed file; no sweep starts during a switch; rows agree with their header; a switch reaches every modem; takeoff arms and landing disarms, through every switch; the mode and the status settle |
| Message ring | first in, first out, nothing lost or doubled below capacity, while a put does not go past a get |
| Radio readings | a row is what its own sweep measured; a stronger signal is not written as a weaker one |
| AT transactions | an answer belongs to the command that asked; a failure is reported as one |
| Life of a modem | no port is leaked; the status is true of port and registration unless another thread is in the way; a modem that works again is registered again |
| Timers | a set timer fires once, no earlier than its time, unless deleted; one live timer per event |
| Configuration | every open is matched by a close; a value is the one of some version of the file, while the file is whole |
| LTE unit | the heartbeat never dies out; a lost unit is noticed and not taken for ready; a request is retried as it was made |
| LTE orders, scans and cells | the unit imitates the cell that was ordered, whatever else used the modem; a scan asked for is made; the choice is made from the last report |
| GSM unit | it is started as the script says and switched on last, though datagrams of the first exchange are lost |
| List, SIM switch, sessions | agreement with a sequence; never two cards powered; a session is in the table from its accept to its close, and what it sends is received once nothing comes ahead of it |

## 2. Modules

| Module | Models |
|---|---|
| `ScanControl` | control, net and modem threads, one step per load or store of a shared global |
| `AtExchange` | what `modem_atCmd_w_r` promises: a command is asked, perhaps obeyed, and reported OK only if it was |
| `AtChannel` | the exchange itself: three tries, the semaphore of the UART, the shared answer buffer, modems that refuse, restart and answer late |
| `TimerService` | what the timer table promises: a live timer goes by a delete or by its callback |
| `OssTimer` | the table of `oss_time.c`, its scan, callbacks that set and delete |
| `OssTick` | the 20 ms tick and the 32-bit counter that lead to the scan |
| `MsgQueue` | a bounded queue with the message in the reader's hand |
| `MsgRing` | the ring of `modem.c`, store by store, of one writer and one reader |
| `DList` | the links of `dlist.c` |
| `OssNet` | `NetRecvMsg` and the table of TCP clients |
| `SimCtrl` | the pin writes of the SIM switch, with failing writes and restarts |
| `ConfigFile` | reads and writes of `config.c`, line by line, with opens that fail, an array that is too short and a crash in the middle of a write |
| `ModemLife` | the status machine of `ModemRun`: open, start, check, restart, with calls and resets of another thread at any time |
| `Readings` | set-up and dialling of the scanner's modems, the sweep's row, the conversion of levels |
| `LteSm` | the program's end of the link to the LTE unit: states, timers, requests of the operator, any messages of the unit |
| `OamBands` | the lists of operators and bands of an LTE unit and the choice among them |
| `LteOam` | orders, searches for a cell and scans, of two threads that share one modem |
| `CellSel` | parsing of a report of cells over the one before, by two threads, and the choice of the cell to imitate |
| `GsmSm` | the start of the GSM unit: exchanges, timer, script |
| `MCScanControl`, `MCAtChannel`, `MCLteSm`, `MCCellSel` | values of their constants for TLC |
| `MCLibrary`, `MCUnits` | the parts that share no state, as the alternatives of one specification |
| `ScanControlProofs`, `AtChannelProofs` | theorems about the module of the name |
| `OssTimerProofs` | theorems about `OssTimer` and `OssTick` |
| `ContainerProofs` | theorems about `DList`, `MsgRing` and `OssNet` |
| `DeviceProofs` | theorems about `ModemLife`, `ConfigFile`, `SimCtrl`, `Readings` and `CellSel` |
| `LibraryProofs` | theorems about their composition, `MCLibrary` |
| `UnitsProofs` | theorems about `LteSm`, `OamBands`, `LteOam`, `GsmSm` and their composition, `MCUnits` |
| `Recursion` | lemmas about recursive functions, for the loops written as such |

`LteOam` extends `OamBands`; `AtChannel`, `OssTimer` and `MsgRing` instantiate the abstract
specifications they implement. `MCLibrary` and `MCUnits` put modules side by side whose state is
disjoint in the code: a variable `part` says which of them a behaviour runs, the others stay as they
began. That loses nothing, since the modules have no variable in common, and each property is
checked on the behaviours of its own part.

### ScanControl

Each thread has a program counter: `cpc` (labels named after the statement about to run), `npc`,
`mpc`. The main thread runs `scan_modem_init` under `cpc` before `ChangeY` of the last modem
creates the threads. The variables are the C globals under their own names, plus

* `radio[i]`, `locked`: the technology modem `i` really has and whether a command pinned it;
* `header`: the modes named by the header line of the open file; `info_buf`: the technologies the
  columns of the row under way were measured on; `soiled`: nobody has cleared that buffer yet, so that the
  old bytes of the stack (scan_modem.c:789) may come before the columns;
* `acked`, `sysclock`: the numbers of the datagrams the acknowledged status and the clock came from.
  The time in a datagram is identified with the number of the datagram;
* `usr_cfg`: the text the next getter of `scan_cfg.c` will read, which is that of the open file while
  `scan_usr_cfg_fp` is left open by a getter that did not find its key, and `conf` otherwise;
* `run_sh`, `iperf`: the background script and the processes it starts;
* `process`: `"crashed"` once a write goes through a closed or NULL `FILE`.

A handler is the chain of its labels: a mode switch is `Compare`, `SwitchStop`, a `ChangeH` and a
`ChangeY` per modem, a `StatusOper` and a `StatusMode` per modem, `CloseTest`, `CloseNull`, `ModeSet`,
`RunStart`, which are lines 124 to 131 of `scan_logic_control.c` with the calls they make. Undefined
behaviour is a choice: `fputs` on a closed `FILE` may work or crash, a mode command with an
uninitialised code may be refused or set any technology.

Left out: dialling (`connet_net`), the error log, the copies of the file to `signal_info.txt`, the
text of a row. A UAV status is one of takeoff, landed and other: the code has no branch for the
other values, among them `LC_SS_LANDED_REMOTE_STOP`, `LC_SS_LANDED_AUTO_STOP` and
`LC_SS_LANDED_GS_CTRL`, which therefore leave the sweeps running.

#### Constants that state an assumption

| Constant | Meaning | Why |
|---|---|---|
| `Confs`, `InPlace` | what the config file can say; whether a save rewrites it or puts another in its place | the web form saves through OpenWrt's uci, which does the latter in current versions; every run has it FALSE |
| `AtReliable` | every AT command is answered and obeyed | properties that relate the cache to the hardware cannot hold otherwise; `ScanControlUnreliable.cfg` sets it FALSE |
| `MayRoam` | modems may start unlocked and change technology by themselves | the same |
| `SweepFitsDelay` | a sweep under way ends before the old file is closed | 20 s of delays against three answers of at most 1.9 s; `ScanControlOverrun.cfg` sets it FALSE and the process can then crash |
| `StatusHolds` | no status is stored between its test and the load that remembers it | two consecutive statements against datagrams a second apart |
| `LaunchFitsDelay` | `run.sh` has started its processes before a landing kills them | a flight lasts longer than `run.sh` |

Each assumption guards one action (`CloseTest`, `StoreUav`, `Kill`) or one set of outcomes, and the
properties that need it name it.

#### Bounds

`MaxDatagrams` bounds the telemetry, `MaxCommits` the saves of the web page, `RowCap` (2) the rows
counted per file: the code only tests for the first. Two modems of different make are the smallest
set in which each loop of a switch has a modem to act on and one to pass over; one modem is enough
where only the statuses matter. Two datagrams give a takeoff and a go-back; four give takeoff,
landing and another takeoff with a status between.

### AtChannel

A thread in an exchange is at one of `send`, `clear`, `wait`, `poll`, `restart`, `copy` and `match`,
the places where `modem_atCmd_w_r`, `modem_at_cmd_wait_rsp` and `oss_uart_read` touch what threads
share. `uart_read_res_sem` and `abyAtCmdRespBuf` are the C globals. `tty[m]` holds what modem `m` has
sent and nobody has read, `work[m]` the commands it has yet to carry out. Text is a sequence of
tokens, each with the number of the exchange it answers, so that a property can tell whose answer a
thread got; the code sees the words only. A read takes any number of the tokens there are, and
`tcflush` any number of those left, since the rest may still be on its way.

| Constant | Meaning | Why |
|---|---|---|
| `Timely` | by the last poll of a try the modem has answered and all of it is read | 32 polls 20 ms apart; `AtChannelOverlap.cfg` sets it FALSE |
| `Overlap` | threads may be in an exchange at the same time | the scanner's delays keep the control and modem threads apart unless a sweep outlasts them |
| `MayRefuse` | answers of ERROR and writes that fail | smaller instances do without |
| `Patterns` | what is waited for: `"OK"`, or `""` after the entry without a comma | `AtChannelManufacturer.cfg` |

`ScanControl` takes an exchange as one step that succeeds only if the modem obeyed. `Promise`, the
refinement of `AtExchange`, is the ground for that, and proved; `ScanControl` does not instantiate
`AtChannel`.

### OssTimer

`dwEvent[s]` and `lefttime[s]` are the fields of slot `s`; `state` is BUSY when `dwEvent[s]` is not
`None`. `time` and `age` are history: the time last set and the scans begun since. `call` is the last
call between the table and its users, the interface of `TimerService`. The unit of time is the period
of `oss_event_scan`, 100 ms: every time in the repository is a multiple of it. One thread owns the
table: it receives a message, calls `oss_timer_scan` and so on (`lte.c`, `gsm.c`, `wcdma.c`), so that
sets and deletes happen at `pc = "main"` and inside callbacks (`pc = "callback"`), where the scan is
held at slot `loop`. `OwnDelete` says whether a callback may delete timers of the event it was called
for; no callback of the repository does.

### LteSm

`state`, `heartbeat_lost`, `startreq_fail`, `cellselect_fail`, `startReq_send` and `start_value` are the
fields of `lte_state_t`; a counter saturates one past its limit, since the code compares it with the
limit only. The event timers are two sets: an event in `fresh` has a timer with more than 100 ms left,
one in `late` a timer that expires in the next scan, the two kinds `oss_set_timer_ex` tells apart. That
an event has at most one fresh timer is `OneFresh` of `OssTimer`, that no timer is lost `KeepsTimers`,
and that a set finds a slot `Room`, a part of `LibraryInOrder`. `sent`, `open`, `early` and `silent` are
history: what the step sent, the request to start or stop the unit has not accepted since it was configured, and whether the unit has
fallen silent for good. The unit may send any message at any time until then, which covers datagrams
lost, repeated, late and out of order. Each case of `lte_sm_disconn`, `lte_sm_start_cfg`,
`lte_sm_dataready` and `lte_sm_running` is an action, `Cases` says which states handle a timeout; a
message without a case changes nothing and is no step.

Left out: `remote_state`, which is stored and read by the same handler; `lte_sm_scan`, `lte_sm_sync` and
`lte_sm_nosync`, which the work mode set by `lte_cfg_init` never reaches; messages that change only data
(cells, configuration, reports about phones). `early` remembers whether the operator has ever asked
for a start while the unit was not ready for it. `MaxLost`, `MaxStart` and `MaxCellSel` are 1 and stand
for 35, 10 and 15: each limit is reached and passed, with a count below it.

### The library

`OssTick`: `Signal` is the timer signal, which posts `bin_sem`; `oss_timer_scan` takes a post and adds 20
to `gdwTick`, modulo `Wrap`; `since` is the time since the events were last scanned. `Wrap` is 1196 in
the run: like 2^32 it is 16 modulo 20 and 96 modulo 100.

`MsgRing`: a put is `PutCheck`, `PutStore` and `PutMove`, a get `GetIncrement` and `GetWrap`, the two
stores of `dwGetIndex`. `held` is the slot whose pointer the last get returned. `Waiting` reads the queue of
`MsgQueue` off the ring. `RingClear` is the `memset` of a modem that is closed or started, by any thread.
`spoilt` is a ghost: a put found room in a full ring between the two stores of a get of the last slot, or a
clear came in the middle of a put or a get. Each store is seen by the other thread in the order it is made:
what a processor may reorder is not modelled.

`DList`: `next`, `previous`, `tail` and `size` are the fields; `meant` is the sequence the calls stand for
and `lapses` the calls after which the links no longer agree with it (see Behaviour).

`OssNet`: `gatClientConn` is the table. A call of `NetRecvMsg` begins with the `select`, accepts those who
wait, and returns the first message; `read_all` is the set the `select` was given. Peers connect, send and
hang up at any time; `MaxUnread` is what a socket holds, and does not bound how often a peer sends.

`SimCtrl`: `high` is the set of pins that are high, `todo` the writes left of the operation under way.
Each write may fail, which the code only prints (`missed`), and the program may end between any two.

`ConfigFile`: a file is a sequence of items, comments and other lines. A reader and a writer take
`cfgMutex`; the writer first gathers the items line by line (`Gather`), then empties the file and writes
them one by one, and `CfgCrash` may end it there. A file that does not open for reading (`GatherFails`), or
has more items than the array of `MaxItems`, leaves `items` with anything (`Unfilled`, the state `garbled`); one
that does not open for writing ends the write (`WriteOpenFails`). `truth` is what the last write left, or the
file at the start, `seen` the values a read may therefore return, and `whole` says that none of these three
has yet cost the file anything: a crash does not change `truth`.

`ModemLife`: `iStatus`, `fd`, `byFailedCount` and `tCheckTime` are the fields of `TModem`. `asking` is the
AT exchange, or the store of the status, under way with the `tries` left; `sick` says whether exchanges can
fail now. `other` is what another thread does with the modem meanwhile: it looks at the port (`OtherBegins`),
and when it ends (`CallEnds`, `ResetEnds`) may have noted a restart or closed the port, between any two steps
of the start. `zero` says that descriptor 0 is free, since a port was closed twice. `opened`, `proved` and
`disturbed` are ghosts: the descriptors the process holds for the modem, the exchanges that succeeded since
the open, and whether the other thread closed the port during the start or noted a restart of a closed one.

`Readings`: `pModem`, `scan_run_flag`, `info_buf` and `modem_info_num` are the globals. `answers` is a ghost,
the answers of the sweep under way, and `Column` the place in the row that an answer of modem `k` comes to,
which is the number of answers so far.

### The units beyond their link

`OamBands` and `LteOam`: `opers` is `p_opers_list`, `settings` what the modem is set to. An order, a search
for a cell and a scan are sequences of AT exchanges (`job`), one for `main` and one for the thread of the
scans; each exchange is a step, may fail, and then skips as many others as the code's early returns do.
`settled` says that the last order succeeded and no scan has used the modem since. The loops over the bands
of an operator (`Highest`) and over the operators of a scan (`Joined`) are recursive functions of their
turns.

`CellSel`: a report is a record of the lists in it, stored in two steps, its head and its cells. A choice is
`Selects`, `SelectReads`, `SelectBuilds` and `SelectSets`; the scan thread stores reports by `Acquires` and
`AcquireReads` between any two of these, into the same variables. `crossed` is a ghost, that it did so during
the choice, and `report` the report of the last choice it did not cross. `lte_para_update_req` is the cell the
unit's own board names. `Overlaid` stores a list over the array of the report
before, as the parser does, and `buildReselTargetCellPara` chooses from the array and the counts. The
insertion sorts are recursive functions (`Dir_Insert`), one turn of the outer loop each. A report lists no
more cells and frequencies than the arrays of the parser hold (`MAX_CELL_INTRA`, `MAX_CELL_INTER`,
`MAX_FREQ`); `CellReportsAssumption` says so of the reports of an instance.

`GsmSm`: `gstate` is idle or running, `gslot` the slot of the timer of the first request and `timer_id`
what the program keeps of it. `tounit` and `tohost` are the datagrams on the way, in order: the unit is on
a cable. The three scripts of `gsm.c` are sequences without their pauses. `amp` and `tuned` are the unit's.
`StartsInSilence` is made of named parts, `TunedInSilence`, `ChannelsApart` and `AmpStaysOn`, and of
what happens in the end. Answers left over from an earlier run of the program are not modelled (see Behaviour).

## 3. Runs

| Run | Question | Instance |
|---|---|---|
| `control_switch` | Is a mode switch safe when a sweep fits in its delays? | HUAWEI and YUGA, two datagrams, one save |
| `control_overrun` | What remains true when it does not? Only rows at the edge of a switch can differ from their header. The process may crash and then stops, so deadlock is not checked | the same |
| `control_status` | Do sweeps, iperf and clock follow the telemetry, and is a lasting status acknowledged? | one modem, four datagrams, no switch |
| `control_converge` | Does the mode settle on the one asked for? | one YUGA modem, one save among every text that has one of the two keys, go-back |
| `control_unreliable` | Do sweeps stay armed in flight when modems fail and roam? | one YUGA modem |
| `control_unreadable_config` | Is `scan_oper_mode` always 4G or 3G, as its declaration says? No: see Findings | one modem |
| `at_orderly` | Is an exchange what its callers take it for, when exchanges follow one another? | two threads, two ports, three exchanges, one restart, refusals |
| `at_overlap` | Do the semaphore and the three tries hold when exchanges overlap and answers come at any time? | two threads on one port |
| `at_manufacturer` | Does reading end on OK, on ERROR or after the last poll, as a comment says? No: see Findings | one thread, one exchange |
| `library` | Timers: on time, none lost, one per event, a free slot for each (`FiresOnTime`, `Kept`, `OneFresh`, `DeleteSilences`, `Room` in `LibraryInOrder`); do scans go on after the clock wraps (`ScansResume`)? Is the ring a queue (`RingIsQueue`)? Lists and session tables in order (`LibraryInOrder`), is a message received that nothing comes ahead of (`Received`)? One card at a time (`CardsApart`)? Does the file keep its values (`FileKeepsValues`)? Is a modem's status true, and is it registered again (`StatusTrue`, `Recovers`)? Rows (`RowsTrue`), choice of a cell (`RightCell`) | see Bounds |
| `units` | LTE: does the heartbeat live on, is no unheard unit taken for ready, is an open request retried, does the unit do as it was asked, is silence noticed? Does it imitate the cell ordered (`CellAsOrdered`), are scans made (`ScansServed`)? Is the GSM unit started in silence (`StartsInSilence`)? | one heartbeat and one request may fail; see Bounds |
| `lte_resend` | Is a retry always what was sent? No: see Findings | one heartbeat and one request may fail |

Bounds of the other modules. `PollCount` is 2 or 3 where the code has 32: what matters is that a try
can read an answer in pieces and can give up. An answer is one or two tokens, so that it can be split,
and `BufLen` leaves room for two answers. Three exchanges let one leave something behind for the next
and the one after it. Times of at least three periods stand for those of the programs (10 periods and
more): what differs from longer ones is only how long nothing happens. Two slots for each event are
necessary too: with one less `Room`, a part of `LibraryInOrder`, fails. The LTE programs have seven events
for the 16 slots of `MAX_TIMER_EVENT`.

`Library.cfg`: a ring of 3 slots, of which two hold messages, is the smallest that can be full with a
message in hand and wrap. Three nodes give a list with a first, a middle and a last one; three clients
for two slots fill the table and refuse one. One fault of the SIM switch (a write or the program) falls
into every operation; two writes of the file, or a write and a crash, follow one another, over three files with
comments, doubled keys and values that are no 16-bit number, one of them with an item more than `MaxItems`. A
socket holds one message (`MaxUnread`), and peers send for ever: a busy one starves the later slots in the
instance as in the code. A modem has two tries and one failure before it is restarted. Two
modems of either make and the levels on each side of every test make up the rows; `MCCellSel` lists
neighbours of equal strength, frequencies above and below the priority of the serving cell, and serving cells of
either mode and of no band.

`Units.cfg`: lists of up to three nodes over four bands, of which two differ in priority only; two upsets
(a request for a scan or a failing exchange) reach the states in which an order, a scan and a failure meet.
Two lost datagrams and three under way let the GSM start be repeated twice, so that its timer takes both
slots.

### Fairness

Liveness is checked under `FairSpec`: weak fairness of the control thread, of the modem thread, of
the stores that follow a datagram and of `run.sh`. These are threads and a process of a preemptive
kernel, none of them waits for another, so each runs again and again while it has a next statement.
Nothing promises another datagram, another save or a roaming modem: `Recvfrom`, `Commit` and `Roam`
are not fair.

`ExchangeEnds` is checked under weak fairness of the threads in an exchange and of modems answering.
The semaphore can be taken by another thread while one waits, but a thread needs it a bounded number
of times per exchange (`TryCount` writes and reads), and exchanges are bounded, so weak fairness is
enough in the instance; the code relies on the kernel's semaphore for the rest.

`NoticesSilence` is checked under weak fairness of the heartbeat's ageing and of its timeout, and only
once the unit is silent: `lte_run` alternates between one datagram and one scan, and each tick posts the
semaphore of a scan, so a timer that nothing sets again expires. While the unit talks no fairness is
assumed, since each configuration request sets the heartbeat back.

`LibFairness`: the clock's signal comes and its scan runs; calls of `NetRecvMsg` go on, as the loops of
the units do, while no fairness is assumed of peers; the thread of a modem, its exchanges and the clock
go on. `Recovers` speaks of a modem that works for good from some point on. `UnitsFairness` adds the thread
of the scans, which waits on nothing but its condition, and that the GSM loop and its unit do something as
long as they can; losses are bounded and not fair.

### Findings

`scan_oper_mode` is declared as `0:4G, 1:3G` (scan_logic_control.c:17). When the key cannot be read
`scan_cfg_modem_oper_mode_get` returns -1, no caller tests for it and -1 becomes the mode in force
(`control_unreadable_config`).

The third entry of `AtCmdStr` (scan_modem.c:29) lacks a comma: `"AT+CGMI\r" "OK", ""` is the command
`AT+CGMI\rOK` with the empty pattern. `strstr` finds that in any text, so reading ends with the first
piece of an answer, where comments at oss_uart.c:300 and 311 say that OK, ERROR or the last poll ends
it (`at_manufacturer`). The maker of the modem is then decided on part of its name.

A start the operator asked for too early is saved in `startReq_send` and sent by `lte_start_req(lte_state,
1)` (lte_sm.c:650), which does not store `start_value`, although lte_sm.c:437 says of that field `save it
for re-send when timer expiry`: the retry sends a stop, and an accepted start is taken for an accepted
stop, so that the program believes a running unit to be stopped (`lte_resend`).

### Behaviour the model shows and no property forbids

* A mode switch ends with `scan_modem_run_start` whatever the flight status: a switch on the ground
  starts sweeps, and the landing that would stop them has already been acknowledged.
* A sweep under way when a switch starts goes on. Its row can mix technologies in the last row of the
  old file, or in the first of the new one when the sweep outlasts the switch.
* `scan_modem_init` changes the modems after its status check. A switch that comes before the modem
  thread's own check works with the old cache; `CacheCoherent` and `SwitchReachesModems` start at
  `Booted`.
* A modem whose mode command fails is not tried again until the next switch.
* A getter that does not find its key leaves the file open, and the next reads it again. When the form
  leaves out an unset flag, each mode is read from the file the loop before found: after a save the loop
  decides once from a mode and a flag that were never in one file. A file with neither key stays open
  for ever and later saves have no effect, unless they rewrite it in place: `ModeConverges` says so.
* A HUAWEI modem in automatic mode that happens to camp on LTE is not locked by a switch to 4G.
* With overlapping exchanges a thread can be handed another's answer and report OK for a command that
  was refused: the answer buffer is cleared before the semaphore is taken and inspected after it is
  given back. `VerdictTrue` and `Promise` are stated for exchanges one after the other (`Orderly`).
* An answer that comes after its last try stays in the port until a refusal flushes it, so every later
  command is answered by the one before.
* An event set again in the last 100 ms of its timer has two timers; a delete clears one of them.
* With `OwnDelete`, a timer set by a callback that has deleted its own can be lost: its slot is emptied
  when the callback returns.
* `startreq_fail` is cleared by an accepted request only. After it has passed its limit each further
  request to the LTE unit also resets it, the first one to a unit just reset included.
* A start saved for later survives a stop: it is sent at the next heartbeat of the unit, stopped or not.
* A stop that a running LTE unit does not answer is not sent again: `lte_sm_running` has no case for the
  timeout. `Retried` is about a ready unit.
* A ready LTE unit that restarts is not noticed: only `lte_sm_running` looks at the state a heartbeat tells.
* Two power settings of the LTE unit share one timer (lte_sm.c:231): the answer to the first deletes it
  while the second was lost.

The scanner's library:

* A modem whose query fails appends no column, so the columns of the later modems move under the
  headers of the earlier ones (scan_modem.c:383); `RowsTrue` says that what is written was measured.
* `is_active` takes an answer it cannot parse for a registration. `modem_hw_init` stores `OPENED` and
  `REG_IN_NET` whatever has happened since its last exchange: over a restart that was noted, and over the
  `IDLE` of a modem that `modem_at_cmd_fail_proc` of another thread has closed (modem.c:121, 149, 723), which
  then counts as opened or registered with no port until its clock is up. `StatusTrue` leaves these out
  (`disturbed`).
* `ModemClose` of a closed modem closes descriptor 0 (modem.c:292). The next port opened may get it, and every
  exchange takes that for a closed one: `Recovers` is about modems that are not closed twice.
* A put into the full ring while a get of the last slot is between its two stores of the index finds room, and
  the ring looks empty after it (modem.c:995, 1031). `RingIsQueue` ends there, and where a clear comes in the
  middle of a put or a get, until the next clear at rest.
* `NetRecvMsg` looks at the UDP socket first and at the table from its first slot (oss_net.c:504, 531), and returns
  after one message: datagrams, or a client, that keep coming hold up the later slots for ever. A client that
  hung up stays readable, and its `recv` of 0 keeps the call in its loop until something else comes. `Received` is
  stated for what nothing comes ahead of, and while no client hangs up.
* `write_conf_value` looks at no result of `file_to_items` (config.c:302): a file that does not open for reading
  is emptied and filled with what the stack held, and one of more than 20 items overruns the array. A crash after
  line 314 leaves the lines written so far. `FileKeepsValues` ends there.
* The first row of the program is appended to a buffer nothing has cleared (scan_modem.c:789): it may start with
  anything. `RowMatchesHeader`, `OnlyEdgeRowsMayDiffer` and `RowsTrue` leave it out.
* `oss_uart_open` sets the semaphore of all ports to 1 again (oss_uart.c:205): a port opened while another
  is read lets a second reader in. The scanner opens its ports before it creates threads.
* The terminator of an answer is stored at `pData[len]` (oss_uart.c:316) and `len` is not compared with
  the size of the buffer there; `BufLen` leaves that slot in `AtChannel`.
* A table of timers that is scanned at multiples of 100 ms is not scanned for four wraps of `gdwTick` after
  the first one, about 200 days; `ScansResume` is about what happens in the end.
* `oss_del_timer` compares a number that `oss_set_timer_ex` never stores, so that it finds timer 0 only.
* config.c:249 does not recognise a file that could not be opened.
* `DListInsAfter` assigns where it means to compare (dlist.c:214), and the deletion of the only node makes the
  head its own neighbour. `lapses` counts these calls, and `Linked` holds without them.
* Nothing calls `NetConnectCloseClientConn`, `NetConnectSocketSend`, `MobileRouteNetConnectInit`,
  `write_conf_value`, the deletions of the operator lists, `sim_cmd_handler`, `ModemStart`.

The units:

* The scan thread stores its reports where main chooses a cell (lte_cell_sel.c:1175, 1290), with no lock: a choice
  it crosses may mix two reports. A report without the system information of its own frequency leaves the
  count of cells as it was, so that cells of an earlier report are chosen among. A serving cell of no band is a
  failure of the choice after the cell was set, and the mode and timing stay those before (1188, 1218).
  `RightCell` says what is left.
* An order is taken for obeyed when its exchange reports OK, though the exchanges of the two threads may overlap
  (see above), and a report for one of the band that is set: `lte_reset_rsp` looks at the band again for this
  reason (lte_sm.c:164). `CellAsOrdered` assumes both.
* A cell between frequencies can be chosen with frequency zero (lte_cell_sel.c:795-827); a band change that is
  refused leaves the band recorded.
* After the answer about its capacity the GSM program deletes its timer, if that sits in slot 0; a lost answer
  about the amplifier or the clocks then holds the start for ever (`Stuck`). A request of the script is
  not made again when lost: a transceiver then stays as it was, and when it is the one to switch on, so does the
  amplifier (gsm.c:222-235). `AmpStaysOn` is about starts that lose nothing after the capacity exchange (`broken`),
  and about a unit that does what it is asked: nobody looks at the `ret` of an answer (gsm_sm.c:505).
* A clock answer left over from an earlier run makes an idle GSM program run at once, amplifier as it was. The
  GSM heartbeat timer is never set, so the disconnected state is never reached; a unit reset after a bad
  heartbeat is not configured again.
* The WCDMA program looks at no message after its start: its state `CELL_GET` (15) is above
  `BOARD_STATUS_HW_ERROR`. With `iRole` 1 app.c runs the WCDMA unit only.

## 4. Proofs

| Theorem | Statement | From |
|---|---|---|
| `TypeCorrect` | `Spec => []TypeOK` | the assumptions on the constants |
| `FileSafe` | `Spec => []NoUseAfterClose` | `SweepFitsDelay` |
| `SwitchStopsSweeps` | `Spec => NoSweepStartsWhileSwitching` | nothing |
| `CacheIsCoherent` | `Spec => []CacheCoherent` | `Orderly` |
| `SwitchReaches` | `Spec => SwitchReachesModems` | `Orderly` |
| `RowsMatchHeader` | `Spec => RowMatchesHeader`, of rows after the first of the program | `Orderly`, `SweepFitsDelay` |
| `ArmedInFlight` | `Spec => []ScanArmedInFlight` | `StatusHolds` |
| `ClockLagBounded` | `Spec => []ClockLag` | nothing |
| `GroundIsQuiet` | `Spec => []QuietOnGround` | `NoSwitch`: one mode in all configs, and no go-back or no automatic flag; `StatusHolds`, for iperf `LaunchFitsDelay` |
| `EdgeRowsOnly` | `Spec => OnlyEdgeRowsMayDiffer` | `Orderly` |
| `AtChannelProofs!TypeCorrect` | `Spec => []TypeOK` | the assumptions on the constants |
| `AtChannelProofs!SemaphoreHeld` | `Spec => [](Held /\ OneReader)`: a thread that reads holds the semaphore, and no two read | nothing |
| `AtChannelProofs!NoWriteInRead` | `Spec => NoWriteDuringRead` | nothing |
| `AtChannelProofs!OwnAnswers` | `Spec => []OwnAnswer`: the text of an OK is the whole answer to the command | `Orderly` |
| `AtChannelProofs!VerdictsAreTrue` | `Spec => []VerdictTrue`: and a failure took as many refusals and restarts as there are tries | `Orderly` |
| `AtChannelProofs!ImplementsExchange` | `Spec => Promise`: the exchange implements `AtExchange` | `Orderly` |
| `OssTimerProofs!TypeCorrect` | `Spec => []TypeOK` | the assumptions on the constants |
| `OssTimerProofs!OneFreshTimer` | `Spec => []OneFresh` | the same |
| `OssTimerProofs!OnTime` | `Spec => FiresOnTime` | the same |
| `OssTimerProofs!DeleteSilencesEvent` | `Spec => DeleteSilences` | the same |
| `OssTimerProofs!KeepsTimers` | `Spec => Kept`: the table implements `TimerService` | `~OwnDelete` |
| `OssTimerProofs!SetFindsRoom` | `Spec => []Room`: every set finds a slot | `Long`: times above two periods; finitely many events, and two slots for each |
| `OssTimerProofs!ScansInTime` | `TickSpec => []ScannedInTime`: no scan comes before its period is over | the assumptions on the constants |
| `UnitsProofs!TypeCorrect` | `Spec => []TypeOK` | the assumptions on the constants |
| `UnitsProofs!Supervision` | `Spec => []Supervised` | the same |
| `UnitsProofs!HeardWhenReady` | `Spec => []ReadyMeansHeard` | the same |
| `UnitsProofs!RetriesOpenRequest` | `Spec => []Retried` | nothing |
| `UnitsProofs!DoesAsAsked` | `Spec => RunsAsAsked` | the same |
| `UnitsProofs!ListsStayInOrder` | `BandsSpec => []BandsInOrder` | the same |
| `UnitsProofs!OamInvariant` | `OamSpec => []OamInv` | the same |
| `UnitsProofs!ImitatesOrderedCell` | `OamSpec => CellAsOrdered` | the same |
| `UnitsProofs!ScansAsAsked` | `OamSpec => []ScanAsAsked`, a part of `ScansServed` | the same |
| `UnitsProofs!SilentStart` | `GsmSpec => TunedInSilence /\ [](GsmTypeOK /\ ChannelsApart /\ AmpStaysOn)`, parts of `StartsInSilence`; that the amplifier stays on if nothing after the capacity exchange is lost | the same |
| `UnitsProofs!UnitsKeepPromises` | `UnitsSpec` keeps all of these in one behaviour | the same |
| `DeviceProofs!StatusIsTrue` | `LifeSpec => []StatusTrue`: one descriptor always; a status true of the port unless `disturbed` | the assumptions on the constants |
| `ContainerProofs!RingTypeCorrect` | `RingSpec => []RingTypeOK` | the same |
| `ContainerProofs!RingImplementsQueue` | `RingSpec => RingIsQueue`: the ring implements `MsgQueue` until a put goes past a get, or a clear past either | the same |
| `ContainerProofs!NetTypeCorrect` | `NetSpec => []NetTypeOK` | the same |
| `ContainerProofs!SessionsAreListed` | `NetSpec => []SessionsListed` | the same |
| `ContainerProofs!ListTypeCorrect` | `ListSpec => []ListTypeOK` | the same |
| `ContainerProofs!ListLinked` | `ListSpec => []Linked` | the same |
| `ContainerProofs!TraversalEnds` | `ListSpec => []TraverseEnds` | the same |
| `DeviceProofs!LifeTypeCorrect` | `LifeSpec => []LifeTypeOK` | the same |
| `DeviceProofs!CfgTypeCorrect` | `CfgSpec => []CfgTypeOK` | the same |
| `DeviceProofs!FileKept` | `CfgSpec => FileKeepsValues`: while the file is whole, a read gives the value of some version of it and a write changes its own item only | the same |
| `DeviceProofs!SimTypeCorrect` | `SimSpec => []SimTypeOK` | the same |
| `DeviceProofs!CardsKeptApart` | `SimSpec => CardsApart` | the same |
| `DeviceProofs!RowsAreTrue` | `ReadSpec => []RowsTrue` | the same |
| `DeviceProofs!ImitatesRightCell` | `CellSelSpec => []RightCell`, of choices the scan thread has not crossed | the same, which bound the reports by the arrays |
| `LibraryProofs!WholeInOrder` | `LibSpec => []LibraryInOrder` | the premises of `SetFindsRoom` |
| `LibraryProofs!WholeKeepsPromises` | `LibSpec` keeps the other safety properties of its parts, each with its conditions | the assumptions on the constants |

The assumptions in the last column are premises of the theorem or of the property it states. `Orderly` is
`AtReliable` without roaming and with a mode in every config in `ScanControl`, and one exchange at a time, timely answers and a pattern
to wait for in `AtChannel`.

The theorems of `ScanControl` hold for any number and make of modems, any bounds and any set of statuses;
those of `AtChannel` for any threads, modems, tries, delays and patterns; those of `OssTimer` for any table,
events and times; those of the list, the ring and the sessions for any nodes, sizes, items, clients and slots;
those of `ModemLife` for any tries and limits of failures; those of `ConfigFile` for any first file, keys and
writes; those of `SimCtrl` for any number of faults; those of `Readings` for any modems and answers; those of
`CellSel` for any reports that fit in the arrays; those of `LteSm` for any limits; those of `OamBands` and
`LteOam` for any operators, bands and upsets; those of `GsmSm` for any losses and backlog. The premises of
`SetFindsRoom` are those of the programs: their times are 10 periods and more, and they have at most seven
events for 16 slots. The theorems rest on inductive invariants of the proof modules, because the properties
speak of a few places only:

* `NoUseAfterClose` needs that the pointer is dangling only at `file_null`, and that while the
  control thread is inside a close no sweep is under way: the flag has been down since `run_stop`,
  and `SweepFitsDelay` empties `SweepLabels` at `file_test`.
* `NoSweepStartsWhileSwitching` needs that `scan_run_flag` is 0 at every label of the switch.
* `CacheCoherent` needs to know, at each label of a switch, which modems have been commanded and which
  re-read: after `ChangeH` and `ChangeY` every modem is on the target, after the status check the
  cache holds the target too. During the boot it follows the two threads through their first check.
* `RowMatchesHeader` adds that a column of `info_buf` already taken equals `radio` and that an open
  file's header equals the cache. For `OnlyEdgeRowsMayDiffer`, a file with a row has a buffer that was cleared.
* `ScanArmedInFlight` needs that the label `arm` lies between the acknowledgement and the top of the
  loop and that only `Disarm`, reached from a landing, leaves the flag down outside a switch.
* `ClockLag` needs the order of the three stores of a datagram.
* `QuietOnGround` needs `QuietInv`: without a switch the only labels with sweeps armed or iperf alive are
  those between an acknowledged takeoff and the end of its landing.
* `OnlyEdgeRowsMayDiffer` needs `EdgeInv`: a file opened by a sweep that outlasted a switch has no row yet,
  and a sweep with a row before its own began after the modems were changed.
* `NoWriteDuringRead` needs `Held`: the semaphore is 0 exactly while one thread polls. Nothing of the
  text is needed, so it holds with every delay and overlap.
* `OwnAnswer` needs `AnswerInv`. One thread at a time is in an exchange. A port holds nothing but the
  command of the try under way, or one whole answer to it, and announcements of restarts; while the thread
  reads, its buffer holds no whole answer; after a refusal nothing of it is left. So what ends the reading
  is the own answer.
* `VerdictTrue` adds `CountInv`: each announcement not yet read and each try that failed is a restart or a
  refusal of its own. A restart leaves one announcement, and a try reads it or flushes it; the lemmas under
  "Counting announcements" map the positions of the text before a step to those after it.
* `Promise` adds that no exchange has a number not yet issued (`Numbered`), so that a new one was never
  obeyed. `Copy` and `Match` report what `AnswerInv` says of the buffer.
* `FiresOnTime` needs that scans seen and periods left add up to the time set (`Aged`), give or take
  the scan under way: a timer the scan has not reached yet has one more period to its name.
* `OneFresh` is inductive with the type invariant: the first loop of `oss_set_timer_ex` finds the
  event's only fresh slot, so the second starts a timer only when there is none.
* `Kept` needs that the slot whose callback runs still is the timer that expired (`Expired`), with less
  than a period left: a set does not reuse it, and only a callback that deletes its own event can empty
  it. The first idle or fresh slot (`First`) exists by the well-foundedness of `<`.
* `Room` needs `Apart`: two timers of one event do not expire in the same scan, and in consecutive scans
  only in the order of their slots. It is inductive because a set starts a timer only if the event has no
  fresh one, with three periods or more to go. So an event has at most one timer in its last period, and one
  that is fresh by `OneFresh`: when a set finds none that is fresh, the timers map one to one into fewer
  values than a table with two slots for each event has slots, and one is idle.
* `ScannedInTime` needs that until the wrap the time since the scan is the counter modulo 100 (`TickInv`).
* `Linked` and `TraverseEnds` need `ListInv`: the links pass from the head through the nodes that were meant,
  each once, backwards too, and out at the last (`Chained`). An insertion and a deletion move the positions
  behind by one; the lemmas say where each node of the new sequence was.
* `FileKeepsValues` needs `CfgInv`: outside a write the file gives each key its value; the items gathered so
  far give what the lines read so far give (`Gathered`); what is written and what is left to write give the
  values the write is to leave (`Written`), all while the file is `whole`; and a reader has passed no item of its key (`Passed`).
* `CardsApart` needs `SimInv`, which looks ahead: at the end of the writes left of an operation the pins will
  show the card it names (`Levelled`), and each selecting pin will rise while the switch is down or was high
  already (`Safely`), where a pin whose write failed counts as either.
* `RowsTrue` keeps of a sweep that the row so far is the levels of the answers so far, each at its `Column`.
* `RightCell` is about data: an insertion sort leaves the same cells, in order, and two sorts by different keys
  leave in front the least by the second of those least by the first. Both go by a minimal counterexample over
  the number of turns (`Reach`); that the recursive functions exist is `StepsExist`.
  `CellInv` follows a choice that nobody crosses from its report to the cell (`FromAnswer`), and says that the
  cells counted are stored or about to be (`CountedSoon`).
* The invariants of `LteSm` are inductive with its type invariant, each by itself; `RunsAsAsked` needs
  `Saved`: while the operator waits, nothing is saved for later and `start_value` is the open request.
* `BandsInOrder` needs of the loop over the bands what it has after `n` of them (`BestAmong`), and that an
  insertion goes before the first operator that is not smaller.
* `CellAsOrdered` is far from inductive, since it looks at one exchange. `OamInv` says what main has left to do
  in each kind of work (`MainJob`: the rest of its order, whatever failed and was skipped); that while the last
  order is under way (`OrderPending`) or done (`OrderDone`) no scan is, and the modem is set as far as the
  order is; and that a modem that is not in LTE is on its way back there, unless that way has failed
  (`ModeClause`). An exchange is split by its command, by success or failure, and by the thread that makes it.
* `SilentStart` needs `GsmInv`: once the program runs, or an answer that makes it run is on its way, the
  amplifier is off until the script is done and the unit has all of it (`Silent`); the request that turns it
  on is the last in the queue (`LateOK`, `SwitchedOn`); and a transceiver is tuned to its own channel, of the
  mode the unit was started in, or to none (`TunedOK`).
* `WholeInOrder`, `WholeKeepsPromises` and `UnitsKeepPromises` need that each step of a composition is a step of
  one part and leaves the variables of the others.
* `StatusTrue` of `ModemLife`, which is `OneDescriptor` and `StatusProved`, needs `Opening`: at each command and
  store of the start the commands it cannot do without have succeeded since the open, and undisturbed the port
  is open; an open port has a status that says so once `OPENED` was stored.
* `RingIsQueue` needs `RingInv`, which holds until the ring is `spoilt`: a put under way has its slot and one slot
  stays free with it, the indices loaded are those stored, and the message in hand lies just before the oldest.
  Between the two stores of a get the index is one past the last slot or that of the oldest message.
* `SessionsListed` is inductive with the type invariant.

Only model-checked:

* the liveness properties, which are out of this prover's reach: `StatusAcked`, `ModeConverges`,
  `ExchangeEnds`, `NoticesSilence`, `ScansResume`, `Received`, `Recovers`, and those parts of
  `ScansServed` and `StartsInSilence` that say what happens in the end (`ScanTaken`, and that the script is
  done or held);
* the findings, which are counterexamples.

## 5. Plan

Done, in this order: the scanner's three threads, the AT exchange and the timers with their abstract
specifications; the link to the LTE unit; the configuration file; the message ring; the life of a modem and
dialling; the readings; the tick; the library's list, sessions and SIM switch; orders, scans and cells of the
LTE unit; the start of the GSM unit; the proofs of section 4, which state every safety property the passing runs check.

Left, the most useful first:

1. A composition of `ScanControl` with `AtChannel`, to say which rows suffer when a sweep and a switch are
   in an exchange at once. `ImplementsExchange` covers the case where they are not.
2. The lists of operators and bands link by link, proved to implement the sequences of `OamBands`.
3. The watch scripts of `active/lte/web` with the processes they start again, and the rotation of `oss_log.c`.
4. The WCDMA unit, once its state machine handles messages after its start.

## 6. Not modelled

* Log files: formatting and rotation of files that nothing reads back.
* Discovery by multicast: a stateless answer; GPS: never called; tests and copies of vendor scripts.
* The mutex wrappers as such (they are the locks of the modules that use them) and the opening of a UART with
  its line settings.
* The encoding of the units' messages, the conversion of frequencies, the reports to the operator: data
  that decides no state.
* The states of the LTE unit for scanning and synchronisation: the work mode set by `lte_cfg_init` never
  reaches them.
* The WCDMA unit: its state machine returns at once in the state it starts in, and its cell selection is a copy
  of the LTE one.
* Web pages beyond the form that writes the configuration, the watch and upgrade scripts.
* `util/modem.c`: an older copy of `oss_uart.c` and `modem.c` that nothing links.
