------------------------------- MODULE AtChannel -------------------------------
(***************************************************************************)
(* The exchange of an AT command with a modem: modem_atCmd_w_r with the    *)
(* send and wait it repeats, down to the UART driver.  Every thread of the *)
(* process shares one semaphore for all ports and one answer buffer.  The  *)
(* buffer is cleared before the semaphore is taken for reading and         *)
(* inspected after it is given back.                                       *)
(*                                                                         *)
(* A read of the port takes some of the tokens the modem has sent: the     *)
(* others have not arrived yet.                                            *)
(***************************************************************************)
EXTENDS Naturals, Sequences

CONSTANTS
  Threads,        \* the threads that talk to modems: control and sampler
  Modems,
  Patterns,       \* the answers that are waited for: "OK", or "" after the line without a comma
  TryCount,       \* tries of a command (3)
  PollCount,      \* reads of the port before a try gives up (32)
  BufLen,         \* tokens the answer buffer holds
  MaxExchanges,   \* bound on the exchanges begun
  MaxRestarts,    \* bound on the restarts of modems
  MayRefuse,      \* a modem may answer ERROR, and a write may fail
  Overlap,        \* threads may be in an exchange at the same time
  Timely          \* a modem has answered by the last read of a try

ASSUME SetsAssumption == Patterns \subseteq {"OK", ""} /\ Patterns # {}
ASSUME CountsAssumption ==
  /\ {TryCount, PollCount, BufLen} \subseteq Nat \ {0}
  /\ {MaxExchanges, MaxRestarts} \subseteq Nat
ASSUME SwitchesAssumption == {MayRefuse, Overlap, Timely} \subseteq BOOLEAN

VARIABLES
  pc, asked, port, okResp,        \* each thread: label, number of the exchange, modem, pattern
  tryCount, cnt, len,             \* tries left; reads done in this one, 0 outside it; tokens read
  pbyOut, verdict,                \* what the caller is given
  uart_read_res_sem,
  abyAtCmdRespBuf,                \* tokens, Zero where the text ends
  tty, work,                      \* each port: tokens sent, commands not yet carried out
  issued, obeyed,                 \* exchanges begun; those whose command was carried out
  refused, restarts               \* failures of each thread's exchange; restarts so far

threads == <<pc, asked, port, okResp, tryCount, cnt, len, pbyOut, verdict>>
ports   == <<tty, work>>
history == <<issued, obeyed, refused, restarts>>
vars    == <<threads, uart_read_res_sem, abyAtCmdRespBuf, ports, history>>

-----------------------------------------------------------------------------
(* Text *)

Words == {"data", "OK", "ERROR", "SYSSTART", "zero"}
Token(id, word) == [id |-> id, word |-> word]
Tokens == [id : 0 .. MaxExchanges, word : Words]
Zero == Token(0, "zero")
Slots == 1 .. BufLen + 1
Cleared == [k \in Slots |-> Zero]

\* strstr(buf, word) # NULL: the text ends at the first Zero.
Holds(buf, word) ==
  \E k \in Slots : buf[k].word = word /\ \A j \in 1 .. k : buf[j] # Zero

Found(buf, pattern) == pattern = "" \/ Holds(buf, pattern)

\* The tokens of chunk stored from offset n on.
Stored(buf, n, chunk) ==
  [k \in Slots |-> IF k \in n + 1 .. n + Len(chunk) THEN chunk[k - n] ELSE buf[k]]

Rest(s, n) == SubSeq(s, n + 1, Len(s))

-----------------------------------------------------------------------------
(* modem_atCmd_w_r *)

Idle(t) == pc[t] = "idle"

Begin(t) ==
  /\ Idle(t) /\ issued < MaxExchanges
  /\ Overlap \/ \A u \in Threads : Idle(u)
  /\ \E m \in Modems : port' = [port EXCEPT ![t] = m]
  /\ \E p \in Patterns : okResp' = [okResp EXCEPT ![t] = p]
  /\ pc' = [pc EXCEPT ![t] = "send"]
  /\ issued' = issued + 1
  /\ asked' = [asked EXCEPT ![t] = issued']
  /\ tryCount' = [tryCount EXCEPT ![t] = TryCount]
  /\ verdict' = [verdict EXCEPT ![t] = "none"]
  /\ pbyOut' = [pbyOut EXCEPT ![t] = <<>>]
  /\ refused' = [refused EXCEPT ![t] = 0]
  /\ UNCHANGED <<cnt, len, uart_read_res_sem, abyAtCmdRespBuf, ports, obeyed, restarts>>

\* The end of the loop, told by result.
Finish(t, result) ==
  /\ pc' = [pc EXCEPT ![t] = "idle"]
  /\ verdict' = [verdict EXCEPT ![t] = result]

\* Mutant: one try too many, counted below zero.
Continue_OneMore(t, left) ==
  /\ pc' = [pc EXCEPT ![t] = "send"] /\ UNCHANGED verdict

\* continue: another try while any is left.
Continue(t, left) ==
  IF left > 0
  THEN pc' = [pc EXCEPT ![t] = "send"] /\ UNCHANGED verdict
  ELSE Finish(t, "FAILED")

\* Mutant: the write does not wait for the semaphore.
Send_NoWait(t) ==
  /\ pc[t] = "send"
  /\ tryCount' = [tryCount EXCEPT ![t] = @ - 1]
  /\ work' = [work EXCEPT ![port[t]] = Append(@, asked[t])]
  /\ pc' = [pc EXCEPT ![t] = "clear"]
  /\ UNCHANGED <<asked, port, okResp, cnt, len, pbyOut, verdict, uart_read_res_sem,
                 abyAtCmdRespBuf, tty, history>>

\* modem_at_cmd_send: oss_uart_write takes and returns the semaphore around the write.
Send(t) ==
  /\ pc[t] = "send" /\ uart_read_res_sem = 1
  /\ tryCount' = [tryCount EXCEPT ![t] = @ - 1]
  /\ \/ /\ work' = [work EXCEPT ![port[t]] = Append(@, asked[t])]
        /\ pc' = [pc EXCEPT ![t] = "clear"]
        /\ UNCHANGED <<verdict, refused>>
     \/ /\ MayRefuse                                \* the write fails
        /\ refused' = [refused EXCEPT ![t] = @ + 1]
        /\ Continue(t, tryCount'[t])
        /\ UNCHANGED work
  /\ UNCHANGED <<asked, port, okResp, cnt, len, pbyOut, uart_read_res_sem, abyAtCmdRespBuf, tty,
                 issued, obeyed, restarts>>

\* Mutant: the buffer keeps the text of the answer before.
Clear_Skipped(t) ==
  /\ pc[t] = "clear"
  /\ pc' = [pc EXCEPT ![t] = "wait"]
  /\ UNCHANGED <<asked, port, okResp, tryCount, cnt, len, pbyOut, verdict, uart_read_res_sem,
                 abyAtCmdRespBuf, ports, history>>

\* modem_at_cmd_wait_rsp: the memset, outside the semaphore.
Clear(t) ==
  /\ pc[t] = "clear"
  /\ abyAtCmdRespBuf' = Cleared
  /\ pc' = [pc EXCEPT ![t] = "wait"]
  /\ UNCHANGED <<asked, port, okResp, tryCount, cnt, len, pbyOut, verdict, uart_read_res_sem,
                 ports, history>>

\* oss_uart_read: sem_wait.
Wait(t) ==
  /\ pc[t] = "wait" /\ uart_read_res_sem = 1
  /\ uart_read_res_sem' = 0
  /\ len' = [len EXCEPT ![t] = 0]
  /\ pc' = [pc EXCEPT ![t] = "poll"]
  /\ UNCHANGED <<asked, port, okResp, tryCount, cnt, pbyOut, verdict, abyAtCmdRespBuf, ports,
                 history>>

\* Mutant: whatever was read ends the loop.
Stop_AtOnce(t, n, buf) == n > 0

\* What ends the loop of reads after one that took n tokens and left buf; cnt > 31 ends it too.
Stop(t, n, buf) == n > 0 /\ (Found(buf, okResp[t]) \/ Holds(buf, "ERROR"))

\* Mutant: a read that returns nothing does not give the semaphore back.
Post_NotOnNothing(t, got) == uart_read_res_sem' = IF got = 0 THEN 0 ELSE 1

\* sem_post, whatever was read.
Post(t, got) == uart_read_res_sem' = 1

\* One round of the loop of oss_uart_read. An answer with ERROR and without the pattern is
\* thrown away, with what tcflush finds of the rest.
Poll(t) ==
  LET m == port[t] IN
  /\ pc[t] = "poll"
  /\ \E n \in 0 .. Len(tty[m]) :
       LET buf    == Stored(abyAtCmdRespBuf, len[t], SubSeq(tty[m], 1, n))
           failed == n > 0 /\ ~Found(buf, okResp[t]) /\ Holds(buf, "ERROR")
           last   == cnt[t] + 1 = PollCount
           end    == Stop(t, n, buf) \/ last
           got    == IF failed THEN 0 ELSE len[t] + n
       IN /\ len[t] + n <= BufLen
          /\ Timely /\ last => work[m] = <<>> /\ n = Len(tty[m])
          /\ \E k \in IF failed THEN n .. Len(tty[m]) ELSE {n} :
               /\ Timely /\ failed => k = Len(tty[m])
               /\ tty' = [tty EXCEPT ![m] = Rest(@, k)]
          /\ len' = [len EXCEPT ![t] = got]
          /\ cnt' = [cnt EXCEPT ![t] = IF end THEN 0 ELSE @ + 1]
          /\ abyAtCmdRespBuf' = IF end THEN [buf EXCEPT ![got + 1] = Zero] ELSE buf
          /\ IF end THEN Post(t, got) ELSE UNCHANGED uart_read_res_sem
          /\ pc' = [pc EXCEPT ![t] = IF end THEN "restart" ELSE "poll"]
  /\ UNCHANGED <<asked, port, okResp, tryCount, pbyOut, verdict, work, history>>

\* len <= 0, then ModemIsRestart. The status MODEM_RESTART it sets is read by ModemRun alone,
\* which the scanner does not start.
Restarted(t) ==
  /\ pc[t] = "restart"
  /\ IF len[t] = 0 \/ Holds(abyAtCmdRespBuf, "SYSSTART")
     THEN Continue(t, tryCount[t])
     ELSE pc' = [pc EXCEPT ![t] = "copy"] /\ UNCHANGED verdict
  /\ UNCHANGED <<asked, port, okResp, tryCount, cnt, len, pbyOut, uart_read_res_sem,
                 abyAtCmdRespBuf, ports, history>>

Copy(t) ==
  /\ pc[t] = "copy"
  /\ pbyOut' = [pbyOut EXCEPT ![t] = SubSeq(abyAtCmdRespBuf, 1, len[t])]
  /\ pc' = [pc EXCEPT ![t] = "match"]
  /\ UNCHANGED <<asked, port, okResp, tryCount, cnt, len, verdict, uart_read_res_sem,
                 abyAtCmdRespBuf, ports, history>>

Match(t) ==
  /\ pc[t] = "match"
  /\ IF Found(abyAtCmdRespBuf, okResp[t]) THEN Finish(t, "OK") ELSE Continue(t, tryCount[t])
  /\ UNCHANGED <<asked, port, okResp, tryCount, cnt, len, pbyOut, uart_read_res_sem,
                 abyAtCmdRespBuf, ports, history>>

Thread(t) == Send(t) \/ Clear(t) \/ Wait(t) \/ Poll(t) \/ Restarted(t) \/ Copy(t) \/ Match(t)

-----------------------------------------------------------------------------
(* The modems *)

\* The threads whose current exchange is id.
Askers(id) == {t \in Threads : asked[t] = id}

Answer(m) ==
  /\ work[m] # <<>>
  /\ LET id == Head(work[m]) IN
     \/ /\ obeyed' = obeyed \cup {id}
        /\ tty' = [tty EXCEPT ![m] = @ \o <<Token(id, "data"), Token(id, "OK")>>]
        /\ UNCHANGED refused
     \/ /\ MayRefuse
        /\ tty' = [tty EXCEPT ![m] = Append(@, Token(id, "ERROR"))]
        /\ refused' = [t \in Threads |-> IF t \in Askers(id) THEN refused[t] + 1 ELSE refused[t]]
        /\ UNCHANGED obeyed
  /\ work' = [work EXCEPT ![m] = Tail(@)]
  /\ UNCHANGED <<threads, uart_read_res_sem, abyAtCmdRespBuf, issued, restarts>>

\* A modem restarts: it forgets its commands and announces itself.
Restart(m) ==
  /\ restarts < MaxRestarts
  /\ restarts' = restarts + 1
  /\ work' = [work EXCEPT ![m] = <<>>]
  /\ tty' = [tty EXCEPT ![m] = Append(@, Token(0, "SYSSTART"))]
  /\ UNCHANGED <<threads, uart_read_res_sem, abyAtCmdRespBuf, issued, obeyed, refused>>

Modem(m) == Answer(m) \/ Restart(m)

Init ==
  /\ pc = [t \in Threads |-> "idle"] /\ asked = [t \in Threads |-> 0]
  /\ port \in [Threads -> Modems] /\ okResp \in [Threads -> Patterns]
  /\ tryCount = [t \in Threads |-> 0] /\ cnt = [t \in Threads |-> 0]
  /\ len = [t \in Threads |-> 0]
  /\ pbyOut = [t \in Threads |-> <<>>] /\ verdict = [t \in Threads |-> "none"]
  /\ uart_read_res_sem = 1 /\ abyAtCmdRespBuf = Cleared
  /\ tty = [m \in Modems |-> <<>>] /\ work = [m \in Modems |-> <<>>]
  /\ issued = 0 /\ obeyed = {} /\ refused = [t \in Threads |-> 0] /\ restarts = 0

Next ==
  \/ \E t \in Threads : Begin(t) \/ Thread(t)
  \/ \E m \in Modems : Modem(m)

Spec == Init /\ [][Next]_vars

\* A thread in an exchange runs on, and a modem answers. Nothing promises another exchange.
Fairness ==
  /\ \A t \in Threads : WF_vars(Thread(t))
  /\ \A m \in Modems : WF_vars(Answer(m))

FairSpec == Spec /\ Fairness

-----------------------------------------------------------------------------
(* Properties *)

Labels == {"idle", "send", "clear", "wait", "poll", "restart", "copy", "match"}

\* Every variable has a value the code can give it.
TypeOK ==
  /\ pc \in [Threads -> Labels] /\ asked \in [Threads -> 0 .. MaxExchanges]
  /\ port \in [Threads -> Modems] /\ okResp \in [Threads -> Patterns]
  /\ tryCount \in [Threads -> 0 .. TryCount] /\ cnt \in [Threads -> 0 .. PollCount - 1]
  /\ len \in [Threads -> 0 .. BufLen]
  /\ pbyOut \in [Threads -> Seq(Tokens)] /\ verdict \in [Threads -> {"none", "OK", "FAILED"}]
  /\ uart_read_res_sem \in {0, 1} /\ abyAtCmdRespBuf \in [Slots -> Tokens]
  /\ tty \in [Modems -> Seq(Tokens)] /\ work \in [Modems -> Seq(1 .. MaxExchanges)]
  /\ issued \in 0 .. MaxExchanges /\ obeyed \subseteq 1 .. MaxExchanges
  /\ refused \in [Threads -> Nat] /\ restarts \in 0 .. MaxRestarts

\* One exchange at a time, answers in time, a pattern to wait for: the conditions of what the
\* exchange promises.
Orderly == Timely /\ ~Overlap /\ "" \notin Patterns

\* A thread is told OK only if the modem carried out the command it sent.
Exchange == INSTANCE AtExchange
  WITH asked <- [t \in Threads |-> IF Idle(t) THEN 0 ELSE asked[t]]
Promise == Exchange!Spec

\* The text a thread is given with an OK is the answer to its own command, all of it.
OwnAnswer ==
  Orderly => \A t \in Threads :
    verdict[t] = "OK" => pbyOut[t] = <<Token(asked[t], "data"), Token(asked[t], "OK")>>

\* An exchange fails only when each of its tries met a write error, an ERROR or a restart.
FailedMeansRefused ==
  Orderly => \A t \in Threads : verdict[t] = "FAILED" => refused[t] + restarts >= TryCount

\* A verdict is true: an OK comes with the modem's own answer, a failure from a modem that refused.
VerdictTrue == OwnAnswer /\ FailedMeansRefused

\* While a thread reads a port no thread writes a command, to this port or another, whatever the
\* number of threads and the delays: what oss_uart.c's semaphore is for.
NoWriteDuringRead ==
  [][(\E t \in Threads : pc[t] = "send" /\ pc'[t] = "clear")
       => \A u \in Threads : pc[u] # "poll"]_vars

\* Every exchange ends, whatever the modems and the other threads do.
ExchangeEnds == \A t \in Threads : ~Idle(t) ~> Idle(t)

\* oss_uart.c:300 says of the loop of reads: if "OK" or "ERROR" is read, break, and line 312 that
\* otherwise it ends when cnt is up to 32.
ReadEndsOnAnswer ==
  [][\A t \in Threads : pc[t] = "poll" /\ pc'[t] = "restart" /\ cnt[t] + 1 < PollCount
       => len'[t] = 0 \/ Holds(abyAtCmdRespBuf', "OK")]_vars
=============================================================================
