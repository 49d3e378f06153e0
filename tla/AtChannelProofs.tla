--------------------------- MODULE AtChannelProofs ---------------------------
(***************************************************************************)
(* Proofs about AtChannel, for every number of threads, modems and tries.  *)
(* Whatever the delays, the semaphore is held through every reading of an  *)
(* answer, so no command is written meanwhile.  When exchanges follow one  *)
(* another and modems answer in time, an OK comes with the modem's own     *)
(* answer, and a failure from as many refusals and restarts as there were  *)
(* tries.                                                                  *)
(***************************************************************************)
EXTENDS AtChannel, SequenceTheorems, FiniteSetTheorems, TLAPS

\* A thread reading an answer holds the semaphore.
Held == \A t \in Threads : pc[t] = "poll" => uart_read_res_sem = 0

\* One thread at most reads.
OneReader == \A t, u \in Threads : pc[t] = "poll" /\ pc[u] = "poll" => t = u

Inv == pc \in [Threads -> Labels] /\ Held /\ OneReader

LEMMA InitInv == Init => Inv
  BY DEF Init, Inv, Held, OneReader, Labels

\* A step of a thread that does not enter the loop of reads keeps the invariant when it leaves
\* the semaphore alone.
LEMMA OutOfLoop ==
  ASSUME Inv, NEW t \in Threads, NEW l \in Labels \ {"poll"},
         pc' = [pc EXCEPT ![t] = l], UNCHANGED uart_read_res_sem
  PROVE  Inv'
  BY DEF Inv, Held, OneReader, Labels

\* Another try, or the end.
LEMMA ContinueInv ==
  ASSUME Inv, NEW t \in Threads, NEW left, Continue(t, left), UNCHANGED uart_read_res_sem
  PROVE  Inv'
<1>1. CASE left > 0
  <2>1. pc' = [pc EXCEPT ![t] = "send"]
    BY <1>1 DEF Continue
  <2> QED
    BY <2>1, OutOfLoop DEF Labels
<1>2. CASE ~(left > 0)
  <2>1. pc' = [pc EXCEPT ![t] = "idle"]
    BY <1>2 DEF Continue, Finish
  <2> QED
    BY <2>1, OutOfLoop DEF Labels
<1> QED
  BY <1>1, <1>2

\* Entering the loop takes the semaphore, which no reader then holds.
LEMMA WaitInv ==
  ASSUME Inv, NEW t \in Threads, Wait(t)
  PROVE  Inv'
<1>1. \A u \in Threads : pc[u] # "poll"
  BY DEF Inv, Held, Wait
<1> QED
  BY <1>1 DEF Inv, Held, OneReader, Labels, Wait

\* A round of the loop gives the semaphore back exactly when the thread leaves it.
LEMMA PollInv ==
  ASSUME Inv, NEW t \in Threads, Poll(t)
  PROVE  Inv'
<1>1. pc[t] = "poll"
  BY DEF Poll
<1>2. \/ pc' = [pc EXCEPT ![t] = "restart"] /\ uart_read_res_sem' = 1
      \/ pc' = [pc EXCEPT ![t] = "poll"] /\ uart_read_res_sem' = uart_read_res_sem
  BY DEF Poll, Post
<1>3. \A u \in Threads : u # t => pc[u] # "poll"
  BY <1>1 DEF Inv, OneReader
<1>4. CASE pc' = [pc EXCEPT ![t] = "restart"] /\ uart_read_res_sem' = 1
  BY <1>3, <1>4 DEF Inv, Held, OneReader, Labels
<1>5. CASE pc' = [pc EXCEPT ![t] = "poll"] /\ uart_read_res_sem' = uart_read_res_sem
  BY <1>1, <1>5 DEF Inv, Held, OneReader, Labels
<1> QED
  BY <1>2, <1>4, <1>5

LEMMA NextInv == Inv /\ [Next]_vars => Inv'
<1> SUFFICES ASSUME Inv, [Next]_vars
             PROVE  Inv'
  OBVIOUS
<1>1. ASSUME NEW t \in Threads, Begin(t)
      PROVE  Inv'
  BY <1>1, OutOfLoop DEF Begin, Labels
<1>2. ASSUME NEW t \in Threads, Send(t)
      PROVE  Inv'
  <2>1. UNCHANGED uart_read_res_sem
    BY <1>2 DEF Send
  <2>2. pc' = [pc EXCEPT ![t] = "clear"] \/ Continue(t, tryCount'[t])
    BY <1>2 DEF Send
  <2>3. CASE pc' = [pc EXCEPT ![t] = "clear"]
    BY <2>1, <2>3, OutOfLoop DEF Labels
  <2>4. CASE Continue(t, tryCount'[t])
    BY <2>1, <2>4, ContinueInv
  <2> QED
    BY <2>2, <2>3, <2>4
<1>3. ASSUME NEW t \in Threads, Clear(t)
      PROVE  Inv'
  BY <1>3, OutOfLoop DEF Clear, Labels
<1>4. ASSUME NEW t \in Threads, Restarted(t)
      PROVE  Inv'
  <2>1. UNCHANGED uart_read_res_sem
    BY <1>4 DEF Restarted
  <2>2. pc' = [pc EXCEPT ![t] = "copy"] \/ Continue(t, tryCount[t])
    BY <1>4 DEF Restarted
  <2>3. CASE pc' = [pc EXCEPT ![t] = "copy"]
    BY <2>1, <2>3, OutOfLoop DEF Labels
  <2>4. CASE Continue(t, tryCount[t])
    BY <2>1, <2>4, ContinueInv
  <2> QED
    BY <2>2, <2>3, <2>4
<1>5. ASSUME NEW t \in Threads, Copy(t)
      PROVE  Inv'
  BY <1>5, OutOfLoop DEF Copy, Labels
<1>6. ASSUME NEW t \in Threads, Match(t)
      PROVE  Inv'
  <2>1. UNCHANGED uart_read_res_sem
    BY <1>6 DEF Match
  <2>2. pc' = [pc EXCEPT ![t] = "idle"] \/ Continue(t, tryCount[t])
    BY <1>6 DEF Match, Finish
  <2>3. CASE pc' = [pc EXCEPT ![t] = "idle"]
    BY <2>1, <2>3, OutOfLoop DEF Labels
  <2>4. CASE Continue(t, tryCount[t])
    BY <2>1, <2>4, ContinueInv
  <2> QED
    BY <2>2, <2>3, <2>4
<1>7. ASSUME UNCHANGED <<pc, uart_read_res_sem>>
      PROVE  Inv'
  BY <1>7 DEF Inv, Held, OneReader
<1>8. ASSUME NEW m \in Modems, Modem(m)
      PROVE  Inv'
  BY <1>8, <1>7 DEF Modem, Answer, Restart, threads
<1>9. ASSUME UNCHANGED vars
      PROVE  Inv'
  BY <1>9, <1>7 DEF vars, threads
<1> QED
  BY <1>1, <1>2, <1>3, <1>4, <1>5, <1>6, <1>8, <1>9, WaitInv, PollInv DEF Next, Thread

\* The semaphore is held by a thread for as long as it reads an answer (oss_uart.c:289-317), and
\* by one thread at a time.
THEOREM SemaphoreHeld == Spec => [](Held /\ OneReader)
<1>1. Inv => Held /\ OneReader
  BY DEF Inv
<1> QED
  BY <1>1, InitInv, NextInv, PTL DEF Spec

\* No command is written to any port while an answer is being read: oss_uart_write waits for the
\* semaphore at oss_uart.c:240.
THEOREM NoWriteInRead == Spec => NoWriteDuringRead
<1> DEFINE Quiet == (\E t \in Threads : pc[t] = "send" /\ pc'[t] = "clear")
                      => \A u \in Threads : pc[u] # "poll"
<1>1. Inv /\ [Next]_vars => [Quiet]_vars
  <2> SUFFICES ASSUME Inv, Next, NEW t \in Threads, pc[t] = "send", pc'[t] = "clear"
               PROVE  \A u \in Threads : pc[u] # "poll"
    OBVIOUS
  <2>1. pc \in [Threads -> Labels] /\ pc' # pc
    BY DEF Inv
  <2>2. PICK u \in Threads : Begin(u) \/ Thread(u)
    BY <2>1 DEF Next, Modem, Answer, Restart, threads
  <2>3. \A l : l # "clear" => pc' # [pc EXCEPT ![u] = l]
    BY <2>1
  <2>4. ~Begin(u) /\ ~Restarted(u) /\ ~Match(u)
    BY <2>3 DEF Begin, Restarted, Match, Continue, Finish
  <2>5. ~Clear(u) /\ ~Wait(u) /\ ~Copy(u)
    BY <2>3 DEF Clear, Wait, Copy
  <2>6. ~Poll(u)
    BY <2>3 DEF Poll
  <2>7. uart_read_res_sem = 1
    BY <2>2, <2>4, <2>5, <2>6 DEF Thread, Send
  <2> QED
    BY <2>7 DEF Inv, Held
<1>2. Spec => []Inv
  BY InitInv, NextInv, PTL DEF Spec
<1> QED
  BY <1>1, <1>2, PTL DEF Spec, NoWriteDuringRead

-----------------------------------------------------------------------------
(* Type correctness *)

\* A thread in an exchange has a number; one about to send has a try left.
InExchange ==
  \A t \in Threads : /\ pc[t] # "idle" => asked[t] \in 1 .. MaxExchanges
                     /\ pc[t] = "send" => tryCount[t] \in 1 .. TryCount

TypeInv == TypeOK /\ InExchange

LEMMA Bounds ==
  /\ TryCount \in Nat \ {0} /\ PollCount \in Nat \ {0} /\ BufLen \in Nat \ {0}
  /\ MaxExchanges \in Nat /\ MaxRestarts \in Nat
BY CountsAssumption

LEMMA TokenTypes ==
  /\ Zero \in Tokens /\ Token(0, "SYSSTART") \in Tokens
  /\ \A id \in 1 .. MaxExchanges, w \in Words : Token(id, w) \in Tokens
BY Bounds DEF Zero, Token, Tokens, Words

LEMMA ClearedType == Cleared \in [Slots -> Tokens]
BY TokenTypes DEF Cleared

\* What is left of a text, and what of it is stored in the buffer.
LEMMA RestType ==
  ASSUME NEW s \in Seq(Tokens), NEW n \in 0 .. Len(s)
  PROVE  Rest(s, n) \in Seq(Tokens)
BY SubSeqProperties DEF Rest

LEMMA StoredType ==
  ASSUME NEW buf \in [Slots -> Tokens], NEW at \in Nat, NEW s \in Seq(Tokens), NEW n \in 0 .. Len(s)
  PROVE  Stored(buf, at, SubSeq(s, 1, n)) \in [Slots -> Tokens]
<1> DEFINE chunk == SubSeq(s, 1, n)
<1>1. chunk \in Seq(Tokens) /\ Len(chunk) \in Nat
  BY SubSeqProperties
<1>2. ASSUME NEW k \in Slots, k \in at + 1 .. at + Len(chunk)
      PROVE  chunk[k - at] \in Tokens
  <2>1. k - at \in 1 .. Len(chunk)
    BY <1>1, <1>2
  <2> QED
    BY <1>1, <2>1
<1> HIDE DEF chunk
<1>3. Stored(buf, at, chunk) \in [Slots -> Tokens]
  BY <1>2 DEF Stored
<1> QED
  BY <1>3 DEF chunk

\* Another try, or the end: one is left when it is another try.
LEMMA ContinueType ==
  ASSUME TypeOK, NEW t \in Threads, NEW left, Continue(t, left)
  PROVE  /\ pc' \in [Threads -> Labels] /\ verdict' \in [Threads -> {"none", "OK", "FAILED"}]
         /\ \A u \in Threads : u # t => pc'[u] = pc[u]
         /\ pc'[t] = "send" => left > 0
BY DEF TypeOK, Continue, Finish, Labels

\* The tries left say whether there is another one.
LEMMA ContinueExchange ==
  ASSUME TypeInv, TypeOK', NEW t \in Threads, pc[t] # "idle", UNCHANGED asked,
         \A u \in Threads : u # t => pc'[u] = pc[u] /\ tryCount'[u] = tryCount[u],
         pc'[t] = "send" => tryCount'[t] > 0
  PROVE  TypeInv'
<1>1. tryCount' \in [Threads -> 0 .. TryCount] /\ TryCount \in Nat
  BY Bounds DEF TypeOK
<1>2. asked[t] \in 1 .. MaxExchanges /\ asked' = asked
  BY DEF TypeInv, InExchange
<1>3. ASSUME NEW u \in Threads
      PROVE  (pc'[u] # "idle" => asked'[u] \in 1 .. MaxExchanges)
             /\ (pc'[u] = "send" => tryCount'[u] \in 1 .. TryCount)
  <2>1. CASE u = t
    BY <1>1, <1>2, <2>1
  <2>2. CASE u # t
    BY <1>2, <2>2 DEF TypeInv, InExchange
  <2> QED
    BY <2>1, <2>2
<1> QED
  BY <1>3 DEF TypeInv, InExchange

LEMMA InitType == Init => TypeInv
<1> SUFFICES ASSUME Init PROVE TypeInv
  OBVIOUS
<1>1. /\ 0 \in 0 .. MaxExchanges /\ 0 \in 0 .. TryCount /\ 0 \in 0 .. PollCount - 1
      /\ 0 \in 0 .. BufLen /\ 0 \in 0 .. MaxRestarts
  BY Bounds
<1>2. << >> \in Seq(Tokens) /\ << >> \in Seq(1 .. MaxExchanges)
  OBVIOUS
<1>3. TypeOK
  BY <1>1, <1>2, ClearedType DEF Init, TypeOK, Labels
<1>4. InExchange
  BY DEF Init, InExchange
<1> QED
  BY <1>3, <1>4 DEF TypeInv

LEMMA SendType ==
  ASSUME TypeInv, NEW t \in Threads, Send(t)
  PROVE  TypeInv'
<1>1. tryCount[t] \in 1 .. TryCount /\ asked[t] \in 1 .. MaxExchanges /\ port[t] \in Modems
  BY DEF TypeInv, TypeOK, InExchange, Send
<1>2. tryCount' = [tryCount EXCEPT ![t] = @ - 1] /\ tryCount' \in [Threads -> 0 .. TryCount]
      /\ tryCount'[t] = tryCount[t] - 1
  BY <1>1, Bounds, SMTT(30) DEF TypeInv, TypeOK, Send
<1>3. UNCHANGED <<asked, port, okResp, cnt, len, pbyOut, uart_read_res_sem, abyAtCmdRespBuf, tty,
                 issued, obeyed, restarts>>
  BY DEF Send
<1>4. CASE /\ work' = [work EXCEPT ![port[t]] = Append(@, asked[t])]
           /\ pc' = [pc EXCEPT ![t] = "clear"]
           /\ UNCHANGED <<verdict, refused>>
  <2>1. Append(work[port[t]], asked[t]) \in Seq(1 .. MaxExchanges)
    BY <1>1, AppendProperties DEF TypeInv, TypeOK
  <2>2. work' \in [Modems -> Seq(1 .. MaxExchanges)]
    BY <1>1, <1>4, <2>1 DEF TypeInv, TypeOK
  <2>3. TypeOK'
    BY <1>2, <1>3, <1>4, <2>2 DEF TypeInv, TypeOK, Labels
  <2>4. \A u \in Threads : u # t => pc'[u] = pc[u] /\ tryCount'[u] = tryCount[u]
    BY <1>2, <1>4 DEF TypeInv, TypeOK
  <2>5. pc'[t] = "clear" /\ pc[t] = "send"
    BY <1>4 DEF TypeInv, TypeOK, Send
  <2> QED
    BY <1>3, <2>3, <2>4, <2>5, ContinueExchange
<1>5. CASE /\ refused' = [refused EXCEPT ![t] = @ + 1]
           /\ Continue(t, tryCount'[t]) /\ UNCHANGED work
  <2>1. refused' \in [Threads -> Nat]
    BY <1>5 DEF TypeInv, TypeOK
  <2>2. pc' \in [Threads -> Labels] /\ verdict' \in [Threads -> {"none", "OK", "FAILED"}]
        /\ (\A u \in Threads : u # t => pc'[u] = pc[u]) /\ (pc'[t] = "send" => tryCount'[t] > 0)
    BY <1>5, ContinueType DEF TypeInv
  <2>3. TypeOK'
    BY <1>2, <1>3, <1>5, <2>1, <2>2 DEF TypeInv, TypeOK
  <2>4. \A u \in Threads : u # t => tryCount'[u] = tryCount[u]
    BY <1>2 DEF TypeInv, TypeOK
  <2>5. pc[t] # "idle"
    BY DEF Send
  <2> QED
    BY <1>3, <2>2, <2>3, <2>4, <2>5, ContinueExchange
<1> QED
  BY <1>4, <1>5 DEF Send

LEMMA PollType ==
  ASSUME TypeInv, NEW t \in Threads, Poll(t)
  PROVE  TypeInv'
<1> DEFINE m == port[t]
<1>0. m \in Modems /\ tty[m] \in Seq(Tokens) /\ len[t] \in 0 .. BufLen /\ pc[t] = "poll"
      /\ abyAtCmdRespBuf \in [Slots -> Tokens]
  BY DEF TypeInv, TypeOK, Poll
<1>1. PICK n \in 0 .. Len(tty[m]) :
       LET buf    == Stored(abyAtCmdRespBuf, len[t], SubSeq(tty[m], 1, n))
           failed == n > 0 /\ ~Found(buf, okResp[t]) /\ Holds(buf, "ERROR")
           last   == cnt[t] + 1 = PollCount
           end    == Stop(t, n, buf) \/ last
           got    == IF failed THEN 0 ELSE len[t] + n
       IN /\ len[t] + n <= BufLen
          /\ \E k \in IF failed THEN n .. Len(tty[m]) ELSE {n} : tty' = [tty EXCEPT ![m] = Rest(@, k)]
          /\ len' = [len EXCEPT ![t] = got]
          /\ cnt' = [cnt EXCEPT ![t] = IF end THEN 0 ELSE @ + 1]
          /\ abyAtCmdRespBuf' = IF end THEN [buf EXCEPT ![got + 1] = Zero] ELSE buf
          /\ IF end THEN uart_read_res_sem' = 1 ELSE UNCHANGED uart_read_res_sem
          /\ pc' = [pc EXCEPT ![t] = IF end THEN "restart" ELSE "poll"]
  BY DEF Poll, Post
<1> DEFINE buf    == Stored(abyAtCmdRespBuf, len[t], SubSeq(tty[m], 1, n))
           failed == n > 0 /\ ~Found(buf, okResp[t]) /\ Holds(buf, "ERROR")
           end    == Stop(t, n, buf) \/ cnt[t] + 1 = PollCount
           got    == IF failed THEN 0 ELSE len[t] + n
<1>2. Len(tty[m]) \in Nat /\ n \in Nat
  BY <1>0
<1>3. buf \in [Slots -> Tokens]
  BY <1>0, StoredType
<1>4. got \in 0 .. BufLen
  BY <1>0, <1>1, <1>2, Bounds
<1>5. tty' \in [Modems -> Seq(Tokens)]
  <2>0. \E k \in IF failed THEN n .. Len(tty[m]) ELSE {n} : tty' = [tty EXCEPT ![m] = Rest(@, k)]
    BY <1>1
  <2>1. PICK k \in 0 .. Len(tty[m]) : tty' = [tty EXCEPT ![m] = Rest(@, k)]
    <3>1. \A k : k \in (IF failed THEN n .. Len(tty[m]) ELSE {n}) => k \in 0 .. Len(tty[m])
      BY <1>2
    <3> HIDE DEF failed, m
    <3> QED
      BY <2>0, <3>1, Zenon
  <2>2. Rest(tty[m], k) \in Seq(Tokens)
    BY <1>0, <2>1, RestType
  <2> QED
    BY <1>0, <2>1, <2>2 DEF TypeInv, TypeOK
<1>6. len' \in [Threads -> 0 .. BufLen]
  BY <1>1, <1>4 DEF TypeInv, TypeOK
<1>7. cnt' \in [Threads -> 0 .. PollCount - 1]
  <2>1. cnt[t] \in 0 .. PollCount - 1 /\ (~end => cnt[t] + 1 # PollCount)
    BY DEF TypeInv, TypeOK
  <2>2. (IF end THEN 0 ELSE cnt[t] + 1) \in 0 .. PollCount - 1
    BY <2>1, Bounds
  <2> QED
    BY <1>1, <2>2 DEF TypeInv, TypeOK
<1>8. abyAtCmdRespBuf' \in [Slots -> Tokens]
  <2>1. got + 1 \in Slots
    BY <1>4, Bounds DEF Slots
  <2> HIDE DEF buf, got, end
  <2>2. [buf EXCEPT ![got + 1] = Zero] \in [Slots -> Tokens]
    BY <1>3, <2>1, TokenTypes
  <2> QED
    BY <1>1, <1>3, <2>2 DEF buf, got, end, failed
<1>9. uart_read_res_sem' \in {0, 1}
  BY <1>1 DEF TypeInv, TypeOK
<1>10. pc' \in [Threads -> Labels] /\ pc'[t] \in {"restart", "poll"}
       /\ \A u \in Threads : u # t => pc'[u] = pc[u]
  BY <1>1 DEF TypeInv, TypeOK, Labels
<1>11. UNCHANGED <<asked, port, okResp, tryCount, pbyOut, verdict, work, history>>
  BY DEF Poll
<1>12. TypeOK'
  BY <1>5, <1>6, <1>7, <1>8, <1>9, <1>10, <1>11 DEF TypeInv, TypeOK, history
<1>13. InExchange'
  BY <1>0, <1>10, <1>11 DEF TypeInv, InExchange
<1> QED
  BY <1>12, <1>13 DEF TypeInv

LEMMA AnswerType ==
  ASSUME TypeInv, NEW m \in Modems, Answer(m)
  PROVE  TypeInv'
<1> DEFINE id == Head(work[m])
<1>1. work[m] \in Seq(1 .. MaxExchanges) /\ work[m] # << >> /\ tty[m] \in Seq(Tokens)
  BY DEF TypeInv, TypeOK, Answer
<1>2. id \in 1 .. MaxExchanges /\ Tail(work[m]) \in Seq(1 .. MaxExchanges)
  BY <1>1, HeadTailProperties
<1>3. work' \in [Modems -> Seq(1 .. MaxExchanges)]
  BY <1>2 DEF TypeInv, TypeOK, Answer
<1>4. \A w \in Words : Token(id, w) \in Tokens
  BY <1>2, TokenTypes
<1> HIDE DEF id
<1>5. << Token(id, "data"), Token(id, "OK") >> \in Seq(Tokens)
  BY <1>4 DEF Words
<1>6. tty[m] \o << Token(id, "data"), Token(id, "OK") >> \in Seq(Tokens)
  BY <1>1, <1>5, ConcatProperties
<1>7. Append(tty[m], Token(id, "ERROR")) \in Seq(Tokens)
  BY <1>1, <1>4, AppendProperties DEF Words
<1>8. tty' \in [Modems -> Seq(Tokens)]
  BY <1>6, <1>7 DEF TypeInv, TypeOK, Answer, id
<1>9. obeyed' \subseteq 1 .. MaxExchanges
  BY <1>2 DEF TypeInv, TypeOK, Answer, id
<1>10. refused' \in [Threads -> Nat]
  <2>1. refused \in [Threads -> Nat]
    BY DEF TypeInv, TypeOK
  <2>2. CASE UNCHANGED refused
    BY <2>1, <2>2
  <2>3. CASE refused' = [t \in Threads |-> IF t \in Askers(id) THEN refused[t] + 1 ELSE refused[t]]
    BY <2>1, <2>3
  <2> QED
    BY <2>2, <2>3 DEF Answer, id
<1>11. UNCHANGED <<threads, uart_read_res_sem, abyAtCmdRespBuf, issued, restarts>>
  BY DEF Answer
<1>12. TypeOK'
  BY <1>3, <1>8, <1>9, <1>10, <1>11 DEF TypeInv, TypeOK, threads
<1>13. InExchange'
  BY <1>11 DEF TypeInv, InExchange, threads
<1> QED
  BY <1>12, <1>13 DEF TypeInv

LEMMA RestartType ==
  ASSUME TypeInv, NEW m \in Modems, Restart(m)
  PROVE  TypeInv'
<1>1. Append(tty[m], Token(0, "SYSSTART")) \in Seq(Tokens) /\ << >> \in Seq(1 .. MaxExchanges)
  BY TokenTypes, AppendProperties DEF TypeInv, TypeOK
<1>2. tty' \in [Modems -> Seq(Tokens)] /\ work' \in [Modems -> Seq(1 .. MaxExchanges)]
  BY <1>1 DEF TypeInv, TypeOK, Restart
<1>3. restarts' \in 0 .. MaxRestarts
  BY Bounds DEF TypeInv, TypeOK, Restart
<1> QED
  BY <1>2, <1>3 DEF TypeInv, TypeOK, InExchange, Restart, threads

LEMMA NextType == TypeInv /\ [Next]_vars => TypeInv'
<1> SUFFICES ASSUME TypeInv, [Next]_vars PROVE TypeInv'
  OBVIOUS
<1>1. ASSUME NEW t \in Threads, Begin(t) PROVE TypeInv'
  <2>1. issued' \in 1 .. MaxExchanges
    BY <1>1, Bounds DEF TypeInv, TypeOK, Begin
  <2>2. TryCount \in 1 .. TryCount /\ 0 \in Nat /\ << >> \in Seq(Tokens)
    BY Bounds
  <2>0. issued' \in 0 .. MaxExchanges /\ TryCount \in 0 .. TryCount
    BY <2>1, Bounds
  <2>5. port' \in [Threads -> Modems] /\ okResp' \in [Threads -> Patterns]
    BY <1>1 DEF TypeInv, TypeOK, Begin
  <2>6. pc' \in [Threads -> Labels] /\ asked' \in [Threads -> 0 .. MaxExchanges]
    BY <1>1, <2>0 DEF TypeInv, TypeOK, Begin, Labels
  <2>7. tryCount' \in [Threads -> 0 .. TryCount] /\ pbyOut' \in [Threads -> Seq(Tokens)]
    BY <1>1, <2>0, <2>2 DEF TypeInv, TypeOK, Begin
  <2>8. verdict' \in [Threads -> {"none", "OK", "FAILED"}] /\ refused' \in [Threads -> Nat]
    BY <1>1, <2>2 DEF TypeInv, TypeOK, Begin
  <2>9. UNCHANGED <<cnt, len, uart_read_res_sem, abyAtCmdRespBuf, tty, work, obeyed, restarts>>
    BY <1>1 DEF Begin, ports
  <2>3. TypeOK'
    BY <2>0, <2>5, <2>6, <2>7, <2>8, <2>9 DEF TypeInv, TypeOK
  <2>4. InExchange'
    BY <1>1, <2>1, <2>2 DEF TypeInv, TypeOK, InExchange, Begin
  <2> QED
    BY <2>3, <2>4 DEF TypeInv
<1>2. ASSUME NEW t \in Threads, Clear(t) PROVE TypeInv'
  BY <1>2, ClearedType DEF TypeInv, TypeOK, InExchange, Clear, Labels, ports, history
<1>3. ASSUME NEW t \in Threads, Wait(t) PROVE TypeInv'
  BY <1>3, Bounds, SMTT(30) DEF TypeInv, TypeOK, InExchange, Wait, Labels, ports, history
<1>4. ASSUME NEW t \in Threads, Restarted(t) PROVE TypeInv'
  <2>1. UNCHANGED <<asked, port, okResp, tryCount, cnt, len, pbyOut, uart_read_res_sem,
                   abyAtCmdRespBuf, ports, history>> /\ pc[t] = "restart"
    BY <1>4 DEF Restarted
  <2>2. CASE Continue(t, tryCount[t])
    <3>1. /\ pc' \in [Threads -> Labels] /\ verdict' \in [Threads -> {"none", "OK", "FAILED"}]
          /\ \A u \in Threads : u # t => pc'[u] = pc[u]
          /\ pc'[t] = "send" => tryCount[t] > 0
      BY <2>2, ContinueType DEF TypeInv
    <3>2. TypeOK'
      BY <2>1, <3>1 DEF TypeInv, TypeOK, ports, history
    <3> QED
      BY <2>1, <3>1, <3>2, ContinueExchange
  <2>3. CASE pc' = [pc EXCEPT ![t] = "copy"] /\ UNCHANGED verdict
    BY <2>1, <2>3 DEF TypeInv, TypeOK, InExchange, Labels, ports, history
  <2> QED
    BY <1>4, <2>2, <2>3 DEF Restarted
<1>5. ASSUME NEW t \in Threads, Copy(t) PROVE TypeInv'
  <2>1. len[t] \in 0 .. BufLen /\ abyAtCmdRespBuf \in [Slots -> Tokens]
    BY DEF TypeInv, TypeOK
  <2>2. \A i \in 1 .. len[t] : abyAtCmdRespBuf[i] \in Tokens
    BY <2>1, Bounds DEF Slots
  <2>3. SubSeq(abyAtCmdRespBuf, 1, len[t]) \in Seq(Tokens)
    BY <2>1, <2>2, SubSeqProperties
  <2> QED
    BY <1>5, <2>3 DEF TypeInv, TypeOK, InExchange, Copy, Labels, ports, history
<1>6. ASSUME NEW t \in Threads, Match(t) PROVE TypeInv'
  <2>1. UNCHANGED <<asked, port, okResp, tryCount, cnt, len, pbyOut, uart_read_res_sem,
                   abyAtCmdRespBuf, ports, history>> /\ pc[t] = "match"
    BY <1>6 DEF Match
  <2>2. CASE Continue(t, tryCount[t])
    <3>1. /\ pc' \in [Threads -> Labels] /\ verdict' \in [Threads -> {"none", "OK", "FAILED"}]
          /\ \A u \in Threads : u # t => pc'[u] = pc[u]
          /\ pc'[t] = "send" => tryCount[t] > 0
      BY <2>2, ContinueType DEF TypeInv
    <3>2. TypeOK'
      BY <2>1, <3>1 DEF TypeInv, TypeOK, ports, history
    <3> QED
      BY <2>1, <3>1, <3>2, ContinueExchange
  <2>3. CASE Finish(t, "OK")
    BY <2>1, <2>3 DEF TypeInv, TypeOK, InExchange, Finish, Labels, ports, history
  <2> QED
    BY <1>6, <2>2, <2>3 DEF Match
<1>7. CASE UNCHANGED vars
  BY <1>7 DEF TypeInv, TypeOK, InExchange, vars, threads, ports, history
<1> QED
  BY <1>1, <1>2, <1>3, <1>4, <1>5, <1>6, <1>7, SendType, PollType, AnswerType, RestartType
  DEF Next, Thread, Modem

\* Every variable of the exchanges keeps a value the code can give it: no counter passes its limit and
\* no answer its buffer, whatever the modems answer and whenever.
THEOREM TypeCorrect == Spec => []TypeOK
<1>1. TypeInv => TypeOK
  BY DEF TypeInv
<1> QED
  BY <1>1, InitType, NextType, PTL DEF Spec

-----------------------------------------------------------------------------
(* What an exchange promises *)

Last == {"OK", "ERROR"}            \* the words that end an answer

\* A command of this try may be waiting or answered.
Trying(t) == pc[t] \in {"clear", "wait", "poll"}

\* One thread at a time is in an exchange, and it has no verdict yet.
Solo ==
  /\ \A t, u \in Threads : pc[t] # "idle" /\ pc[u] # "idle" => t = u
  /\ \A t \in Threads : pc[t] # "idle" => verdict[t] = "none"

\* What a port holds belongs to the try under way: its command, or its answer, once, in one piece. The
\* rest are announcements of restarts.
PortInv(m) ==
  /\ Len(work[m]) <= 1
  /\ work[m] # <<>> => \E t \in Threads : Trying(t) /\ port[t] = m /\ work[m][1] = asked[t]
  /\ \A k \in 1 .. Len(tty[m]) :
       /\ tty[m][k].word # "zero"
       /\ tty[m][k].word \in Last =>
            /\ work[m] = <<>>
            /\ \A j \in 1 .. Len(tty[m]) : tty[m][j].word \in Last => j = k
            /\ \E t \in Threads : Trying(t) /\ port[t] = m /\ tty[m][k].id = asked[t]
       /\ tty[m][k].word = "data" =>
            k < Len(tty[m]) /\ tty[m][k + 1] = Token(tty[m][k].id, "OK")
       /\ tty[m][k].word = "OK" =>
            /\ tty[m][k].id \in obeyed
            /\ \/ k > 1 /\ tty[m][k - 1] = Token(tty[m][k].id, "data")
               \/ k = 1 /\ \E t \in Threads :
                     /\ pc[t] = "poll" /\ port[t] = m /\ len[t] > 0
                     /\ abyAtCmdRespBuf[len[t]] = Token(tty[m][k].id, "data")

\* While a thread reads, the buffer holds what it has read, and that is no whole answer.
BufInv(t) ==
  /\ pc[t] = "wait" => abyAtCmdRespBuf = Cleared
  /\ pc[t] = "poll" =>
       /\ \A k \in Slots : k > len[t] => abyAtCmdRespBuf[k] = Zero
       /\ \A k \in 1 .. len[t] :
            /\ abyAtCmdRespBuf[k].word \in {"data", "SYSSTART"}
            /\ abyAtCmdRespBuf[k].word = "data" =>
                 /\ k = len[t] /\ tty[port[t]] # <<>>
                 /\ tty[port[t]][1] = Token(abyAtCmdRespBuf[k].id, "OK")

\* The announcements of restarts in a text, those not yet read from a port, and those read in this try.
Announced(s) == {k \in 1 .. Len(s) : s[k].word = "SYSSTART"}
Unread(m) == Cardinality(Announced(tty[m]))
BufRestarts(t) == {k \in 1 .. len[t] : abyAtCmdRespBuf[k].word = "SYSSTART"}
Errors(m) == {k \in 1 .. Len(tty[m]) : tty[m][k].word = "ERROR"}

\* A command that was sent waits, is answered, or was forgotten in a restart.
Sent(t) ==
  Trying(t) => \/ work[port[t]] # <<>>
               \/ \E k \in 1 .. Len(tty[port[t]]) : tty[port[t]][k].word \in Last \cup {"SYSSTART"}
               \/ pc[t] = "poll" /\ BufRestarts(t) # {}

\* The thread has read its own answer, alone.
Answered(t) ==
  /\ asked[t] \in obeyed /\ len[t] = 2
  /\ abyAtCmdRespBuf[1] = Token(asked[t], "data")
  /\ abyAtCmdRespBuf[2] = Token(asked[t], "OK") /\ abyAtCmdRespBuf[3] = Zero

ResultInv(t) ==
  /\ pc[t] = "restart" => len[t] = 0 \/ Holds(abyAtCmdRespBuf, "SYSSTART") \/ Answered(t)
  /\ pc[t] \in {"copy", "match"} => Answered(t)
  /\ pc[t] = "match" \/ verdict[t] = "OK"
       => pbyOut[t] = <<Token(asked[t], "data"), Token(asked[t], "OK")>>

AnswerInv ==
  /\ Solo
  /\ \A m \in Modems : PortInv(m)
  /\ \A t \in Threads : BufInv(t) /\ Sent(t) /\ ResultInv(t)

\* What the try under way has met that makes it fail: an ERROR on its way, an announcement in the
\* buffer, or no answer.
Failing(t) ==
  CASE pc[t] = "send"    -> 1
    [] Trying(t)         -> (IF Errors(port[t]) = {} THEN 0 ELSE 1)
                              + (IF pc[t] = "poll" /\ BufRestarts(t) # {} THEN 1 ELSE 0)
    [] pc[t] = "restart" -> IF Answered(t) THEN 0 ELSE 1
    [] OTHER             -> 0

\* Each announcement not yet read and each try that failed is a restart or a refusal of its own.
CountInv ==
  /\ \A m \in Modems : Unread(m) <= restarts
  /\ \A t \in Threads : pc[t] # "idle" =>
       refused[t] + restarts + 1
         >= Unread(port[t]) + (TryCount - tryCount[t]) + Failing(t)
  /\ \A t \in Threads : verdict[t] = "FAILED" => refused[t] + restarts >= TryCount

-----------------------------------------------------------------------------
(* Ports nobody waits for *)

\* Nothing but restarts announced.
Quiet(m) ==
  work[m] = <<>> /\ \A k \in 1 .. Len(tty[m]) : tty[m][k].word = "SYSSTART"

LEMMA OneElement ==
  ASSUME NEW S, NEW s \in Seq(S), s # <<>>, Len(s) <= 1
  PROVE  Len(s) = 1 /\ Head(s) = s[1] /\ s[1] \in S /\ Tail(s) = <<>>
<1>1. Len(s) = 1
  <2>1. Len(s) \in Nat
    OBVIOUS
  <2>2. Len(s) # 0
    BY EmptySeq, Zenon
  <2> QED
    BY <2>1, <2>2
<1>2. Len(Tail(s)) = 0 /\ Tail(s) \in Seq(S)
  BY <1>1, HeadTailProperties
<1>3. Tail(s) = <<>>
  BY <1>2, EmptySeq
<1> QED
  BY <1>1, <1>3

LEMMA AppendOne ==
  ASSUME NEW S, NEW s \in Seq(S), NEW e \in S
  PROVE  Append(s, e) = s \o <<e>> /\ <<e>> \in Seq(S)
<1>1. <<e>> \in Seq(S) /\ Len(<<e>>) = 1 /\ <<e>>[1] = e
  OBVIOUS
<1>2. /\ Append(s, e) \in Seq(S) /\ s \o <<e>> \in Seq(S)
      /\ Len(Append(s, e)) = Len(s \o <<e>>)
  BY <1>1, ConcatProperties, AppendProperties
<1>3. \A i \in 1 .. Len(Append(s, e)) : Append(s, e)[i] = (s \o <<e>>)[i]
  BY <1>1
<1> QED
  BY <1>1, <1>2, <1>3, SeqEqual

LEMMA OrderlyFacts ==
  ASSUME Orderly
  PROVE  Timely /\ ~Overlap /\ Patterns = {"OK"}
BY SetsAssumption DEF Orderly

LEMMA PortTypes ==
  ASSUME TypeInv, NEW m \in Modems
  PROVE  /\ work[m] \in Seq(1 .. MaxExchanges) /\ Len(work[m]) \in Nat
         /\ tty[m] \in Seq(Tokens) /\ Len(tty[m]) \in Nat
         /\ \A k \in 1 .. Len(tty[m]) : tty[m][k] \in Tokens
BY DEF TypeInv, TypeOK

LEMMA ThreadTypes ==
  ASSUME TypeInv, NEW t \in Threads
  PROVE  /\ port[t] \in Modems /\ len[t] \in 0 .. BufLen /\ len[t] \in Nat /\ pc[t] \in Labels
         /\ okResp[t] \in Patterns
BY Bounds DEF TypeInv, TypeOK

\* A port nobody is trying is quiet.
LEMMA NobodyTrying ==
  ASSUME TypeInv, AnswerInv, NEW m \in Modems,
         \A t \in Threads : Trying(t) => port[t] # m
  PROVE  Quiet(m)
<1>1. PortInv(m)
  BY DEF AnswerInv
<1>2. work[m] = <<>>
  BY <1>1 DEF PortInv
<1>3. ASSUME NEW k \in 1 .. Len(tty[m]) PROVE tty[m][k].word \notin Last
  BY <1>1 DEF PortInv
<1>4. ASSUME NEW k \in 1 .. Len(tty[m]) PROVE tty[m][k].word = "SYSSTART"
  <2>1. tty[m][k].word \in Words /\ tty[m][k].word # "zero" /\ tty[m][k].word \notin Last
    BY <1>1, <1>3, PortTypes DEF PortInv, Tokens
  <2>2. tty[m][k].word # "data"
    <3> SUFFICES ASSUME tty[m][k].word = "data" PROVE FALSE
      OBVIOUS
    <3>0. k < Len(tty[m]) /\ tty[m][k + 1] = Token(tty[m][k].id, "OK")
      BY <1>1 DEF PortInv
    <3>1. k + 1 \in 1 .. Len(tty[m]) /\ tty[m][k + 1].word = "OK"
      BY <3>0, PortTypes DEF Token
    <3> QED
      BY <1>3, <3>1 DEF Last
  <2> QED
    BY <2>1, <2>2 DEF Words, Last
<1> QED
  BY <1>2, <1>4 DEF Quiet

\* A port that stays quiet, or is left alone by a step that keeps those who try it.
LEMMA StaysQuiet ==
  ASSUME NEW m \in Modems, Quiet(m)'
  PROVE  PortInv(m)'
BY DEF Quiet, PortInv, Last

LEMMA PortKept ==
  ASSUME NEW m \in Modems, PortInv(m), tty'[m] = tty[m], work'[m] = work[m], obeyed \subseteq obeyed',
         \A t \in Threads : Trying(t) /\ port[t] = m =>
            /\ Trying(t)' /\ port'[t] = m /\ asked'[t] = asked[t]
            /\ pc[t] = "poll" =>
                 pc'[t] = "poll" /\ len'[t] = len[t] /\ abyAtCmdRespBuf' = abyAtCmdRespBuf
  PROVE  PortInv(m)'
<1>1. Len(work'[m]) <= 1
  BY DEF PortInv
<1>2. work'[m] # <<>> => \E t \in Threads : Trying(t)' /\ port'[t] = m /\ work'[m][1] = asked'[t]
  BY DEF PortInv
<1>3. ASSUME NEW k \in 1 .. Len(tty'[m])
      PROVE  /\ tty'[m][k].word # "zero"
             /\ tty'[m][k].word \in Last =>
                  /\ work'[m] = <<>>
                  /\ \A j \in 1 .. Len(tty'[m]) : tty'[m][j].word \in Last => j = k
                  /\ \E t \in Threads : Trying(t)' /\ port'[t] = m /\ tty'[m][k].id = asked'[t]
             /\ tty'[m][k].word = "data" =>
                  k < Len(tty'[m]) /\ tty'[m][k + 1] = Token(tty'[m][k].id, "OK")
  BY DEF PortInv
<1>4. ASSUME NEW k \in 1 .. Len(tty'[m]), tty'[m][k].word = "OK"
      PROVE  /\ tty'[m][k].id \in obeyed'
             /\ \/ k > 1 /\ tty'[m][k - 1] = Token(tty'[m][k].id, "data")
                \/ k = 1 /\ \E t \in Threads :
                      /\ pc'[t] = "poll" /\ port'[t] = m /\ len'[t] > 0
                      /\ abyAtCmdRespBuf'[len'[t]] = Token(tty'[m][k].id, "data")
  <2>1. tty[m][k].id \in obeyed
    BY <1>4 DEF PortInv
  <2>2. CASE k > 1 /\ tty[m][k - 1] = Token(tty[m][k].id, "data")
    BY <2>1, <2>2
  <2>3. CASE k = 1 /\ \E t \in Threads :
                /\ pc[t] = "poll" /\ port[t] = m /\ len[t] > 0
                /\ abyAtCmdRespBuf[len[t]] = Token(tty[m][k].id, "data")
    <3>1. PICK t \in Threads : /\ pc[t] = "poll" /\ port[t] = m /\ len[t] > 0
                               /\ abyAtCmdRespBuf[len[t]] = Token(tty[m][k].id, "data")
      BY <2>3
    <3>2. pc'[t] = "poll" /\ port'[t] = m /\ len'[t] = len[t] /\ abyAtCmdRespBuf' = abyAtCmdRespBuf
      BY <3>1 DEF Trying
    <3> QED
      BY <2>1, <2>3, <3>1, <3>2
  <2> QED
    BY <1>4, <2>2, <2>3 DEF PortInv
<1> QED
  BY <1>1, <1>2, <1>3, <1>4 DEF PortInv

-----------------------------------------------------------------------------
(* Every step keeps the answers in order *)

\* While t is in an exchange the others have nothing to keep in order but their verdicts.
LEMMA OthersIdle ==
  ASSUME Solo, NEW t \in Threads, pc[t] # "idle", NEW u \in Threads, u # t
  PROVE  pc[u] = "idle"
BY DEF Solo

LEMMA IdleThread ==
  ASSUME NEW u \in Threads, pc'[u] = "idle", ResultInv(u),
         UNCHANGED <<asked, obeyed>>, verdict'[u] = verdict[u], pbyOut'[u] = pbyOut[u]
  PROVE  BufInv(u)' /\ Sent(u)' /\ ResultInv(u)'
BY DEF BufInv, Sent, ResultInv, Trying

\* A step of thread t that keeps each port, its own part and Solo keeps them all.
LEMMA StepOf ==
  ASSUME AnswerInv, NEW t \in Threads, pc[t] # "idle",
         \A u \in Threads : u # t => pc'[u] = pc[u] /\ verdict'[u] = verdict[u] /\ pbyOut'[u] = pbyOut[u],
         pc'[t] # "idle" => verdict'[t] = "none",
         UNCHANGED <<asked, obeyed>>,
         \A m \in Modems : PortInv(m)',
         BufInv(t)', Sent(t)', ResultInv(t)'
  PROVE  AnswerInv'
<1>1. \A u \in Threads : u # t => pc[u] = "idle"
  BY OthersIdle DEF AnswerInv
<1>2. Solo'
  BY <1>1 DEF AnswerInv, Solo
<1>3. ASSUME NEW u \in Threads PROVE BufInv(u)' /\ Sent(u)' /\ ResultInv(u)'
  <2>1. CASE u = t
    BY <2>1
  <2>2. CASE u # t
    <3>1. pc'[u] = "idle" /\ ResultInv(u)
      BY <1>1, <2>2 DEF AnswerInv
    <3> QED
      BY <2>2, <3>1, IdleThread
  <2> QED
    BY <2>1, <2>2
<1> QED
  BY <1>2, <1>3 DEF AnswerInv

\* Such a step when nobody tries a port before or after it, and it leaves the ports alone.
LEMMA PortsBetweenTries ==
  ASSUME TypeInv, AnswerInv, NEW t \in Threads, pc[t] # "idle", ~Trying(t),
         UNCHANGED <<tty, work>>
  PROVE  \A m \in Modems : PortInv(m)'
<1> SUFFICES ASSUME NEW m \in Modems PROVE PortInv(m)'
  OBVIOUS
<1>1. \A u \in Threads : ~Trying(u)
  BY OthersIdle DEF AnswerInv, Trying
<1>2. Quiet(m)
  BY <1>1, NobodyTrying
<1>3. Quiet(m)'
  BY <1>2 DEF Quiet
<1> QED
  BY <1>3, StaysQuiet

LEMMA BeginAnswer ==
  ASSUME Orderly, TypeInv, AnswerInv, NEW t \in Threads, Begin(t)
  PROVE  AnswerInv'
<1>1. \A u \in Threads : pc[u] = "idle"
  BY OrderlyFacts DEF Begin, Idle
<1>2. \A m \in Modems : PortInv(m)'
  <2> SUFFICES ASSUME NEW m \in Modems PROVE PortInv(m)'
    OBVIOUS
  <2>1. Quiet(m)
    BY <1>1, NobodyTrying DEF Trying
  <2>2. Quiet(m)'
    BY <2>1 DEF Quiet, Begin, ports
  <2> QED
    BY <2>2, StaysQuiet
<1>3. /\ \A u \in Threads : u # t => /\ pc'[u] = "idle" /\ asked'[u] = asked[u]
                                     /\ verdict'[u] = verdict[u] /\ pbyOut'[u] = pbyOut[u]
      /\ pc'[t] = "send" /\ verdict'[t] = "none"
  BY <1>1 DEF Begin, TypeInv, TypeOK
<1>4. Solo'
  BY <1>3 DEF Solo
<1>5. ASSUME NEW u \in Threads PROVE BufInv(u)' /\ Sent(u)' /\ ResultInv(u)'
  <2>1. CASE u = t
    BY <1>3, <2>1 DEF BufInv, Sent, ResultInv, Trying
  <2>2. CASE u # t
    BY <1>3, <2>2 DEF AnswerInv, BufInv, Sent, ResultInv, Trying
  <2> QED
    BY <2>1, <2>2
<1> QED
  BY <1>2, <1>4, <1>5 DEF AnswerInv

LEMMA SendAnswer ==
  ASSUME TypeInv, AnswerInv, NEW t \in Threads, Send(t)
  PROVE  AnswerInv'
<1>0. pc[t] = "send" /\ ~Trying(t) /\ port[t] \in Modems /\ UNCHANGED <<asked, obeyed, pbyOut, port, tty>>
  BY ThreadTypes DEF Send, Trying
<1>1. CASE /\ work' = [work EXCEPT ![port[t]] = Append(@, asked[t])]
           /\ pc' = [pc EXCEPT ![t] = "clear"]
           /\ UNCHANGED <<verdict, refused>>
  <2>1. pc'[t] = "clear" /\ (\A u \in Threads : u # t => pc'[u] = pc[u])
    BY <1>1 DEF TypeInv, TypeOK
  <2>2. \A u \in Threads : ~Trying(u)
    BY <1>0, OthersIdle DEF AnswerInv, Trying
  <2>3. ASSUME NEW m \in Modems PROVE PortInv(m)'
    <3>1. Quiet(m)
      BY <2>2, NobodyTrying
    <3>2. CASE m = port[t]
      <4>1. work'[m] = <<asked[t]>>
        BY <1>0, <1>1, <3>1, <3>2 DEF Quiet, TypeInv, TypeOK
      <4>2. Trying(t)' /\ port'[t] = m
        BY <1>0, <2>1, <3>2 DEF Trying
      <4>3. Len(work'[m]) <= 1 /\ work'[m][1] = asked'[t]
        BY <1>0, <4>1
      <4>4. \A k \in 1 .. Len(tty'[m]) : tty'[m][k].word = "SYSSTART"
        BY <1>0, <3>1 DEF Quiet
      <4> QED
        BY <4>2, <4>3, <4>4 DEF PortInv, Last
    <3>3. CASE m # port[t]
      <4>1. Quiet(m)'
        BY <1>0, <1>1, <3>1, <3>3 DEF Quiet, TypeInv, TypeOK
      <4> QED
        BY <4>1, StaysQuiet
    <3> QED
      BY <3>2, <3>3
  <2>4. work'[port[t]] # <<>>
    BY <1>0, <1>1 DEF TypeInv, TypeOK
  <2>5. Sent(t)' /\ BufInv(t)'
    BY <1>0, <2>1, <2>4 DEF Sent, BufInv
  <2>6. verdict[t] = "none"
    BY <1>0 DEF AnswerInv, Solo
  <2>7. ResultInv(t)'
    BY <1>1, <2>1, <2>6 DEF ResultInv
  <2> QED
    BY <1>0, <1>1, <2>1, <2>3, <2>5, <2>6, <2>7, StepOf
<1>2. CASE Continue(t, tryCount'[t]) /\ UNCHANGED work
  <2>1. /\ pc'[t] \in {"send", "idle"} /\ (\A u \in Threads : u # t => pc'[u] = pc[u])
        /\ pc'[t] = "send" => verdict' = verdict
        /\ pc'[t] = "idle" => verdict'[t] = "FAILED"
        /\ \A u \in Threads : u # t => verdict'[u] = verdict[u]
    BY <1>2 DEF Continue, Finish, TypeInv, TypeOK
  <2>2. verdict[t] = "none"
    BY <1>0 DEF AnswerInv, Solo
  <2>3. BufInv(t)' /\ Sent(t)' /\ ResultInv(t)'
    BY <2>1, <2>2 DEF BufInv, Sent, ResultInv, Trying
  <2>4. \A m \in Modems : PortInv(m)'
    BY <1>0, <1>2, PortsBetweenTries
  <2> QED
    BY <1>0, <2>1, <2>2, <2>3, <2>4, StepOf
<1> QED
  BY <1>1, <1>2 DEF Send

LEMMA ClearAnswer ==
  ASSUME TypeInv, AnswerInv, NEW t \in Threads, Clear(t)
  PROVE  AnswerInv'
<1>0. /\ pc[t] = "clear" /\ pc'[t] = "wait" /\ (\A u \in Threads : u # t => pc'[u] = pc[u])
      /\ UNCHANGED <<asked, obeyed, pbyOut, verdict, port, tty, work, len>>
      /\ abyAtCmdRespBuf' = Cleared
  BY DEF Clear, TypeInv, TypeOK, ports, history
<1>1. \A u \in Threads : Trying(u) => u = t
  BY <1>0, OthersIdle DEF AnswerInv, Trying
<1>2. ASSUME NEW m \in Modems PROVE PortInv(m)'
  <2>1. PortInv(m)
    BY DEF AnswerInv
  <2>2. Trying(t)'
    BY <1>0 DEF Trying
  <2> QED
    BY <1>0, <1>1, <2>1, <2>2, PortKept
<1>3. BufInv(t)' /\ ResultInv(t)' /\ verdict[t] = "none"
  BY <1>0 DEF BufInv, ResultInv, AnswerInv, Solo
<1>4. Sent(t)
  BY DEF AnswerInv
<1>5. Sent(t)'
  BY <1>0, <1>4 DEF Sent, Trying
<1> QED
  BY <1>0, <1>2, <1>3, <1>5, StepOf

LEMMA WaitAnswer ==
  ASSUME TypeInv, AnswerInv, NEW t \in Threads, Wait(t)
  PROVE  AnswerInv'
<1>0. /\ pc[t] = "wait" /\ pc'[t] = "poll" /\ (\A u \in Threads : u # t => pc'[u] = pc[u])
      /\ UNCHANGED <<asked, obeyed, pbyOut, verdict, port, tty, work, abyAtCmdRespBuf>>
      /\ len'[t] = 0
  BY DEF Wait, TypeInv, TypeOK, ports, history
<1>1. \A u \in Threads : Trying(u) => u = t
  BY <1>0, OthersIdle DEF AnswerInv, Trying
<1>2. ASSUME NEW m \in Modems PROVE PortInv(m)'
  <2>1. PortInv(m)
    BY DEF AnswerInv
  <2>2. Trying(t)'
    BY <1>0 DEF Trying
  <2> QED
    BY <1>0, <1>1, <2>1, <2>2, PortKept
<1>3. ResultInv(t)' /\ verdict[t] = "none"
  BY <1>0 DEF ResultInv, AnswerInv, Solo
<1>4. Sent(t) /\ BufInv(t)
  BY DEF AnswerInv
<1>5. Sent(t)'
  BY <1>0, <1>4 DEF Sent, Trying
<1>6. abyAtCmdRespBuf' = Cleared
  BY <1>0, <1>4 DEF BufInv
<1>7. BufInv(t)'
  BY <1>0, <1>6 DEF BufInv, Cleared
<1> QED
  BY <1>0, <1>2, <1>3, <1>5, <1>7, StepOf

\* Once the answer is read, the ports are quiet and the buffer is left alone.
LEMMA RestartedAnswer ==
  ASSUME TypeInv, AnswerInv, NEW t \in Threads, Restarted(t)
  PROVE  AnswerInv'
<1>0. /\ pc[t] = "restart" /\ ~Trying(t) /\ pc'[t] \in {"copy", "send", "idle"}
      /\ \A u \in Threads : u # t => pc'[u] = pc[u] /\ verdict'[u] = verdict[u]
      /\ UNCHANGED <<asked, obeyed, pbyOut, port, tty, work, len, abyAtCmdRespBuf>>
      /\ pc'[t] # "idle" => verdict'[t] = verdict[t]
      /\ pc'[t] = "idle" => verdict'[t] = "FAILED"
      /\ pc'[t] = "copy" => ~(len[t] = 0 \/ Holds(abyAtCmdRespBuf, "SYSSTART"))
  BY DEF Restarted, Continue, Finish, TypeInv, TypeOK, ports, history, Trying
<1>1. \A m \in Modems : PortInv(m)'
  BY <1>0, PortsBetweenTries
<1>2. ResultInv(t) /\ verdict[t] = "none"
  BY <1>0 DEF AnswerInv, Solo
<1>3. pc'[t] = "copy" => Answered(t)'
  BY <1>0, <1>2 DEF ResultInv, Answered
<1>4. BufInv(t)' /\ Sent(t)' /\ ResultInv(t)'
  BY <1>0, <1>2, <1>3 DEF BufInv, Sent, ResultInv, Trying
<1> QED
  BY <1>0, <1>1, <1>2, <1>4, StepOf

LEMMA CopyAnswer ==
  ASSUME TypeInv, AnswerInv, NEW t \in Threads, Copy(t)
  PROVE  AnswerInv'
<1>0. /\ pc[t] = "copy" /\ ~Trying(t) /\ pc'[t] = "match"
      /\ \A u \in Threads : u # t => pc'[u] = pc[u] /\ pbyOut'[u] = pbyOut[u]
      /\ UNCHANGED <<asked, obeyed, verdict, port, tty, work, len, abyAtCmdRespBuf>>
      /\ pbyOut'[t] = SubSeq(abyAtCmdRespBuf, 1, len[t])
  BY DEF Copy, TypeInv, TypeOK, ports, history, Trying
<1>1. \A m \in Modems : PortInv(m)'
  BY <1>0, PortsBetweenTries
<1>2. Answered(t) /\ verdict[t] = "none"
  BY <1>0 DEF AnswerInv, Solo, ResultInv
<1>3. pbyOut'[t] = <<Token(asked[t], "data"), Token(asked[t], "OK")>>
  <2>1. abyAtCmdRespBuf \in [1 .. BufLen + 1 -> Tokens] /\ BufLen + 1 \in Nat
    BY Bounds DEF TypeInv, TypeOK, Slots
  <2>2. abyAtCmdRespBuf \in Seq(Tokens)
    BY <2>1
  <2>3. SubSeq(abyAtCmdRespBuf, 1, 2) = <<abyAtCmdRespBuf[1], abyAtCmdRespBuf[2]>>
    <3> DEFINE read == SubSeq(abyAtCmdRespBuf, 1, 2)
    <3>1. \A k \in 1 .. 2 : abyAtCmdRespBuf[k] \in Tokens
      BY <2>1, Bounds
    <3>2. read \in Seq(Tokens) /\ Len(read) = 2
      BY <3>1, SubSeqProperties
    <3>3. read[1] = abyAtCmdRespBuf[1] /\ read[2] = abyAtCmdRespBuf[2]
      BY <3>1, SubSeqProperties
    <3>4. <<abyAtCmdRespBuf[1], abyAtCmdRespBuf[2]>> \in Seq(Tokens)
      BY <3>1
    <3> HIDE DEF read
    <3>5. read = <<abyAtCmdRespBuf[1], abyAtCmdRespBuf[2]>>
      BY <3>2, <3>3, <3>4, SeqEqual
    <3> QED
      BY <3>5 DEF read
  <2> QED
    BY <1>0, <1>2, <2>3 DEF Answered
<1>4. BufInv(t)' /\ Sent(t)' /\ ResultInv(t)'
  <2>1. Answered(t)'
    BY <1>0, <1>2 DEF Answered
  <2> QED
    BY <1>0, <1>3, <2>1 DEF BufInv, Sent, ResultInv, Trying
<1> QED
  BY <1>0, <1>1, <1>2, <1>4, StepOf

\* A buffer that holds the answer holds an OK.
LEMMA AnswerFound ==
  ASSUME NEW t \in Threads, Answered(t)
  PROVE  Holds(abyAtCmdRespBuf, "OK")
<1>1. 2 \in Slots /\ abyAtCmdRespBuf[2].word = "OK"
  BY Bounds DEF Answered, Slots, Token
<1>2. \A j \in 1 .. 2 : abyAtCmdRespBuf[j] # Zero
  BY DEF Answered, Token, Zero
<1> QED
  BY <1>1, <1>2 DEF Holds

LEMMA MatchAnswer ==
  ASSUME TypeInv, AnswerInv, Orderly, NEW t \in Threads, Match(t)
  PROVE  AnswerInv' /\ Answered(t) /\ verdict'[t] = "OK"
<1>1. pc[t] = "match" /\ ~Trying(t)
  BY DEF Match, Trying
<1>2. Answered(t) /\ ResultInv(t) /\ pbyOut[t] = <<Token(asked[t], "data"), Token(asked[t], "OK")>>
  BY <1>1 DEF AnswerInv, ResultInv
<1>3. Found(abyAtCmdRespBuf, okResp[t])
  BY <1>2, AnswerFound, OrderlyFacts, ThreadTypes DEF Found
<1>4. /\ pc'[t] = "idle" /\ verdict'[t] = "OK"
      /\ \A u \in Threads : u # t => pc'[u] = pc[u] /\ verdict'[u] = verdict[u]
      /\ UNCHANGED <<asked, obeyed, pbyOut, port, tty, work, len, abyAtCmdRespBuf>>
  BY <1>3 DEF Match, Finish, TypeInv, TypeOK, ports, history
<1>5. \A m \in Modems : PortInv(m)'
  BY <1>1, <1>4, PortsBetweenTries
<1>6. BufInv(t)' /\ Sent(t)' /\ ResultInv(t)'
  BY <1>2, <1>4 DEF BufInv, Sent, ResultInv, Trying
<1> QED
  BY <1>1, <1>2, <1>4, <1>5, <1>6, StepOf

-----------------------------------------------------------------------------
(* The modems *)

\* A step of modem m: it leaves the other ports and every thread alone.
LEMMA StepOfModem ==
  ASSUME TypeInv, AnswerInv, NEW m \in Modems, UNCHANGED <<threads, abyAtCmdRespBuf>>,
         obeyed \subseteq obeyed',
         \A d \in Modems : d # m => tty'[d] = tty[d] /\ work'[d] = work[d],
         PortInv(m)',
         \E s : tty'[m] = tty[m] \o s /\ s \in Seq(Tokens),
         \A t \in Threads : port[t] = m => Sent(t)'
  PROVE  AnswerInv'
<1>1. ASSUME NEW d \in Modems PROVE PortInv(d)'
  <2>1. CASE d # m
    <3>1. PortInv(d) /\ tty'[d] = tty[d] /\ work'[d] = work[d]
      BY <2>1 DEF AnswerInv
    <3> QED
      BY <3>1, PortKept DEF threads, Trying
  <2> QED
    BY <2>1
<1>2. Solo'
  BY DEF AnswerInv, Solo, threads
<1>3. ASSUME NEW t \in Threads PROVE BufInv(t)' /\ Sent(t)' /\ ResultInv(t)'
  <2>1. BufInv(t) /\ Sent(t) /\ ResultInv(t) /\ port[t] \in Modems
    BY ThreadTypes DEF AnswerInv
  <2>2. ResultInv(t)'
    BY <2>1 DEF ResultInv, Answered, threads
  <2>3. Sent(t)'
    <3>1. CASE port[t] # m
      BY <2>1, <3>1 DEF Sent, Trying, BufRestarts, threads
    <3> QED
      BY <3>1
  <2>4. tty[port[t]] # <<>> => tty'[port[t]] # <<>> /\ tty'[port[t]][1] = tty[port[t]][1]
    <3>1. CASE port[t] = m
      <4>1. PICK s \in Seq(Tokens) : tty'[m] = tty[m] \o s
        OBVIOUS
      <4>2. tty[m] \in Seq(Tokens)
        BY PortTypes
      <4> QED
        BY <3>1, <4>1, <4>2
    <3>2. CASE port[t] # m
      BY <2>1, <3>2
    <3> QED
      BY <3>1, <3>2
  <2>5. BufInv(t)'
    BY <2>1, <2>4 DEF BufInv, threads
  <2> QED
    BY <2>2, <2>3, <2>5
<1> QED
  BY <1>1, <1>2, <1>3 DEF AnswerInv

LEMMA RestartAnswer ==
  ASSUME TypeInv, AnswerInv, NEW m \in Modems, Restart(m)
  PROVE  AnswerInv'
<1> DEFINE up == Token(0, "SYSSTART")
<1>0. /\ UNCHANGED <<threads, abyAtCmdRespBuf, obeyed>>
      /\ tty'[m] = Append(tty[m], up) /\ work'[m] = <<>>
      /\ \A d \in Modems : d # m => tty'[d] = tty[d] /\ work'[d] = work[d]
  BY DEF Restart, TypeInv, TypeOK
<1>1. tty[m] \in Seq(Tokens) /\ Len(tty[m]) \in Nat
  BY PortTypes
<1>2. /\ Len(tty'[m]) = Len(tty[m]) + 1
      /\ \A k \in 1 .. Len(tty[m]) : tty'[m][k] = tty[m][k]
      /\ tty'[m][Len(tty[m]) + 1] = up
  BY <1>0, <1>1
<1>3. up.word = "SYSSTART" /\ up \in Tokens
  BY TokenTypes DEF Token
<1>4. PortInv(m)'
  <2>1. PortInv(m)
    BY DEF AnswerInv
  <2>2. ASSUME NEW k \in 1 .. Len(tty'[m])
        PROVE  /\ tty'[m][k].word # "zero"
               /\ tty'[m][k].word \in Last =>
                    /\ \A j \in 1 .. Len(tty'[m]) : tty'[m][j].word \in Last => j = k
                    /\ \E t \in Threads : Trying(t)' /\ port'[t] = m /\ tty'[m][k].id = asked'[t]
               /\ tty'[m][k].word = "data" =>
                    k < Len(tty'[m]) /\ tty'[m][k + 1] = Token(tty'[m][k].id, "OK")
               /\ tty'[m][k].word = "OK" =>
                    /\ tty'[m][k].id \in obeyed'
                    /\ \/ k > 1 /\ tty'[m][k - 1] = Token(tty'[m][k].id, "data")
                       \/ k = 1 /\ \E t \in Threads :
                             /\ pc'[t] = "poll" /\ port'[t] = m /\ len'[t] > 0
                             /\ abyAtCmdRespBuf'[len'[t]] = Token(tty'[m][k].id, "data")
    <3>1. CASE k = Len(tty[m]) + 1
      BY <1>2, <1>3, <3>1 DEF Last
    <3>2. CASE k # Len(tty[m]) + 1
      <4>1. k \in 1 .. Len(tty[m]) /\ tty'[m][k] = tty[m][k]
        BY <1>1, <1>2, <3>2
      <4>2. k > 1 => k - 1 \in 1 .. Len(tty[m])
        BY <1>1, <4>1
      <4>3. k < Len(tty[m]) => k + 1 \in 1 .. Len(tty[m])
        BY <1>1, <4>1
      <4>4. tty[m][k].word # "zero"
        BY <2>1, <4>1 DEF PortInv
      <4>5. tty[m][k].word \in Last => \E t \in Threads : Trying(t) /\ port[t] = m /\ tty[m][k].id = asked[t]
        BY <2>1, <4>1 DEF PortInv
      <4>6. tty[m][k].word \in Last => \A j \in 1 .. Len(tty'[m]) : tty'[m][j].word \in Last => j = k
        <5> SUFFICES ASSUME tty[m][k].word \in Last, NEW j \in 1 .. Len(tty'[m]), tty'[m][j].word \in Last
                     PROVE  j = k
          OBVIOUS
        <5>1. j # Len(tty[m]) + 1
          BY <1>2, <1>3 DEF Last
        <5>2. j \in 1 .. Len(tty[m]) /\ tty[m][j].word \in Last
          BY <1>1, <1>2, <5>1
        <5> QED
          BY <2>1, <4>1, <5>2 DEF PortInv
      <4>7. tty[m][k].word = "data" => k < Len(tty[m]) /\ tty[m][k + 1] = Token(tty[m][k].id, "OK")
        BY <2>1, <4>1 DEF PortInv
      <4>8. tty[m][k].word = "OK" =>
              /\ tty[m][k].id \in obeyed
              /\ \/ k > 1 /\ tty[m][k - 1] = Token(tty[m][k].id, "data")
                 \/ k = 1 /\ \E t \in Threads :
                       /\ pc[t] = "poll" /\ port[t] = m /\ len[t] > 0
                       /\ abyAtCmdRespBuf[len[t]] = Token(tty[m][k].id, "data")
        BY <2>1, <4>1 DEF PortInv
      <4>9. tty'[m][k].word = "data" =>
              k < Len(tty'[m]) /\ tty'[m][k + 1] = Token(tty'[m][k].id, "OK")
        BY <1>1, <1>2, <4>1, <4>3, <4>7
      <4>10. k > 1 => tty'[m][k - 1] = tty[m][k - 1]
        BY <1>2, <4>2
      <4> QED
        BY <1>0, <4>1, <4>4, <4>5, <4>6, <4>8, <4>9, <4>10 DEF Trying, threads
    <3> QED
      BY <3>1, <3>2
  <2>3. work'[m] = <<>> /\ Len(work'[m]) <= 1
    BY <1>0
  <2> HIDE DEF up
  <2> QED
    BY <2>2, <2>3, Zenon DEF PortInv
<1>5. \E s : tty'[m] = tty[m] \o s /\ s \in Seq(Tokens)
  <2>1. Append(tty[m], up) = tty[m] \o <<up>> /\ <<up>> \in Seq(Tokens)
    BY <1>1, <1>3
  <2> QED
    BY <1>0, <2>1
<1>6. ASSUME NEW t \in Threads, port[t] = m PROVE Sent(t)'
  <2>1. port'[t] = m
    BY <1>0, <1>6 DEF threads
  <2>2. Len(tty[m]) + 1 \in 1 .. Len(tty'[m])
    BY <1>1, <1>2
  <2> QED
    BY <1>2, <1>3, <2>1, <2>2 DEF Sent
<1> QED
  BY <1>0, <1>4, <1>5, <1>6, StepOfModem

LEMMA AnswerAnswer ==
  ASSUME TypeInv, AnswerInv, NEW m \in Modems, Answer(m)
  PROVE  AnswerInv'
<1> DEFINE id == Head(work[m])
           n  == Len(tty[m])
<1>0. /\ UNCHANGED <<threads, abyAtCmdRespBuf>> /\ obeyed \subseteq obeyed'
      /\ work[m] # <<>> /\ work'[m] = Tail(work[m])
      /\ \A d \in Modems : d # m => tty'[d] = tty[d] /\ work'[d] = work[d]
      /\ \/ tty'[m] = tty[m] \o <<Token(id, "data"), Token(id, "OK")>> /\ id \in obeyed'
         \/ tty'[m] = Append(tty[m], Token(id, "ERROR"))
  BY SMTT(30) DEF Answer, TypeInv, TypeOK
<1>1. tty[m] \in Seq(Tokens) /\ n \in Nat /\ work[m] \in Seq(1 .. MaxExchanges) /\ PortInv(m)
  BY PortTypes DEF AnswerInv
<1>2. id = work[m][1] /\ Len(work[m]) = 1 /\ id \in 1 .. MaxExchanges
  <2>1. Len(work[m]) <= 1
    BY <1>1 DEF PortInv
  <2> QED
    BY <1>0, <1>1, <2>1, OneElement
<1>3. work'[m] = <<>>
  <2>1. Len(work[m]) <= 1
    BY <1>1 DEF PortInv
  <2> QED
    BY <1>0, <1>1, <2>1, OneElement
<1>4. PICK t \in Threads : Trying(t) /\ port[t] = m /\ id = asked[t]
  BY <1>0, <1>1, <1>2 DEF PortInv
<1>5. Trying(t)' /\ port'[t] = m /\ id = asked'[t]
  BY <1>0, <1>4 DEF Trying, threads
<1>6. \A k \in 1 .. n : tty[m][k].word = "SYSSTART"
  <2> SUFFICES ASSUME NEW k \in 1 .. n PROVE tty[m][k].word = "SYSSTART"
    OBVIOUS
  <2>1. tty[m][k].word \notin Last /\ tty[m][k].word # "zero" /\ tty[m][k].word \in Words
    BY <1>0, <1>1, PortTypes DEF PortInv, Tokens
  <2>2. tty[m][k].word # "data"
    <3> SUFFICES ASSUME tty[m][k].word = "data" PROVE FALSE
      OBVIOUS
    <3>1. k < n /\ tty[m][k + 1] = Token(tty[m][k].id, "OK")
      BY <1>1 DEF PortInv
    <3>2. k + 1 \in 1 .. n /\ tty[m][k + 1].word = "OK"
      BY <1>1, <3>1 DEF Token
    <3> QED
      BY <1>0, <1>1, <3>2 DEF PortInv, Last
  <2> QED
    BY <2>1, <2>2 DEF Words, Last
<1>7. \A w \in Words : Token(id, w) \in Tokens /\ Token(id, w).id = id /\ Token(id, w).word = w
  BY <1>2, TokenTypes DEF Token
<1> HIDE DEF id
<1>8. CASE tty'[m] = tty[m] \o <<Token(id, "data"), Token(id, "OK")>> /\ id \in obeyed'
  <2> DEFINE pair == <<Token(id, "data"), Token(id, "OK")>>
  <2>1. pair \in Seq(Tokens) /\ Len(pair) = 2
    BY <1>7 DEF Words
  <2>2. /\ Len(tty'[m]) = n + 2
        /\ \A k \in 1 .. n : tty'[m][k] = tty[m][k]
        /\ tty'[m][n + 1] = Token(id, "data") /\ tty'[m][n + 2] = Token(id, "OK")
    BY <1>1, <1>8, <2>1
  <2>3. /\ \A k \in 1 .. n : tty'[m][k].word = "SYSSTART"
        /\ tty'[m][n + 1].word = "data" /\ tty'[m][n + 1].id = id
        /\ tty'[m][n + 2].word = "OK" /\ tty'[m][n + 2].id = id
    BY <1>6, <1>7, <2>2 DEF Words
  <2>4. \A k \in 1 .. Len(tty'[m]) : k \in 1 .. n \/ k = n + 1 \/ k = n + 2
    BY <1>1, <2>2
  <2>5. PortInv(m)'
    <3>1. ASSUME NEW k \in 1 .. Len(tty'[m]), tty'[m][k].word \in Last PROVE k = n + 2
      BY <2>3, <2>4, <3>1 DEF Last
    <3>2. ASSUME NEW k \in 1 .. Len(tty'[m]), tty'[m][k].word = "data" PROVE k = n + 1
      BY <2>3, <2>4, <3>2
    <3>3. ASSUME NEW k \in 1 .. Len(tty'[m]) PROVE tty'[m][k].word # "zero"
      BY <2>3, <2>4, <3>3
    <3>4. n + 1 < Len(tty'[m]) /\ n + 1 + 1 = n + 2 /\ n + 2 > 1 /\ n + 2 - 1 = n + 1
      BY <1>1, <2>2
    <3>5. Len(work'[m]) <= 1
      BY <1>3
    <3>6. ASSUME NEW k \in 1 .. Len(tty'[m]), tty'[m][k].word \in Last
          PROVE  /\ \A j \in 1 .. Len(tty'[m]) : tty'[m][j].word \in Last => j = k
                 /\ tty'[m][k].id = asked'[t]
      BY <1>5, <2>3, <3>1, <3>6
    <3>7. ASSUME NEW k \in 1 .. Len(tty'[m]), tty'[m][k].word = "data"
          PROVE  k < Len(tty'[m]) /\ tty'[m][k + 1] = Token(tty'[m][k].id, "OK")
      BY <2>2, <2>3, <3>2, <3>4, <3>7
    <3>8. ASSUME NEW k \in 1 .. Len(tty'[m]), tty'[m][k].word = "OK"
          PROVE  /\ tty'[m][k].id \in obeyed' /\ k > 1
                 /\ tty'[m][k - 1] = Token(tty'[m][k].id, "data")
      <4>1. k = n + 2
        BY <3>1, <3>8 DEF Last
      <4> QED
        BY <1>8, <2>2, <2>3, <3>4, <4>1
    <3> QED
      BY <1>3, <1>5, <3>3, <3>5, <3>6, <3>7, <3>8 DEF PortInv
  <2>6. \E s : tty'[m] = tty[m] \o s /\ s \in Seq(Tokens)
    BY <1>8, <2>1
  <2>7. ASSUME NEW u \in Threads, port[u] = m PROVE Sent(u)'
    <3>1. n + 2 \in 1 .. Len(tty'[m]) /\ port'[u] = m
      BY <1>0, <1>1, <2>2, <2>7 DEF threads
    <3> QED
      BY <2>3, <3>1 DEF Sent, Last
  <2> QED
    BY <1>0, <2>5, <2>6, <2>7, StepOfModem
<1>9. CASE tty'[m] = Append(tty[m], Token(id, "ERROR"))
  <2>1. Token(id, "ERROR") \in Tokens
    BY <1>7 DEF Words
  <2>2. /\ Len(tty'[m]) = n + 1
        /\ \A k \in 1 .. n : tty'[m][k] = tty[m][k]
        /\ tty'[m][n + 1] = Token(id, "ERROR")
    BY <1>1, <1>9
  <2>3. /\ \A k \in 1 .. n : tty'[m][k].word = "SYSSTART"
        /\ tty'[m][n + 1].word = "ERROR" /\ tty'[m][n + 1].id = id
    BY <1>6, <1>7, <2>2 DEF Words
  <2>4. \A k \in 1 .. Len(tty'[m]) : k \in 1 .. n \/ k = n + 1
    BY <1>1, <2>2
  <2>5. PortInv(m)'
    <3>1. ASSUME NEW k \in 1 .. Len(tty'[m]) PROVE k = n + 1 \/ tty'[m][k].word = "SYSSTART"
      BY <2>3, <2>4, <3>1
    <3>2. Len(work'[m]) <= 1
      BY <1>3
    <3> QED
      BY <1>3, <1>5, <2>3, <3>1, <3>2 DEF PortInv, Last
  <2>6. \E s : tty'[m] = tty[m] \o s /\ s \in Seq(Tokens)
    <3> DEFINE error == Token(id, "ERROR")
    <3> HIDE DEF error
    <3>1. Append(tty[m], error) = tty[m] \o <<error>> /\ <<error>> \in Seq(Tokens)
      <4>1. error \in Tokens
        BY <2>1 DEF error
      <4>2. tty[m] \in Seq(Tokens)
        BY <1>1
      <4> QED
        BY <4>1, <4>2, AppendOne, Zenon
    <3>2. tty'[m] = Append(tty[m], error)
      BY <1>9 DEF error
    <3> QED
      BY <3>1, <3>2, Zenon
  <2>7. ASSUME NEW u \in Threads, port[u] = m PROVE Sent(u)'
    <3>1. n + 1 \in 1 .. Len(tty'[m]) /\ port'[u] = m
      BY <1>0, <1>1, <2>2, <2>7 DEF threads
    <3> QED
      BY <2>3, <3>1 DEF Sent, Last
  <2> QED
    BY <1>0, <2>5, <2>6, <2>7, StepOfModem
<1> QED
  BY <1>0, <1>8, <1>9 DEF id

-----------------------------------------------------------------------------
(* A read of the port *)

\* The buffer after a read of n tokens, and whether they end an answer.
Read(t, n) == Stored(abyAtCmdRespBuf, len[t], SubSeq(tty[port[t]], 1, n))
Ended(t, n) == \E k \in 1 .. n : tty[port[t]][k].word \in Last

\* A word that ends no answer announces a restart or is followed by the OK of its answer.
LEMMA BeforeLast ==
  ASSUME TypeInv, NEW m \in Modems, PortInv(m), NEW k \in 1 .. Len(tty[m]), tty[m][k].word \notin Last,
         tty[m][k].word # "SYSSTART"
  PROVE  /\ tty[m][k].word = "data" /\ k + 1 \in 1 .. Len(tty[m])
         /\ tty[m][k + 1] = Token(tty[m][k].id, "OK") /\ tty[m][k + 1].word \in Last
<1>1. tty[m][k].word = "data"
  BY PortTypes DEF PortInv, Tokens, Words, Last
<1>2. k < Len(tty[m]) /\ tty[m][k + 1] = Token(tty[m][k].id, "OK")
  BY <1>1 DEF PortInv
<1>3. k + 1 \in 1 .. Len(tty[m])
  BY <1>2, PortTypes
<1> QED
  BY <1>1, <1>2, <1>3 DEF Token, Last

\* What the buffer holds after a read.
LEMMA ReadText ==
  ASSUME TypeInv, AnswerInv, NEW t \in Threads, pc[t] = "poll",
         NEW n \in 0 .. Len(tty[port[t]]), len[t] + n <= BufLen
  PROVE  /\ \A k \in 1 .. len[t] : k \in Slots /\ Read(t, n)[k] = abyAtCmdRespBuf[k]
         /\ \A k \in 1 .. n : len[t] + k \in Slots /\ Read(t, n)[len[t] + k] = tty[port[t]][k]
         /\ \A k \in Slots : k > len[t] + n => Read(t, n)[k] = Zero
         /\ \A k \in 1 .. len[t] + n : k \in Slots /\ Read(t, n)[k] # Zero
<1> DEFINE s     == tty[port[t]]
           chunk == SubSeq(s, 1, n)
<1>0. port[t] \in Modems /\ len[t] \in Nat /\ BufLen \in Nat
  BY ThreadTypes, Bounds
<1>1. s \in Seq(Tokens) /\ Len(s) \in Nat /\ n \in Nat /\ PortInv(port[t]) /\ BufInv(t)
  BY <1>0, PortTypes DEF AnswerInv
<1>2. Len(chunk) = n /\ \A k \in 1 .. n : chunk[k] = s[k]
  BY <1>1, SubSeqProperties
<1>3. Slots = 1 .. BufLen + 1
  BY DEF Slots
<1>4. \A k \in Slots :
        Read(t, n)[k] = IF k \in len[t] + 1 .. len[t] + n THEN chunk[k - len[t]] ELSE abyAtCmdRespBuf[k]
  BY <1>2 DEF Read, Stored
<1> HIDE DEF chunk
<1>5. \A k \in 1 .. len[t] : k \in Slots /\ Read(t, n)[k] = abyAtCmdRespBuf[k]
  BY <1>0, <1>1, <1>3, <1>4
<1>6. \A k \in 1 .. n : len[t] + k \in Slots /\ Read(t, n)[len[t] + k] = s[k]
  <2> SUFFICES ASSUME NEW k \in 1 .. n PROVE len[t] + k \in Slots /\ Read(t, n)[len[t] + k] = s[k]
    OBVIOUS
  <2> DEFINE at == len[t] + k
  <2>1. at \in Slots /\ at \in len[t] + 1 .. len[t] + n /\ at - len[t] = k
    BY <1>0, <1>1, <1>3
  <2> HIDE DEF at
  <2>2. Read(t, n)[at] = chunk[at - len[t]]
    BY <1>4, <2>1
  <2>3. at \in Slots /\ Read(t, n)[at] = s[k]
    BY <1>2, <2>1, <2>2
  <2> QED
    BY <2>3 DEF at
<1>7. ASSUME NEW k \in Slots, k > len[t] + n PROVE Read(t, n)[k] = Zero
  <2>1. k \notin len[t] + 1 .. len[t] + n /\ k > len[t]
    BY <1>0, <1>1, <1>3, <1>7
  <2>2. abyAtCmdRespBuf[k] = Zero
    BY <1>1, <2>1 DEF BufInv
  <2> QED
    BY <1>4, <2>1, <2>2
<1>8. ASSUME NEW k \in 1 .. len[t] + n PROVE k \in Slots /\ Read(t, n)[k] # Zero
  <2>1. CASE k \in 1 .. len[t]
    <3>1. abyAtCmdRespBuf[k].word \in {"data", "SYSSTART"}
      BY <1>1, <2>1 DEF BufInv
    <3> QED
      BY <1>5, <2>1, <3>1 DEF Zero, Token
  <2>2. CASE k \notin 1 .. len[t]
    <3>1. k - len[t] \in 1 .. n /\ k - len[t] \in 1 .. Len(s) /\ k = len[t] + (k - len[t])
      BY <1>0, <1>1, <2>2
    <3>2. k \in Slots /\ Read(t, n)[k] = s[k - len[t]]
      BY <1>6, <3>1
    <3>3. s[k - len[t]].word # "zero"
      BY <1>1, <3>1 DEF PortInv
    <3> QED
      BY <3>2, <3>3 DEF Zero, Token
  <2> QED
    BY <2>1, <2>2
<1> QED
  BY <1>5, <1>6, <1>7, <1>8

\* strstr finds a word where it was put.
LEMMA ReadHolds ==
  ASSUME TypeInv, AnswerInv, NEW t \in Threads, pc[t] = "poll",
         NEW n \in 0 .. Len(tty[port[t]]), len[t] + n <= BufLen
  PROVE  /\ \A w \in Last : Holds(Read(t, n), w) <=> \E k \in 1 .. n : tty[port[t]][k].word = w
         /\ \A k \in 1 .. n : tty[port[t]][k].word = "SYSSTART" => Holds(Read(t, n), "SYSSTART")
         /\ \A k \in 1 .. len[t] : abyAtCmdRespBuf[k].word = "SYSSTART" => Holds(Read(t, n), "SYSSTART")
         /\ Holds(Read(t, n), "SYSSTART") /\ BufRestarts(t) = {}
              => \E k \in 1 .. n : tty[port[t]][k].word = "SYSSTART"
<1>0. len[t] \in Nat /\ n \in Nat /\ Slots = 1 .. BufLen + 1 /\ BufLen \in Nat
  BY ThreadTypes, PortTypes, Bounds DEF Slots
<1>1. BufInv(t)
  BY DEF AnswerInv
<1>2. ASSUME NEW k \in 1 .. len[t] + n PROVE Holds(Read(t, n), Read(t, n)[k].word)
  <2>1. \A j \in 1 .. k : j \in 1 .. len[t] + n
    BY <1>0
  <2> QED
    BY <2>1, ReadText DEF Holds
<1>3. \A k \in 1 .. n : len[t] + k \in 1 .. len[t] + n
  BY <1>0
<1>4. \A k \in 1 .. len[t] : k \in 1 .. len[t] + n
  BY <1>0
<1>5. ASSUME NEW k \in 1 .. n PROVE Holds(Read(t, n), tty[port[t]][k].word)
  BY <1>2, <1>3, ReadText
<1>6. ASSUME NEW k \in 1 .. len[t] PROVE Holds(Read(t, n), abyAtCmdRespBuf[k].word)
  BY <1>2, <1>4, ReadText
<1>7. ASSUME NEW w \in Last \cup {"SYSSTART"}, Holds(Read(t, n), w), w = "SYSSTART" => BufRestarts(t) = {}
      PROVE  \E k \in 1 .. n : tty[port[t]][k].word = w
  <2>1. PICK k \in Slots : Read(t, n)[k].word = w /\ \A j \in 1 .. k : Read(t, n)[j] # Zero
    BY <1>7 DEF Holds
  <2>2. Read(t, n)[k] # Zero
    BY <1>0, <2>1
  <2>3. k \in 1 .. len[t] + n
    BY <1>0, <2>2, ReadText
  <2>4. k \notin 1 .. len[t]
    BY <1>1, <1>7, <2>1, ReadText DEF BufInv, Last, BufRestarts
  <2>5. k - len[t] \in 1 .. n /\ k = len[t] + (k - len[t])
    BY <1>0, <2>3, <2>4
  <2>6. tty[port[t]][k - len[t]].word = w
    BY <2>1, <2>5, ReadText
  <2> QED
    BY <2>5, <2>6
<1>8. \A w \in Last : w # "SYSSTART"
  BY DEF Last
<1> QED
  BY <1>5, <1>6, <1>7, <1>8

\* What a read leaves on the port.
LEMMA RestText ==
  ASSUME NEW s \in Seq(Tokens), NEW n \in 0 .. Len(s)
  PROVE  /\ Rest(s, n) \in Seq(Tokens) /\ Len(Rest(s, n)) = Len(s) - n
         /\ \A j \in 1 .. Len(Rest(s, n)) : j + n \in 1 .. Len(s) /\ Rest(s, n)[j] = s[j + n]
<1>1. n + 1 \in 1 .. Len(s) + 1 /\ Len(s) \in Nat /\ n \in Nat
  OBVIOUS
<1>2. \A j \in n + 1 .. Len(s) : s[j] \in Tokens
  OBVIOUS
<1>3. Len(Rest(s, n)) = Len(s) - n
  BY <1>1, SubSeqProperties DEF Rest
<1>4. ASSUME NEW j \in 1 .. Len(s) - n PROVE j + n \in 1 .. Len(s) /\ Rest(s, n)[j] = s[j + n]
  <2>1. j + n \in 1 .. Len(s) /\ n + 1 + j - 1 = j + n
    BY <1>1
  <2>2. Rest(s, n)[j] = s[n + 1 + j - 1]
    BY <1>1, SubSeqProperties DEF Rest
  <2> QED
    BY <2>1, <2>2
<1> QED
  BY <1>3, <1>4, RestType

\* A read without the end of an answer leaves the rest of it on the port.
LEMMA ReadOnPort ==
  ASSUME TypeInv, AnswerInv, NEW t \in Threads, pc[t] = "poll", NEW m \in Modems, port[t] = m,
         NEW n \in 0 .. Len(tty[m]), len[t] + n <= BufLen, ~Ended(t, n),
         UNCHANGED <<pc, asked, port, obeyed, work>>,
         tty'[m] = Rest(tty[m], n), len'[t] = len[t] + n, abyAtCmdRespBuf' = Read(t, n)
  PROVE  PortInv(m)'
<1> DEFINE s == tty[m]
<1>0. m \in Modems /\ s \in Seq(Tokens) /\ Len(s) \in Nat /\ n \in Nat /\ len[t] \in Nat
  BY ThreadTypes, PortTypes
<1>1. PortInv(m)
  BY <1>0 DEF AnswerInv
<1>2. Len(tty'[m]) = Len(s) - n /\ \A j \in 1 .. Len(tty'[m]) : j + n \in 1 .. Len(s) /\ tty'[m][j] = s[j + n]
  <2> DEFINE rest == Rest(s, n)
  <2>1. Len(rest) = Len(s) - n /\ \A j \in 1 .. Len(rest) : j + n \in 1 .. Len(s) /\ rest[j] = s[j + n]
    BY <1>0, RestText
  <2>2. tty'[m] = rest
    OBVIOUS
  <2> HIDE DEF rest
  <2> QED
    BY <2>1, <2>2
<1>3. \A u \in Threads : Trying(u)' <=> Trying(u)
  BY DEF Trying
<1>4. \A u \in Threads : pc[u] = "poll" => u = t
  BY DEF AnswerInv, Solo
<1>5. /\ Len(work'[m]) <= 1
      /\ work'[m] # <<>> => \E u \in Threads : Trying(u)' /\ port'[u] = m /\ work'[m][1] = asked'[u]
  BY <1>1, <1>3 DEF PortInv
<1>6. ASSUME NEW j \in 1 .. Len(tty'[m]) PROVE tty'[m][j].word # "zero"
  BY <1>1, <1>2 DEF PortInv
<1>7. ASSUME NEW j \in 1 .. Len(tty'[m]), tty'[m][j].word \in Last
      PROVE  /\ work'[m] = <<>>
             /\ \A i \in 1 .. Len(tty'[m]) : tty'[m][i].word \in Last => i = j
             /\ \E u \in Threads : Trying(u)' /\ port'[u] = m /\ tty'[m][j].id = asked'[u]
  <2>1. j + n \in 1 .. Len(s) /\ s[j + n].word \in Last /\ tty'[m][j] = s[j + n]
    BY <1>2, <1>7
  <2>2. ASSUME NEW i \in 1 .. Len(tty'[m]), tty'[m][i].word \in Last PROVE i = j
    <3>1. i + n \in 1 .. Len(s) /\ s[i + n].word \in Last
      BY <1>2, <2>2
    <3>2. i + n = j + n
      BY <1>1, <2>1, <3>1 DEF PortInv
    <3> QED
      BY <1>0, <1>2, <3>2
  <2>3. work[m] = <<>> /\ \E u \in Threads : Trying(u) /\ port[u] = m /\ s[j + n].id = asked[u]
    BY <1>1, <2>1 DEF PortInv
  <2> QED
    BY <1>3, <2>1, <2>2, <2>3
<1>8. ASSUME NEW j \in 1 .. Len(tty'[m]), tty'[m][j].word = "data"
      PROVE  j < Len(tty'[m]) /\ tty'[m][j + 1] = Token(tty'[m][j].id, "OK")
  <2>1. j + n \in 1 .. Len(s) /\ tty'[m][j] = s[j + n] /\ s[j + n].word = "data"
    BY <1>2, <1>8
  <2>2. j + n < Len(s) /\ s[j + n + 1] = Token(s[j + n].id, "OK")
    BY <1>1, <2>1 DEF PortInv
  <2>3. j < Len(tty'[m]) /\ j + 1 \in 1 .. Len(tty'[m]) /\ j + 1 + n = j + n + 1
    BY <1>0, <1>2, <2>2
  <2>4. tty'[m][j + 1] = s[j + 1 + n]
    BY <1>2, <2>3
  <2> QED
    BY <2>1, <2>2, <2>3, <2>4
<1>9. ASSUME NEW j \in 1 .. Len(tty'[m]), tty'[m][j].word = "OK"
      PROVE  /\ tty'[m][j].id \in obeyed'
             /\ \/ j > 1 /\ tty'[m][j - 1] = Token(tty'[m][j].id, "data")
                \/ j = 1 /\ \E u \in Threads :
                      /\ pc'[u] = "poll" /\ port'[u] = m /\ len'[u] > 0
                      /\ abyAtCmdRespBuf'[len'[u]] = Token(tty'[m][j].id, "data")
  <2> DEFINE k == j + n
  <2>0. j \in Nat /\ j >= 1
    BY <1>0, <1>2
  <2>1. k \in 1 .. Len(s) /\ tty'[m][j] = s[k] /\ s[k].word = "OK" /\ j \in Nat /\ j >= 1 /\ k = j + n
    <3>1. j + n \in 1 .. Len(s) /\ tty'[m][j] = s[j + n]
      BY <1>2
    <3> QED
      BY <1>9, <2>0, <3>1
  <2>2. s[k].id \in obeyed
    BY <1>1, <2>1 DEF PortInv
  <2>3. CASE k > 1 /\ s[k - 1] = Token(s[k].id, "data")
    <3>1. CASE j > 1
      <4>1. j - 1 \in 1 .. Len(tty'[m]) /\ j - 1 + n = k - 1
        <5>1. j - 1 \in Nat /\ j - 1 >= 1 /\ j - 1 <= Len(s) - n
          BY <1>0, <2>1, <3>1
        <5>2. j - 1 + n = k - 1
          BY <1>0, <2>1
        <5> QED
          BY <1>0, <1>2, <5>1, <5>2
      <4>2. tty'[m][j - 1] = s[j - 1 + n]
        BY <1>2, <4>1
      <4> QED
        BY <2>1, <2>2, <2>3, <3>1, <4>1, <4>2
    <3>2. CASE j = 1
      <4>1. k - 1 = n /\ n \in 1 .. n /\ n > 0
        BY <1>0, <2>1, <2>3, <3>2
      <4>2. len'[t] = len[t] + n /\ len'[t] > 0
        BY <1>0, <4>1
      <4>3. Read(t, n)[len[t] + n] = s[n]
        BY <4>1, ReadText
      <4>4. abyAtCmdRespBuf'[len'[t]] = Token(s[k].id, "data")
        BY <2>3, <4>1, <4>2, <4>3
      <4> QED
        BY <2>1, <2>2, <3>2, <4>2, <4>4
    <3> QED
      BY <2>1, <3>1, <3>2
  <2>4. CASE k = 1 /\ \E u \in Threads : /\ pc[u] = "poll" /\ port[u] = m /\ len[u] > 0
                                         /\ abyAtCmdRespBuf[len[u]] = Token(s[k].id, "data")
    <3>1. n = 0 /\ j = 1
      BY <1>0, <2>1, <2>4
    <3>2. len[t] > 0 /\ abyAtCmdRespBuf[len[t]] = Token(s[k].id, "data")
      BY <1>4, <2>4
    <3>3. len'[t] = len[t] /\ len[t] \in 1 .. len[t]
      BY <1>0, <3>1, <3>2
    <3>4. abyAtCmdRespBuf'[len'[t]] = abyAtCmdRespBuf[len[t]]
      BY <3>3, ReadText
    <3> QED
      BY <2>1, <2>2, <3>1, <3>2, <3>3, <3>4
  <2> QED
    BY <1>1, <2>1, <2>3, <2>4 DEF PortInv
<1> QED
  BY <1>5, <1>6, <1>7, <1>8, <1>9 DEF PortInv

\* It leaves the beginning of the answer at the end of the buffer.
LEMMA ReadInBuffer ==
  ASSUME TypeInv, AnswerInv, NEW t \in Threads, pc[t] = "poll", NEW m \in Modems, port[t] = m,
         NEW n \in 0 .. Len(tty[m]), len[t] + n <= BufLen, ~Ended(t, n),
         UNCHANGED <<pc, asked, port, obeyed, work>>,
         tty'[m] = Rest(tty[m], n), len'[t] = len[t] + n, abyAtCmdRespBuf' = Read(t, n)
  PROVE  BufInv(t)' /\ Sent(t)'
<1> DEFINE s == tty[m]
           L == len[t]
           B == abyAtCmdRespBuf
<1>0. s \in Seq(Tokens) /\ Len(s) \in Nat /\ n \in Nat /\ L \in Nat
  BY ThreadTypes, PortTypes
<1>1. PortInv(m) /\ BufInv(t) /\ Sent(t)
  BY <1>0 DEF AnswerInv
<1>2. /\ Len(tty'[m]) = Len(s) - n
      /\ \A j \in 1 .. Len(tty'[m]) : j + n \in 1 .. Len(s) /\ tty'[m][j] = s[j + n]
  <2> DEFINE rest == Rest(s, n)
  <2>1. Len(rest) = Len(s) - n /\ \A j \in 1 .. Len(rest) : j + n \in 1 .. Len(s) /\ rest[j] = s[j + n]
    BY <1>0, RestText
  <2>2. tty'[m] = rest
    OBVIOUS
  <2> HIDE DEF rest
  <2> QED
    BY <2>1, <2>2
<1>3. /\ \A k \in 1 .. L : B'[k] = B[k]
      /\ \A k \in 1 .. n : B'[L + k] = s[k] /\ s[k].word \notin Last /\ k \in 1 .. Len(s)
      /\ \A k \in Slots : k > L + n => B'[k] = Zero
  <2>1. /\ \A k \in 1 .. len[t] : Read(t, n)[k] = abyAtCmdRespBuf[k]
        /\ \A k \in 1 .. n : Read(t, n)[len[t] + k] = tty[port[t]][k]
        /\ \A k \in Slots : k > len[t] + n => Read(t, n)[k] = Zero
    BY ReadText
  <2>2. \A k \in 1 .. n : s[k].word \notin Last /\ k \in 1 .. Len(s)
    BY <1>0 DEF Ended
  <2> QED
    BY <2>1, <2>2
<1>4. ASSUME NEW k \in 1 .. L + n
      PROVE  /\ B'[k].word \in {"data", "SYSSTART"}
             /\ B'[k].word = "data" => k = L + n /\ tty'[m] # <<>> /\ tty'[m][1] = Token(B'[k].id, "OK")
  <2>1. CASE k \in 1 .. L
    <3>1. /\ B[k].word \in {"data", "SYSSTART"}
          /\ B[k].word = "data" => k = L /\ s # <<>> /\ s[1] = Token(B[k].id, "OK")
      BY <1>1, <2>1 DEF BufInv
    <3>2. ASSUME B[k].word = "data" PROVE n = 0
      <4>1. s[1].word \in Last
        BY <3>1, <3>2 DEF Token, Last
      <4> QED
        BY <1>0, <1>3, <4>1
    <3>3. ASSUME B[k].word = "data" PROVE tty'[m] # <<>> /\ tty'[m][1] = s[1]
      <4>1. Len(s) # 0
        BY <1>0, <3>1, <3>3, EmptySeq, Zenon
      <4>2. 1 \in 1 .. Len(tty'[m]) /\ 1 + n = 1
        BY <1>0, <1>2, <3>2, <3>3, <4>1
      <4>3. tty'[m][1] = s[1 + n]
        BY <1>2, <4>2
      <4> QED
        BY <4>2, <4>3
    <3> QED
      BY <1>0, <1>3, <2>1, <3>1, <3>2, <3>3
  <2>2. CASE k \notin 1 .. L
    <3> DEFINE j == k - L
    <3>1. j \in 1 .. n /\ k = L + j /\ j \in Nat
      BY <1>0, <2>2
    <3>2. B'[k] = s[j] /\ s[j].word \notin Last /\ j \in 1 .. Len(s)
      BY <1>3, <3>1
    <3> HIDE DEF j
    <3>3. CASE s[j].word = "SYSSTART"
      BY <3>2, <3>3
    <3>4. CASE s[j].word # "SYSSTART"
      <4>1. /\ s[j].word = "data" /\ j + 1 \in 1 .. Len(s)
            /\ s[j + 1] = Token(s[j].id, "OK") /\ s[j + 1].word \in Last
        BY <1>1, <3>2, <3>4, BeforeLast
      <4>2. j + 1 \notin 1 .. n
        BY <1>3, <4>1
      <4>3. j = n /\ 1 \in 1 .. Len(tty'[m]) /\ 1 + n = j + 1
        BY <1>0, <1>2, <3>1, <4>1, <4>2
      <4>4. tty'[m][1] = s[1 + n]
        BY <1>2, <4>3
      <4>5. tty'[m] # <<>>
        BY <4>3
      <4> QED
        BY <3>1, <3>2, <4>1, <4>3, <4>4, <4>5
    <3> QED
      BY <3>3, <3>4
  <2> QED
    BY <2>1, <2>2
<1>5. BufInv(t)'
  <2>1. pc'[t] = "poll" /\ len'[t] = L + n /\ port'[t] = m
    OBVIOUS
  <2> HIDE DEF B
  <2> QED
    BY <1>3, <1>4, <2>1 DEF BufInv, B
<1>6. Sent(t)'
  <2>1. CASE work[m] # <<>>
    BY <2>1 DEF Sent
  <2>2. ASSUME NEW k \in 1 .. Len(s), s[k].word \in Last \cup {"SYSSTART"} PROVE Sent(t)'
    <3>1. CASE k \in 1 .. n
      <4>1. B'[L + k].word = "SYSSTART" /\ L + k \in 1 .. len'[t]
        BY <1>0, <1>3, <2>2, <3>1
      <4> QED
        BY <4>1 DEF Sent, BufRestarts
    <3>2. CASE k \notin 1 .. n
      <4> DEFINE j == k - n
      <4>1. j \in 1 .. Len(tty'[m]) /\ j + n = k
        BY <1>0, <1>2, <3>2
      <4>2. tty'[m][j] = s[j + n]
        BY <1>2, <4>1
      <4> HIDE DEF j
      <4>3. tty'[m][j].word \in Last \cup {"SYSSTART"} /\ port'[t] = m
        BY <2>2, <4>1, <4>2
      <4> QED
        BY <4>1, <4>3 DEF Sent
    <3> QED
      BY <3>1, <3>2
  <2>3. CASE BufRestarts(t) # {}
    <3>1. PICK k \in 1 .. L : B[k].word = "SYSSTART"
      BY <2>3 DEF BufRestarts
    <3>2. k \in 1 .. len'[t] /\ B'[k].word = "SYSSTART"
      BY <1>0, <1>3, <3>1
    <3> QED
      BY <3>2 DEF Sent, BufRestarts
  <2>4. Trying(t)
    BY DEF Trying
  <2> QED
    BY <1>1, <2>1, <2>2, <2>3, <2>4 DEF Sent
<1> QED
  BY <1>5, <1>6

\* An OK that was read without an announcement is the thread's own, with the line before it.
LEMMA ReadOK ==
  ASSUME TypeInv, AnswerInv, NEW t \in Threads, pc[t] = "poll", NEW m \in Modems, port[t] = m,
         NEW n \in 0 .. Len(tty[m]), len[t] + n <= BufLen,
         NEW p \in 1 .. n, tty[m][p].word = "OK", ~Holds(Read(t, n), "SYSSTART")
  PROVE  /\ asked[t] \in obeyed /\ len[t] + n = 2
         /\ Read(t, n)[1] = Token(asked[t], "data") /\ Read(t, n)[2] = Token(asked[t], "OK")
<1> DEFINE s == tty[m]
           L == len[t]
           B == abyAtCmdRespBuf
<1>0. s \in Seq(Tokens) /\ Len(s) \in Nat /\ n \in Nat /\ L \in Nat /\ p \in 1 .. Len(s) /\ n <= Len(s)
  BY ThreadTypes, PortTypes
<1>1. PortInv(m) /\ BufInv(t) /\ \A u \in Threads : Trying(u) => u = t
  BY <1>0 DEF AnswerInv, Solo, Trying
<1>2. s[p].id = asked[t] /\ asked[t] \in obeyed /\ \A j \in 1 .. Len(s) : s[j].word \in Last => j = p
  BY <1>0, <1>1 DEF PortInv, Last
<1>3. s[p] = Token(asked[t], "OK")
  <2>0. s[p] \in Tokens
    BY <1>0
  <2>1. s[p] \in [id : 0 .. MaxExchanges, word : Words]
    BY <2>0 DEF Tokens
  <2>2. s[p] = [id |-> s[p].id, word |-> s[p].word]
    BY <2>1
  <2> QED
    BY <1>2, <2>2 DEF Token
<1>4. /\ \A k \in 1 .. n : s[k].word # "SYSSTART"
      /\ \A k \in 1 .. L : B[k].word = "data"
  <2>1. \A k \in 1 .. L : B[k].word \in {"data", "SYSSTART"}
    BY <1>1 DEF BufInv
  <2> QED
    BY <2>1, ReadHolds
<1>5. ASSUME NEW k \in 1 .. n, k # p PROVE k + 1 = p
  <2>1. k \in 1 .. Len(s) /\ s[k].word \notin Last /\ s[k].word # "SYSSTART"
    BY <1>0, <1>2, <1>4, <1>5
  <2>2. k + 1 \in 1 .. Len(s) /\ s[k + 1].word \in Last
    BY <1>1, <2>1, BeforeLast
  <2> QED
    BY <1>2, <2>2
<1>6. n = p
  <2>1. n \in 1 .. n /\ p \in Nat /\ p <= n
    BY <1>0
  <2>2. n # p => n + 1 = p
    BY <1>5, <2>1
  <2> QED
    BY <1>0, <2>1, <2>2
<1>7. /\ \A k \in 1 .. L : Read(t, n)[k] = B[k]
      /\ \A k \in 1 .. n : Read(t, n)[L + k] = s[k]
  BY ReadText
<1>8. CASE p > 1 /\ s[p - 1] = Token(s[p].id, "data")
  <2>1. L = 0
    <3> SUFFICES ASSUME L # 0 PROVE FALSE
      OBVIOUS
    <3>1. L \in 1 .. L
      BY <1>0
    <3>2. s # <<>> /\ s[1] = Token(B[L].id, "OK")
      BY <1>1, <1>4, <3>1 DEF BufInv
    <3>3. 1 \in 1 .. Len(s) /\ s[1].word \in Last
      BY <1>0, <1>8, <3>2 DEF Token, Last
    <3> QED
      BY <1>2, <1>8, <3>3
  <2>2. p = 2
    <3>1. 1 \in 1 .. n /\ 1 # p
      BY <1>0, <1>8
    <3>2. 1 + 1 = p
      BY <1>5, <3>1
    <3> QED
      BY <3>2
  <2>3. Read(t, n)[1] = s[1] /\ Read(t, n)[2] = s[2]
    BY <1>6, <1>7, <2>1, <2>2
  <2> QED
    BY <1>2, <1>3, <1>6, <1>8, <2>1, <2>2, <2>3
<1>9. CASE p = 1 /\ \E u \in Threads : /\ pc[u] = "poll" /\ port[u] = m /\ len[u] > 0
                                       /\ B[len[u]] = Token(s[p].id, "data")
  <2>1. L > 0 /\ B[L] = Token(s[p].id, "data")
    BY <1>1, <1>9 DEF Trying
  <2>2. L = 1
    <3>1. 1 \in 1 .. L
      BY <1>0, <2>1
    <3> QED
      BY <1>1, <1>4, <3>1 DEF BufInv
  <2>3. Read(t, n)[1] = B[1] /\ Read(t, n)[2] = s[1]
    BY <1>6, <1>7, <1>9, <2>2
  <2> QED
    BY <1>2, <1>3, <1>6, <1>9, <2>1, <2>2, <2>3
<1> QED
  BY <1>0, <1>1, <1>8, <1>9 DEF PortInv

\* What the reads of a try end with, and what they leave: failed when they met an ERROR alone.
LEMMA ReadEnds ==
  ASSUME Orderly, TypeInv, AnswerInv, NEW t \in Threads, pc[t] = "poll", NEW m \in Modems, port[t] = m,
         NEW n \in 0 .. Len(tty[m]), len[t] + n <= BufLen,
         NEW failed \in BOOLEAN, failed = (n > 0 /\ ~Found(Read(t, n), okResp[t]) /\ Holds(Read(t, n), "ERROR")),
         Ended(t, n) \/ (work[m] = <<>> /\ n = Len(tty[m])),
         NEW k \in n .. Len(tty[m]), failed => k = Len(tty[m]), ~failed => k = n,
         UNCHANGED <<asked, port, obeyed, work, verdict>>, pc'[t] = "restart",
         tty'[m] = Rest(tty[m], k), len'[t] = IF failed THEN 0 ELSE len[t] + n,
         abyAtCmdRespBuf' = [Read(t, n) EXCEPT ![len'[t] + 1] = Zero]
  PROVE  /\ Quiet(m)' /\ ResultInv(t)'
         /\ ~failed /\ ~Holds(Read(t, n), "SYSSTART") => Answered(t)'
<1> DEFINE s == tty[m]
<1>0. /\ s \in Seq(Tokens) /\ Len(s) \in Nat /\ n \in Nat /\ len[t] \in Nat /\ n <= Len(s)
      /\ k \in 0 .. Len(s) /\ okResp[t] = "OK"
  BY ThreadTypes, PortTypes, OrderlyFacts
<1>1. PortInv(m) /\ Sent(t) /\ verdict[t] = "none"
  BY <1>0 DEF AnswerInv, Solo
<1>2. work[m] = <<>>
  <2>1. CASE Ended(t, n)
    <3>1. PICK p \in 1 .. n : s[p].word \in Last
      BY <2>1 DEF Ended
    <3>2. p \in 1 .. Len(s)
      BY <1>0
    <3> QED
      BY <1>1, <3>1, <3>2 DEF PortInv
  <2> QED
    BY <2>1
<1>3. ASSUME NEW j \in 1 .. Len(s), j > k PROVE s[j].word = "SYSSTART"
  <2>1. ~failed /\ k = n /\ Ended(t, n)
    BY <1>0, <1>3
  <2>2. PICK p \in 1 .. n : s[p].word \in Last
    BY <2>1 DEF Ended
  <2>3. p \in 1 .. Len(s) /\ p < j /\ p < j + 1
    BY <1>0, <1>3, <2>1
  <2>4. \A i \in 1 .. Len(s) : s[i].word \in Last => i = p
    BY <1>1, <2>2, <2>3 DEF PortInv
  <2>5. s[j].word \notin Last
    BY <2>3, <2>4
  <2>6. s[j].word # "SYSSTART" => j + 1 \in 1 .. Len(s) /\ s[j + 1].word \in Last
    BY <1>1, <2>5, BeforeLast
  <2> QED
    BY <2>3, <2>4, <2>6
<1>4. Quiet(m)'
  <2>1. Len(tty'[m]) = Len(s) - k /\ \A j \in 1 .. Len(tty'[m]) : j + k \in 1 .. Len(s) /\ tty'[m][j] = s[j + k]
    <3> DEFINE rest == Rest(s, k)
    <3>1. Len(rest) = Len(s) - k /\ \A j \in 1 .. Len(rest) : j + k \in 1 .. Len(s) /\ rest[j] = s[j + k]
      BY <1>0, RestText
    <3>2. tty'[m] = rest
      OBVIOUS
    <3> HIDE DEF rest
    <3> QED
      BY <3>1, <3>2
  <2>2. ASSUME NEW j \in 1 .. Len(tty'[m]) PROVE tty'[m][j].word = "SYSSTART"
    <3>1. j + k \in 1 .. Len(s) /\ tty'[m][j] = s[j + k]
      BY <2>1
    <3>2. j \in Nat /\ k \in Nat /\ j > 0
      BY <1>0, <2>1
    <3>3. j + k > k
      BY <3>2
    <3> QED
      BY <1>3, <3>1, <3>3
  <2> QED
    BY <1>2, <2>2 DEF Quiet
<1>5. ASSUME ~failed
      PROVE  /\ abyAtCmdRespBuf' = Read(t, n) /\ len'[t] = len[t] + n
             /\ Read(t, n)[len[t] + n + 1] = Zero
  <2>1. len[t] + n + 1 \in Slots /\ len[t] + n + 1 > len[t] + n
    BY <1>0, Bounds DEF Slots
  <2>2. Read(t, n)[len[t] + n + 1] = Zero
    BY <2>1, ReadText
  <2>3. Read(t, n) = [j \in Slots |-> Read(t, n)[j]]
    BY DEF Read, Stored
  <2> QED
    BY <1>5, <2>1, <2>2, <2>3
<1>6. ASSUME ~failed, ~Holds(Read(t, n), "SYSSTART") PROVE Answered(t)'
  <2>1. CASE Ended(t, n)
    <3>1. PICK p \in 1 .. n : s[p].word \in Last
      BY <2>1 DEF Ended
    <3>2. s[p].word = "OK"
      <4> SUFFICES ASSUME s[p].word = "ERROR" PROVE FALSE
        BY <3>1 DEF Last
      <4>1. Holds(Read(t, n), "ERROR") /\ n > 0
        BY <1>0, ReadHolds DEF Last
      <4>2. Holds(Read(t, n), "OK")
        BY <1>0, <1>6, <4>1 DEF Found
      <4>3. PICK q \in 1 .. n : s[q].word = "OK"
        BY <4>2, ReadHolds DEF Last
      <4>4. p = q
        BY <1>0, <1>1, <4>3, SMTT(30) DEF PortInv, Last
      <4> QED
        BY <4>3, <4>4
    <3>3. /\ asked[t] \in obeyed /\ len[t] + n = 2
          /\ Read(t, n)[1] = Token(asked[t], "data") /\ Read(t, n)[2] = Token(asked[t], "OK")
      BY <1>6, <3>2, ReadOK
    <3>4. Read(t, n)[3] = Zero
      BY <1>5, <1>6, <3>3
    <3> QED
      BY <1>5, <1>6, <3>3, <3>4 DEF Answered
  <2>2. CASE ~Ended(t, n)
    <3>1. n = Len(s)
      BY <2>2
    <3>2. (\E j \in 1 .. n : s[j].word \in Last \cup {"SYSSTART"}) \/ BufRestarts(t) # {}
      BY <1>1, <1>2, <3>1 DEF Sent, Trying
    <3>3. ~\E j \in 1 .. n : s[j].word = "SYSSTART"
      BY <1>6, ReadHolds
    <3>4. BufRestarts(t) = {}
      BY <1>6, ReadHolds DEF BufRestarts
    <3> QED
      BY <2>2, <3>2, <3>3, <3>4 DEF Ended
  <2> QED
    BY <2>1, <2>2
<1>7. ResultInv(t)'
  <2>1. len'[t] = 0 \/ Holds(abyAtCmdRespBuf', "SYSSTART") \/ Answered(t)'
    BY <1>5, <1>6
  <2> QED
    BY <1>1, <2>1 DEF ResultInv
<1> QED
  BY <1>4, <1>6, <1>7

\* One round of reads, with what it took from the port and what it dropped of it.
LEMMA PollStep ==
  ASSUME Orderly, TypeInv, NEW t \in Threads, Poll(t), NEW m \in Modems, port[t] = m, PortInv(m), AnswerInv
  PROVE  \E n \in 0 .. Len(tty[m]), failed \in BOOLEAN, end \in BOOLEAN : \E k \in n .. Len(tty[m]) :
           /\ len[t] + n <= BufLen
           /\ failed = (n > 0 /\ ~Found(Read(t, n), okResp[t]) /\ Holds(Read(t, n), "ERROR"))
           /\ end <=> Ended(t, n) \/ cnt[t] + 1 = PollCount
           /\ end => Ended(t, n) \/ (work[m] = <<>> /\ n = Len(tty[m]))
           /\ failed => end /\ k = Len(tty[m])
           /\ ~failed => k = n
           /\ tty' = [tty EXCEPT ![m] = Rest(@, k)]
           /\ len' = [len EXCEPT ![t] = IF failed THEN 0 ELSE len[t] + n]
           /\ abyAtCmdRespBuf' = IF end THEN [Read(t, n) EXCEPT ![len'[t] + 1] = Zero] ELSE Read(t, n)
           /\ pc' = [pc EXCEPT ![t] = IF end THEN "restart" ELSE "poll"]
<1> DEFINE failed(n) == n > 0 /\ ~Found(Read(t, n), okResp[t]) /\ Holds(Read(t, n), "ERROR")
           end(n) == Stop(t, n, Read(t, n)) \/ cnt[t] + 1 = PollCount
           got(n) == IF failed(n) THEN 0 ELSE len[t] + n
<1>0. /\ pc[t] = "poll" /\ tty[m] \in Seq(Tokens) /\ Len(tty[m]) \in Nat
      /\ okResp[t] = "OK" /\ Timely
  BY ThreadTypes, PortTypes, OrderlyFacts DEF Poll
<1>1. PICK n \in 0 .. Len(tty[m]) :
        /\ len[t] + n <= BufLen
        /\ Timely /\ cnt[t] + 1 = PollCount => work[m] = <<>> /\ n = Len(tty[m])
        /\ \E k \in IF failed(n) THEN n .. Len(tty[m]) ELSE {n} :
             /\ Timely /\ failed(n) => k = Len(tty[m])
             /\ tty' = [tty EXCEPT ![m] = Rest(@, k)]
        /\ len' = [len EXCEPT ![t] = got(n)]
        /\ abyAtCmdRespBuf' = IF end(n) THEN [Read(t, n) EXCEPT ![got(n) + 1] = Zero] ELSE Read(t, n)
        /\ pc' = [pc EXCEPT ![t] = IF end(n) THEN "restart" ELSE "poll"]
  BY ZenonT(30) DEF Poll, Read
<1>2. PICK k \in n .. Len(tty[m]) :
        /\ failed(n) => k = Len(tty[m])
        /\ ~failed(n) => k = n
        /\ tty' = [tty EXCEPT ![m] = Rest(@, k)]
  <2>1. n \in n .. Len(tty[m])
    BY <1>0
  <2>2. PICK k \in IF failed(n) THEN n .. Len(tty[m]) ELSE {n} :
          /\ Timely /\ failed(n) => k = Len(tty[m])
          /\ tty' = [tty EXCEPT ![m] = Rest(@, k)]
    BY <1>1
  <2> HIDE DEF failed
  <2>3. k \in n .. Len(tty[m]) /\ (failed(n) => k = Len(tty[m])) /\ (~failed(n) => k = n)
    BY <1>0, <2>1, <2>2
  <2> QED
    BY <2>2, <2>3
<1>3. Ended(t, n) <=> Stop(t, n, Read(t, n))
  <2>1. /\ Holds(Read(t, n), "OK") <=> \E i \in 1 .. n : tty[m][i].word = "OK"
        /\ Holds(Read(t, n), "ERROR") <=> \E i \in 1 .. n : tty[m][i].word = "ERROR"
    BY <1>0, <1>1, ReadHolds, SMTT(30) DEF Last
  <2>2. Ended(t, n) => n > 0
    BY <1>0 DEF Ended
  <2> QED
    BY <1>0, <2>1, <2>2 DEF Ended, Stop, Found, Last
<1>4. end(n) => Ended(t, n) \/ (work[m] = <<>> /\ n = Len(tty[m]))
  BY <1>0, <1>1, <1>3
<1>5. failed(n) => end(n)
  BY DEF Stop
<1>6. len'[t] = got(n)
  BY <1>1 DEF TypeInv, TypeOK
<1>7. failed(n) \in BOOLEAN /\ end(n) \in BOOLEAN
  OBVIOUS
<1> HIDE DEF failed, end
<1>8. abyAtCmdRespBuf' = IF end(n) THEN [Read(t, n) EXCEPT ![len'[t] + 1] = Zero] ELSE Read(t, n)
  BY <1>1, <1>6
<1>9. end(n) <=> Ended(t, n) \/ cnt[t] + 1 = PollCount
  BY <1>3 DEF end
<1> USE <1>7
<1> WITNESS n \in 0 .. Len(tty[m]), failed(n) \in BOOLEAN, end(n) \in BOOLEAN
<1> WITNESS k \in n .. Len(tty[m])
<1> QED
  BY <1>1, <1>2, <1>4, <1>5, <1>8, <1>9 DEF failed

LEMMA PollAnswer ==
  ASSUME Orderly, TypeInv, AnswerInv, NEW t \in Threads, Poll(t)
  PROVE  AnswerInv'
<1> DEFINE m == port[t]
<1>0. pc[t] = "poll" /\ m \in Modems /\ Trying(t) /\ PortInv(m)
  BY ThreadTypes DEF Poll, Trying, AnswerInv
<1>1. PICK n \in 0 .. Len(tty[m]), failed \in BOOLEAN, end \in BOOLEAN : \E k \in n .. Len(tty[m]) :
        /\ len[t] + n <= BufLen
        /\ failed = (n > 0 /\ ~Found(Read(t, n), okResp[t]) /\ Holds(Read(t, n), "ERROR"))
        /\ end <=> Ended(t, n) \/ cnt[t] + 1 = PollCount
        /\ end => Ended(t, n) \/ (work[m] = <<>> /\ n = Len(tty[m]))
        /\ failed => end /\ k = Len(tty[m])
        /\ ~failed => k = n
        /\ tty' = [tty EXCEPT ![m] = Rest(@, k)]
        /\ len' = [len EXCEPT ![t] = IF failed THEN 0 ELSE len[t] + n]
        /\ abyAtCmdRespBuf' = IF end THEN [Read(t, n) EXCEPT ![len'[t] + 1] = Zero] ELSE Read(t, n)
        /\ pc' = [pc EXCEPT ![t] = IF end THEN "restart" ELSE "poll"]
  BY <1>0, PollStep
<1>2. UNCHANGED <<asked, port, okResp, tryCount, pbyOut, verdict, work, obeyed>>
  BY DEF Poll, history
<1>3. PICK k \in n .. Len(tty[m]) :
        /\ failed => end /\ k = Len(tty[m])
        /\ ~failed => k = n
        /\ tty' = [tty EXCEPT ![m] = Rest(@, k)]
  BY <1>1
<1>4. /\ tty'[m] = Rest(tty[m], k) /\ (\A d \in Modems : d # m => tty'[d] = tty[d] /\ work'[d] = work[d])
      /\ len'[t] = IF failed THEN 0 ELSE len[t] + n
      /\ pc'[t] = IF end THEN "restart" ELSE "poll"
      /\ \A u \in Threads : u # t => pc'[u] = pc[u]
  BY <1>0, <1>1, <1>2, <1>3 DEF TypeInv, TypeOK
<1>5. verdict[t] = "none" /\ \A u \in Threads : Trying(u) => u = t
  BY <1>0 DEF AnswerInv, Solo, Trying
<1>6. ASSUME NEW d \in Modems, d # m PROVE PortInv(d)'
  <2>1. Quiet(d)
    BY <1>5, <1>6, NobodyTrying
  <2>2. Quiet(d)'
    BY <1>4, <1>6, <2>1 DEF Quiet
  <2> QED
    BY <2>2, StaysQuiet
<1>8. CASE end
  <2>1. Ended(t, n) \/ (work[m] = <<>> /\ n = Len(tty[m]))
    BY <1>1, <1>8
  <2>2. abyAtCmdRespBuf' = [Read(t, n) EXCEPT ![len'[t] + 1] = Zero]
    BY <1>1, <1>8
  <2>3. len'[t] = (IF failed THEN 0 ELSE len[t] + n) /\ pc'[t] = "restart"
    BY <1>4, <1>8
  <2>4. Quiet(port[t])' /\ ResultInv(t)'
    BY <1>0, <1>1, <1>2, <1>3, <1>4, <2>1, <2>2, <2>3, ReadEnds, ZenonT(30)
  <2>5. PortInv(port[t])'
    BY <1>0, <1>2, <2>4, StaysQuiet
  <2>6. BufInv(t)' /\ Sent(t)'
    BY <2>3 DEF BufInv, Sent, Trying
  <2>7. \A d \in Modems : PortInv(d)'
    BY <1>2, <1>6, <2>5
  <2> QED
    BY <1>0, <1>2, <1>4, <1>5, <2>4, <2>6, <2>7, StepOf
<1>9. CASE ~end
  <2>1. ~Ended(t, n) /\ ~failed /\ k = n
    BY <1>1, <1>3, <1>9
  <2>2. UNCHANGED pc
    BY <1>0, <1>1, <1>9 DEF TypeInv, TypeOK
  <2>3. len'[t] = len[t] + n /\ abyAtCmdRespBuf' = Read(t, n) /\ tty'[m] = Rest(tty[m], n)
    BY <1>1, <1>4, <1>9, <2>1
  <2>4. PortInv(m)'
    BY <1>0, <1>1, <1>2, <2>1, <2>2, <2>3, ReadOnPort
  <2>5. BufInv(t)' /\ Sent(t)'
    BY <1>0, <1>1, <1>2, <2>1, <2>2, <2>3, ReadInBuffer
  <2>6. ResultInv(t)'
    BY <1>0, <1>2, <1>5, <2>2 DEF ResultInv
  <2>7. \A d \in Modems : PortInv(d)'
    BY <1>2, <1>6, <2>4
  <2> QED
    BY <1>0, <1>2, <1>4, <1>5, <2>2, <2>5, <2>6, <2>7, StepOf
<1> QED
  BY <1>8, <1>9

-----------------------------------------------------------------------------
(* The answers of the exchanges *)

LEMMA InitAnswer == Init => AnswerInv
<1> SUFFICES ASSUME Init PROVE AnswerInv
  OBVIOUS
<1>1. \A t \in Threads : pc[t] = "idle" /\ verdict[t] = "none"
  BY DEF Init
<1>2. \A m \in Modems : Quiet(m)
  BY DEF Init, Quiet
<1>3. \A m \in Modems : PortInv(m)
  BY <1>2 DEF Quiet, PortInv, Last
<1> QED
  BY <1>1, <1>3 DEF AnswerInv, Solo, BufInv, Sent, Trying, ResultInv

LEMMA NextAnswer ==
  ASSUME Orderly
  PROVE  TypeInv /\ AnswerInv /\ [Next]_vars => AnswerInv'
<1> SUFFICES ASSUME TypeInv, AnswerInv, [Next]_vars PROVE AnswerInv'
  OBVIOUS
<1>1. ASSUME NEW t \in Threads, Thread(t) PROVE AnswerInv'
  BY <1>1, SendAnswer, ClearAnswer, WaitAnswer, PollAnswer, RestartedAnswer, CopyAnswer, MatchAnswer
  DEF Thread
<1>2. ASSUME NEW m \in Modems, Modem(m) PROVE AnswerInv'
  BY <1>2, AnswerAnswer, RestartAnswer DEF Modem
<1>3. CASE UNCHANGED vars
  BY <1>3 DEF vars, threads, ports, history, AnswerInv, Solo, PortInv, BufInv, Sent, BufRestarts,
              Trying, ResultInv, Answered, Holds
<1> QED
  BY <1>1, <1>2, <1>3, BeginAnswer DEF Next

\* An OK comes with the answer of the modem to this very command, all of it and nothing else.
THEOREM OwnAnswers == Spec => []OwnAnswer
<1>1. CASE Orderly
  <2>1. AnswerInv => OwnAnswer
    BY DEF AnswerInv, ResultInv, OwnAnswer
  <2>2. TypeInv /\ AnswerInv /\ [Next]_vars => TypeInv' /\ AnswerInv'
    BY <1>1, NextAnswer, NextType
  <2> QED
    BY <2>1, <2>2, InitAnswer, InitType, PTL DEF Spec
<1>2. CASE ~Orderly
  <2>1. OwnAnswer
    BY <1>2 DEF OwnAnswer
  <2> QED
    BY <2>1, PTL
<1> QED
  BY <1>1, <1>2

-----------------------------------------------------------------------------
(* The exchange as its callers see it *)

\* Exchanges are numbered as they are issued.
Numbered == \A t \in Threads : asked[t] <= issued

PromiseInv == TypeInv /\ AnswerInv /\ Numbered

LEMMA NextNumbered == TypeInv /\ Numbered /\ [Next]_vars => Numbered'
<1> SUFFICES ASSUME TypeInv, Numbered, [Next]_vars PROVE Numbered'
  OBVIOUS
<1>1. issued \in Nat /\ asked \in [Threads -> Nat]
  BY Bounds DEF TypeInv, TypeOK
<1>2. ASSUME NEW t \in Threads, Begin(t) PROVE Numbered'
  BY <1>1, <1>2 DEF Begin, Numbered
<1>3. ASSUME UNCHANGED <<asked, issued>> PROVE Numbered'
  BY <1>3 DEF Numbered
<1>4. ASSUME NEW t \in Threads, Thread(t) PROVE UNCHANGED <<asked, issued>>
  BY <1>4 DEF Thread, Send, Clear, Wait, Poll, Restarted, Copy, Match, history
<1>5. ASSUME NEW m \in Modems, Modem(m) PROVE UNCHANGED <<asked, issued>>
  BY <1>5 DEF Modem, Answer, Restart, threads
<1> QED
  BY <1>2, <1>3, <1>4, <1>5 DEF Next, vars, threads, history

\* A step that nobody begins or ends an exchange with is none of the callers' business.
LEMMA Unseen ==
  ASSUME UNCHANGED <<asked, issued, obeyed, verdict>>, \A t \in Threads : Idle(t)' <=> Idle(t)
  PROVE  UNCHANGED Exchange!vars
BY DEF Exchange!vars

\* The end of an exchange is its report.
LEMMA Reported ==
  ASSUME TypeInv, NEW t \in Threads, pc[t] # "idle", NEW v \in {"OK", "FAILED"}, v = "OK" => asked[t] \in obeyed,
         Finish(t, v), UNCHANGED <<asked, issued, obeyed>>
  PROVE  Exchange!Report(t)
<1> DEFINE now == [u \in Threads |-> IF Idle(u) THEN 0 ELSE asked[u]]
<1>1. now[t] = asked[t] /\ asked[t] # 0
  BY DEF Idle, TypeInv, InExchange
<1>2. now' = [now EXCEPT ![t] = 0]
  BY DEF Idle, Finish, TypeInv, TypeOK
<1>3. verdict' \in {[verdict EXCEPT ![t] = w] :
                      w \in {"FAILED"} \cup IF now[t] \in obeyed THEN {"OK"} ELSE {}}
  BY <1>1 DEF Finish
<1> QED
  BY <1>1, <1>2, <1>3 DEF Exchange!Report

\* Another try, or the end.
LEMMA ContinueReported ==
  ASSUME TypeInv, NEW t \in Threads, pc[t] # "idle", NEW left, Continue(t, left),
         UNCHANGED <<asked, issued, obeyed>>
  PROVE  Exchange!Report(t) \/ UNCHANGED Exchange!vars
<1>1. CASE left > 0
  <2>1. pc' = [pc EXCEPT ![t] = "send"] /\ UNCHANGED verdict
    BY <1>1 DEF Continue
  <2>2. \A u \in Threads : Idle(u)' <=> Idle(u)
    BY <2>1 DEF Idle, TypeInv, TypeOK
  <2> QED
    BY <2>1, <2>2, Unseen
<1>2. CASE ~(left > 0)
  <2>1. Finish(t, "FAILED")
    BY <1>2 DEF Continue
  <2>2. Exchange!Report(t)
    BY <2>1, Reported
  <2> QED
    BY <2>2
<1> QED
  BY <1>1, <1>2

LEMMA InitPromise == Init => Exchange!Init
BY DEF Init, Exchange!Init, Idle

LEMMA NextPromise ==
  ASSUME Orderly, PromiseInv, [Next]_vars
  PROVE  [Exchange!Next]_(Exchange!vars)
<1>0. TypeInv /\ AnswerInv /\ Numbered /\ pc \in [Threads -> Labels] /\ issued \in Nat
  BY Bounds DEF PromiseInv, TypeInv, TypeOK
<1>1. ASSUME NEW t \in Threads, Begin(t) PROVE Exchange!Ask(t)
  <2> DEFINE now == [u \in Threads |-> IF Idle(u) THEN 0 ELSE asked[u]]
  <2>1. now[t] = 0
    BY <1>1 DEF Begin
  <2>2. now' = [now EXCEPT ![t] = issued']
    BY <1>0, <1>1 DEF Begin, Idle, TypeInv, TypeOK
  <2> QED
    BY <1>1, <2>1, <2>2 DEF Begin, Exchange!Ask
<1>2. ASSUME NEW t \in Threads, Thread(t) PROVE Exchange!Report(t) \/ UNCHANGED Exchange!vars
  <2>1. UNCHANGED <<asked, issued, obeyed>> /\ pc[t] # "idle"
    BY <1>2 DEF Thread, Send, Clear, Wait, Poll, Restarted, Copy, Match, history
  <2>2. ASSUME NEW l \in Labels \ {"idle"}, pc' = [pc EXCEPT ![t] = l], UNCHANGED verdict
        PROVE  UNCHANGED Exchange!vars
    <3>1. \A u \in Threads : Idle(u)' <=> Idle(u)
      BY <1>0, <2>1, <2>2 DEF Idle
    <3> QED
      BY <2>1, <2>2, <3>1, Unseen
  <2>3. CASE Send(t)
    BY <1>0, <2>1, <2>2, <2>3, ContinueReported DEF Send, Labels
  <2>4. CASE Clear(t)
    BY <2>2, <2>4 DEF Clear, Labels
  <2>5. CASE Wait(t)
    BY <2>2, <2>5 DEF Wait, Labels
  <2>6. CASE Poll(t)
    <3>1. (pc' = [pc EXCEPT ![t] = "restart"] \/ pc' = [pc EXCEPT ![t] = "poll"]) /\ UNCHANGED verdict
      BY <2>6 DEF Poll
    <3> QED
      BY <2>2, <3>1 DEF Labels
  <2>7. CASE Restarted(t)
    BY <1>0, <2>1, <2>2, <2>7, ContinueReported DEF Restarted, Labels
  <2>8. CASE Copy(t)
    BY <2>2, <2>8 DEF Copy, Labels
  <2>9. CASE Match(t)
    <3>1. Answered(t) /\ verdict'[t] = "OK"
      BY <1>0, <2>9, MatchAnswer
    <3>2. Finish(t, "OK") \/ Continue(t, tryCount[t])
      BY <2>9 DEF Match
    <3>3. CASE Finish(t, "OK")
      BY <1>0, <2>1, <3>1, <3>3, Reported DEF Answered
    <3>4. CASE Continue(t, tryCount[t])
      BY <1>0, <2>1, <3>4, ContinueReported
    <3> QED
      BY <3>2, <3>3, <3>4
  <2> QED
    BY <1>2, <2>3, <2>4, <2>5, <2>6, <2>7, <2>8, <2>9 DEF Thread
<1>3. ASSUME NEW m \in Modems, Modem(m) PROVE Exchange!Obey \/ UNCHANGED Exchange!vars
  <2>1. UNCHANGED <<asked, issued, verdict, pc>>
    BY <1>3 DEF Modem, Answer, Restart, threads
  <2>2. \A t \in Threads : Idle(t)' <=> Idle(t)
    BY <2>1 DEF Idle
  <2>3. CASE UNCHANGED obeyed
    BY <2>1, <2>2, <2>3, Unseen
  <2>4. ASSUME work[m] # <<>>, obeyed' = obeyed \cup {Head(work[m])} PROVE Exchange!Obey
    <3>1. work[m] \in Seq(1 .. MaxExchanges) /\ PortInv(m)
      BY <1>0, PortTypes DEF AnswerInv
    <3>2. PICK t \in Threads : Trying(t) /\ work[m][1] = asked[t]
      BY <2>4, <3>1 DEF PortInv
    <3>3. Head(work[m]) = asked[t] /\ asked[t] \in Nat
      <4>1. Head(work[m]) = work[m][1] /\ work[m][1] \in 1 .. MaxExchanges
        BY <2>4, <3>1, OneElement DEF PortInv
      <4> QED
        BY <3>2, <4>1, Bounds
    <3>4. asked[t] \in 1 .. issued
      BY <1>0, <3>2, <3>3 DEF Trying, TypeInv, InExchange, Numbered
    <3>5. [u \in Threads |-> IF Idle(u) THEN 0 ELSE asked[u]]'
            = [u \in Threads |-> IF Idle(u) THEN 0 ELSE asked[u]]
      BY <2>1, <2>2
    <3> QED
      BY <2>1, <2>4, <3>3, <3>4, <3>5 DEF Exchange!Obey
  <2> QED
    BY <1>3, <2>3, <2>4 DEF Modem, Answer, Restart
<1>4. CASE UNCHANGED vars
  BY <1>4, Unseen DEF vars, threads, history, Idle
<1> QED
  BY <1>1, <1>2, <1>3, <1>4 DEF Next, Exchange!Next

\* modem_atCmd_w_r keeps its promise: each of its steps is one its callers may see, or none.
THEOREM ImplementsExchange == ASSUME Orderly PROVE Spec => Promise
<1>1. Init => PromiseInv /\ Exchange!Init
  <2>1. Init => Numbered
    <3> SUFFICES ASSUME Init, NEW t \in Threads PROVE asked[t] <= issued
      BY DEF Numbered
    <3>1. asked[t] = 0 /\ issued = 0
      BY DEF Init
    <3> QED
      BY <3>1
  <2> QED
    BY <2>1, InitType, InitAnswer, InitPromise DEF PromiseInv
<1>2. PromiseInv /\ [Next]_vars => PromiseInv'
  BY NextType, NextAnswer, NextNumbered DEF PromiseInv
<1>3. PromiseInv /\ [Next]_vars => [Exchange!Next]_(Exchange!vars)
  BY NextPromise
<1> QED
  BY <1>1, <1>2, <1>3, PTL DEF Spec, Promise, Exchange!Spec

-----------------------------------------------------------------------------
(* Counting announcements *)

LEMMA AnnouncedFinite ==
  ASSUME NEW s \in Seq(Tokens)
  PROVE  IsFiniteSet(Announced(s)) /\ Cardinality(Announced(s)) \in Nat
<1>1. Len(s) \in Int /\ 1 \in Int /\ Announced(s) \in SUBSET (1 .. Len(s))
  BY DEF Announced
<1>2. IsFiniteSet(Announced(s))
  BY <1>1, FS_Interval, FS_Subset
<1> QED
  BY <1>2, FS_CardinalityType

\* Other words add none.
LEMMA AnnouncedSame ==
  ASSUME NEW s \in Seq(Tokens), NEW r \in Seq(Tokens), Len(s) <= Len(r),
         \A k \in 1 .. Len(s) : r[k] = s[k],
         \A k \in Len(s) + 1 .. Len(r) : r[k].word # "SYSSTART"
  PROVE  Announced(r) = Announced(s)
<1>1. Len(s) \in Nat /\ Len(r) \in Nat
  OBVIOUS
<1>2. \A k \in 1 .. Len(r) : k \in 1 .. Len(s) \/ k \in Len(s) + 1 .. Len(r)
  BY <1>1
<1>3. \A k \in 1 .. Len(s) : k \in 1 .. Len(r)
  BY <1>1
<1> QED
  BY <1>2, <1>3 DEF Announced

\* One more announcement is one more.
LEMMA AnnouncedMore ==
  ASSUME NEW s \in Seq(Tokens), NEW r \in Seq(Tokens), Len(r) = Len(s) + 1,
         \A k \in 1 .. Len(s) : r[k] = s[k], r[Len(s) + 1].word = "SYSSTART"
  PROVE  Cardinality(Announced(r)) = Cardinality(Announced(s)) + 1
<1>1. Len(s) \in Nat
  OBVIOUS
<1>2. Announced(r) = Announced(s) \cup {Len(s) + 1} /\ Len(s) + 1 \notin Announced(s)
  BY <1>1 DEF Announced
<1> QED
  BY <1>2, AnnouncedFinite, FS_AddElement, ZenonT(30)

\* What is read is no longer on the port: a read that took an announcement leaves one less at least.
LEMMA AnnouncedRest ==
  ASSUME NEW s \in Seq(Tokens), NEW n \in 0 .. Len(s)
  PROVE  /\ Cardinality(Announced(Rest(s, n))) <= Cardinality(Announced(s))
         /\ \A p \in 1 .. n : s[p].word = "SYSSTART"
              => Cardinality(Announced(Rest(s, n))) + 1 <= Cardinality(Announced(s))
<1> DEFINE r == Rest(s, n)
           f == [k \in Announced(r) |-> k + n]
<1>1. Len(s) \in Nat /\ n \in Nat /\ r \in Seq(Tokens) /\ n <= Len(s)
  BY RestText
<1>2. \A j \in 1 .. Len(r) : j + n \in 1 .. Len(s) /\ r[j] = s[j + n]
  BY RestText
<1> HIDE DEF r
<1>3. ASSUME NEW j \in Announced(r) PROVE j \in Nat /\ j + n > n /\ f[j] = j + n /\ j + n \in Announced(s)
  <2>1. j \in 1 .. Len(r) /\ r[j].word = "SYSSTART"
    BY DEF Announced
  <2>2. j + n \in 1 .. Len(s) /\ s[j + n].word = "SYSSTART"
    BY <1>2, <2>1
  <2>3. j \in Nat /\ j > 0
    BY <1>1, <2>1
  <2> QED
    BY <1>1, <2>2, <2>3 DEF Announced
<1>4. \A i, j \in Announced(r) : f[i] = f[j] => i = j
  BY <1>1, <1>3
<1>5. IsFiniteSet(Announced(s)) /\ Cardinality(Announced(s)) \in Nat
  BY AnnouncedFinite
<1>6. ASSUME NEW S, IsFiniteSet(S), \A j \in Announced(r) : j + n \in S
      PROVE  Cardinality(Announced(r)) <= Cardinality(S)
  <2>1. f \in [Announced(r) -> S]
    BY <1>6
  <2>2. f \in Injection(Announced(r), S)
    BY <1>4, <2>1 DEF Injection, IsInjective
  <2> QED
    BY <1>6, <2>2, FS_Injection
<1>7. Cardinality(Announced(r)) <= Cardinality(Announced(s))
  BY <1>3, <1>5, <1>6
<1>8. ASSUME NEW p \in 1 .. n, s[p].word = "SYSSTART"
      PROVE  Cardinality(Announced(r)) + 1 <= Cardinality(Announced(s))
  <2> DEFINE S == Announced(s) \ {p}
  <2>1. p \in Announced(s)
    BY <1>1, <1>8 DEF Announced
  <2>2. IsFiniteSet(S) /\ Cardinality(S) = Cardinality(Announced(s)) - 1
    BY <1>5, <2>1, FS_RemoveElement
  <2>3. \A j \in Announced(r) : j + n \in S
    BY <1>1, <1>3, <1>8
  <2>4. Cardinality(Announced(r)) <= Cardinality(S)
    BY <1>6, <2>2, <2>3
  <2>5. Cardinality(Announced(r)) \in Nat
    BY <1>1, AnnouncedFinite
  <2> QED
    BY <1>5, <2>2, <2>4, <2>5
<1> QED
  BY <1>7, <1>8 DEF r

LEMMA CountTypes ==
  ASSUME TypeInv, NEW t \in Threads
  PROVE  /\ refused[t] \in Nat /\ restarts \in Nat /\ tryCount[t] \in Nat /\ tryCount[t] <= TryCount
         /\ TryCount \in Nat /\ Failing(t) \in 0 .. 2 /\ Unread(port[t]) \in Nat
<1>1. Failing(t) \in 0 .. 2
  BY DEF Failing
<1>2. Unread(port[t]) \in Nat
  BY ThreadTypes, PortTypes, AnnouncedFinite DEF Unread
<1> QED
  BY <1>1, <1>2, Bounds DEF TypeInv, TypeOK

\* A try between the loops of send and of reads, with nothing read.
LEMMA FailingBits ==
  ASSUME NEW t \in Threads
  PROVE  /\ pc[t] = "send" => Failing(t) = 1
         /\ Trying(t) => Failing(t) = (IF Errors(port[t]) = {} THEN 0 ELSE 1)
                                         + (IF pc[t] = "poll" /\ BufRestarts(t) # {} THEN 1 ELSE 0)
         /\ pc[t] = "restart" => Failing(t) = IF Answered(t) THEN 0 ELSE 1
         /\ pc[t] \in {"copy", "match"} => Failing(t) = 0
<1>1. CASE pc[t] = "send"
  BY <1>1 DEF Failing, Trying
<1>2. CASE Trying(t)
  BY <1>2 DEF Failing, Trying
<1>3. CASE pc[t] = "restart"
  BY <1>3 DEF Failing, Trying
<1>4. CASE pc[t] \in {"copy", "match"}
  BY <1>4 DEF Failing, Trying
<1> QED
  BY <1>1, <1>2, <1>3, <1>4 DEF Trying

\* A step of thread t: what it still owes is covered, and a failure by as many refusals as tries.
LEMMA CountStep ==
  ASSUME TypeInv, TypeInv', AnswerInv, CountInv, NEW t \in Threads, pc[t] # "idle",
         \A u \in Threads : u # t => pc'[u] = pc[u] /\ verdict'[u] = verdict[u] /\ refused'[u] = refused[u],
         restarts' = restarts, \A m \in Modems : Unread(m)' <= Unread(m),
         pc'[t] # "idle" =>
           refused'[t] + restarts' + 1
             >= Unread(port[t])' + (TryCount - tryCount'[t]) + Failing(t)',
         verdict'[t] = "FAILED" => refused'[t] + restarts' >= TryCount
  PROVE  CountInv'
<1>1. ASSUME NEW m \in Modems PROVE Unread(m)' <= restarts'
  <2>1. Unread(m) \in Nat /\ restarts \in Nat /\ Unread(m) <= restarts
    BY PortTypes, AnnouncedFinite, CountTypes DEF Unread, CountInv
  <2>2. tty'[m] \in Seq(Tokens)
    BY DEF TypeInv, TypeOK
  <2>3. Unread(m)' \in Nat
    BY <2>2, AnnouncedFinite DEF Unread
  <2> QED
    BY <2>1, <2>3
<1>2. \A u \in Threads : u # t => pc'[u] = "idle"
  BY OthersIdle DEF AnswerInv
<1>3. \A u \in Threads : u # t /\ verdict'[u] = "FAILED" => refused'[u] + restarts' >= TryCount
  BY DEF CountInv
<1> QED
  BY <1>1, <1>2, <1>3 DEF CountInv

LEMMA InitCounted == Init => CountInv
<1> SUFFICES ASSUME Init PROVE CountInv
  OBVIOUS
<1>1. ASSUME NEW m \in Modems PROVE Unread(m) <= restarts
  <2>1. tty[m] = <<>> /\ restarts = 0
    BY DEF Init
  <2>2. Announced(<<>>) = {}
    BY DEF Announced
  <2> QED
    BY <2>1, <2>2, FS_EmptySet DEF Unread
<1>2. \A t \in Threads : pc[t] = "idle" /\ verdict[t] = "none"
  BY DEF Init
<1> QED
  BY <1>1, <1>2 DEF CountInv

LEMMA BeginCounted ==
  ASSUME Orderly, TypeInv, TypeInv', AnswerInv, CountInv, NEW t \in Threads, Begin(t)
  PROVE  CountInv'
<1>1. /\ \A u \in Threads : u # t => pc'[u] = "idle" /\ verdict'[u] = verdict[u] /\ refused'[u] = refused[u]
      /\ pc'[t] = "send" /\ verdict'[t] = "none" /\ tryCount'[t] = TryCount /\ refused'[t] = 0
      /\ UNCHANGED <<tty, restarts>>
  BY OrderlyFacts DEF Begin, Idle, TypeInv, TypeOK, ports
<1>2. \A m \in Modems : Unread(m)' <= restarts'
  BY <1>1 DEF CountInv, Unread
<1>3. /\ port'[t] \in Modems /\ restarts' \in Nat /\ Unread(port[t])' \in Nat /\ TryCount \in Nat
      /\ Failing(t)' = 1
  <2>1. port'[t] \in Modems /\ restarts' \in 0 .. MaxRestarts /\ tty' \in [Modems -> Seq(Tokens)]
    BY DEF TypeInv, TypeOK
  <2>2. Unread(port[t])' \in Nat
    BY <2>1, AnnouncedFinite DEF Unread
  <2> QED
    BY <1>1, <2>1, <2>2, Bounds DEF Failing, Trying
<1>4. Unread(port[t])' <= restarts'
  BY <1>2, <1>3 DEF Unread
<1>5. refused'[t] + restarts' + 1 >= Unread(port[t])' + (TryCount - tryCount'[t]) + Failing(t)'
  BY <1>1, <1>3, <1>4
<1>6. \A u \in Threads : verdict'[u] = "FAILED" => refused'[u] + restarts' >= TryCount
  BY <1>1 DEF CountInv
<1> QED
  BY <1>1, <1>2, <1>5, <1>6 DEF CountInv

LEMMA SendCounted ==
  ASSUME TypeInv, TypeInv', AnswerInv, CountInv, NEW t \in Threads, Send(t)
  PROVE  CountInv'
<1> DEFINE before == Unread(port[t])
<1>0. /\ pc[t] = "send" /\ UNCHANGED <<port, tty, restarts>> /\ tryCount'[t] = tryCount[t] - 1
      /\ port[t] \in Modems /\ tryCount[t] \in 1 .. TryCount /\ verdict[t] = "none"
  BY DEF Send, TypeInv, TypeOK, InExchange, AnswerInv, Solo
<1>1. /\ refused[t] \in Nat /\ restarts \in Nat /\ tryCount[t] \in Nat /\ TryCount \in Nat
      /\ before \in Nat /\ Failing(t) = 1
  BY <1>0, CountTypes, FailingBits
<1>2. refused[t] + restarts + 1 >= before + (TryCount - tryCount[t]) + 1
  BY <1>0, <1>1 DEF CountInv
<1>3. Unread(port[t])' = before /\ (\A m \in Modems : Unread(m)' = Unread(m))
  BY <1>0 DEF Unread
<1>4. \A m \in Modems : Unread(m)' <= Unread(m)
  BY <1>3, PortTypes, AnnouncedFinite DEF Unread
<1> HIDE DEF before
<1>5. CASE pc' = [pc EXCEPT ![t] = "clear"] /\ UNCHANGED <<verdict, refused>>
  <2>1. pc'[t] = "clear" /\ \A u \in Threads : u # t => pc'[u] = pc[u]
    BY <1>5 DEF TypeInv, TypeOK
  <2>2. Errors(port[t]) = {}
    <3>1. \A u \in Threads : Trying(u) => port[u] # port[t]
      BY <1>0, OthersIdle DEF AnswerInv, Trying
    <3>2. Quiet(port[t])
      BY <1>0, <3>1, NobodyTrying
    <3> QED
      BY <3>2 DEF Quiet, Errors
  <2>3. Failing(t)' = 0
    BY <1>0, <2>1, <2>2 DEF Failing, Trying, Errors
  <2>4. refused'[t] + restarts' + 1 >= Unread(port[t])' + (TryCount - tryCount'[t]) + Failing(t)'
    BY <1>0, <1>1, <1>2, <1>3, <1>5, <2>3
  <2> QED
    BY <1>0, <1>4, <1>5, <2>1, <2>4, CountStep
<1>6. CASE refused' = [refused EXCEPT ![t] = @ + 1] /\ Continue(t, tryCount'[t])
  <2>1. /\ refused'[t] = refused[t] + 1
        /\ \A u \in Threads : u # t => pc'[u] = pc[u] /\ verdict'[u] = verdict[u] /\ refused'[u] = refused[u]
        /\ pc'[t] \in {"send", "idle"}
        /\ verdict'[t] = "FAILED" => ~(tryCount'[t] > 0)
    BY <1>0, <1>6, SMTT(30) DEF Continue, Finish, TypeInv, TypeOK
  <2>2. pc'[t] = "send" => Failing(t)' = 1
    BY DEF Failing, Trying
  <2>3. pc'[t] # "idle" =>
          refused'[t] + restarts' + 1 >= Unread(port[t])' + (TryCount - tryCount'[t]) + Failing(t)'
    BY <1>0, <1>1, <1>2, <1>3, <2>1, <2>2
  <2>4. verdict'[t] = "FAILED" => refused'[t] + restarts' >= TryCount
    BY <1>0, <1>1, <1>2, <2>1
  <2> QED
    BY <1>0, <1>4, <2>1, <2>3, <2>4, CountStep
<1> QED
  BY <1>5, <1>6 DEF Send

\* A step that leaves the port and what the try has met alone.
LEMMA CountKept ==
  ASSUME TypeInv, TypeInv', AnswerInv, CountInv, NEW t \in Threads, pc[t] # "idle",
         \A u \in Threads : u # t => pc'[u] = pc[u] /\ verdict'[u] = verdict[u],
         UNCHANGED <<port, tty, refused, restarts, tryCount>>,
         pc'[t] # "idle" => Failing(t)' <= Failing(t), verdict'[t] # "FAILED"
  PROVE  CountInv'
<1>1. refused[t] + restarts + 1 >= Unread(port[t]) + (TryCount - tryCount[t]) + Failing(t)
  BY DEF CountInv
<1>2. Unread(port[t])' = Unread(port[t]) /\ (\A m \in Modems : Unread(m)' = Unread(m))
  BY DEF Unread
<1>3. \A m \in Modems : Unread(m)' <= Unread(m)
  BY <1>2, PortTypes, AnnouncedFinite DEF Unread
<1>4. Failing(t)' \in 0 .. 2
  BY DEF Failing
<1>5. pc'[t] # "idle" =>
        refused'[t] + restarts' + 1 >= Unread(port[t])' + (TryCount - tryCount'[t]) + Failing(t)'
  BY <1>1, <1>2, <1>4, CountTypes
<1> QED
  BY <1>3, <1>5, CountStep

LEMMA ClearCounted ==
  ASSUME TypeInv, TypeInv', AnswerInv, CountInv, NEW t \in Threads, Clear(t)
  PROVE  CountInv'
<1>0. /\ pc[t] = "clear" /\ pc'[t] = "wait" /\ verdict[t] = "none"
      /\ \A u \in Threads : u # t => pc'[u] = pc[u]
      /\ UNCHANGED <<verdict, port, tty, refused, restarts, tryCount>>
  BY DEF Clear, TypeInv, TypeOK, ports, history, AnswerInv, Solo
<1>1. Failing(t)' = Failing(t)
  BY <1>0 DEF Failing, Trying, Errors
<1>2. Failing(t)' <= Failing(t)
  BY <1>1, CountTypes
<1> QED
  BY <1>0, <1>2, CountKept

LEMMA WaitCounted ==
  ASSUME TypeInv, TypeInv', AnswerInv, CountInv, NEW t \in Threads, Wait(t)
  PROVE  CountInv'
<1>0. /\ pc[t] = "wait" /\ pc'[t] = "poll" /\ verdict[t] = "none" /\ len'[t] = 0
      /\ \A u \in Threads : u # t => pc'[u] = pc[u]
      /\ UNCHANGED <<verdict, port, tty, refused, restarts, tryCount>>
  BY DEF Wait, TypeInv, TypeOK, ports, history, AnswerInv, Solo
<1>1. BufRestarts(t)' = {}
  BY <1>0 DEF BufRestarts
<1>2. Failing(t)' = Failing(t)
  BY <1>0, <1>1 DEF Failing, Trying, Errors
<1>3. Failing(t)' <= Failing(t)
  BY <1>2, CountTypes
<1> QED
  BY <1>0, <1>3, CountKept

\* The answer, once read, announces no restart.
LEMMA AnswerAlone ==
  ASSUME NEW t \in Threads, Answered(t)
  PROVE  len[t] # 0 /\ ~Holds(abyAtCmdRespBuf, "SYSSTART")
<1> SUFFICES ASSUME NEW k \in Slots, abyAtCmdRespBuf[k].word = "SYSSTART",
                    \A j \in 1 .. k : abyAtCmdRespBuf[j] # Zero
             PROVE  FALSE
  BY DEF Answered, Holds
<1>1. k \in Nat /\ k >= 1
  BY Bounds DEF Slots
<1>2. k < 3
  <2>1. k >= 3 => 3 \in 1 .. k
    BY <1>1
  <2> QED
    BY <1>1, <2>1 DEF Answered
<1>3. k = 1 \/ k = 2
  BY <1>1, <1>2
<1> QED
  BY <1>3 DEF Answered, Token

LEMMA RestartedCounted ==
  ASSUME TypeInv, TypeInv', AnswerInv, CountInv, NEW t \in Threads, Restarted(t)
  PROVE  CountInv'
<1>0. /\ pc[t] = "restart" /\ verdict[t] = "none"
      /\ \A u \in Threads : u # t => pc'[u] = pc[u] /\ verdict'[u] = verdict[u]
      /\ UNCHANGED <<port, tty, refused, restarts, tryCount>>
  BY DEF Restarted, Continue, Finish, TypeInv, TypeOK, ports, history, AnswerInv, Solo
<1>1. CASE pc' = [pc EXCEPT ![t] = "copy"] /\ UNCHANGED verdict
  <2>1. pc'[t] = "copy"
    BY <1>1 DEF TypeInv, TypeOK
  <2>2. Failing(t)' = 0
    BY <2>1 DEF Failing, Trying
  <2>3. Failing(t)' <= Failing(t)
    BY <2>2, CountTypes
  <2> QED
    BY <1>0, <1>1, <2>3, CountKept
<1>2. CASE (len[t] = 0 \/ Holds(abyAtCmdRespBuf, "SYSSTART")) /\ Continue(t, tryCount[t])
  <2>1. ~Answered(t)
    BY <1>2, AnswerAlone
  <2>2. Failing(t) = 1
    BY <1>0, <2>1, FailingBits
  <2>3. CASE tryCount[t] > 0
    <3>1. pc'[t] = "send" /\ UNCHANGED verdict
      BY <1>2, <2>3 DEF Continue, TypeInv, TypeOK
    <3>2. Failing(t)' = 1
      BY <3>1 DEF Failing, Trying
    <3>3. Failing(t)' <= Failing(t)
      BY <2>2, <3>2
    <3> QED
      BY <1>0, <3>1, <3>3, CountKept
  <2>4. CASE ~(tryCount[t] > 0)
    <3>1. pc'[t] = "idle"
      BY <1>2, <2>4 DEF Continue, Finish, TypeInv, TypeOK
    <3>2. tryCount[t] = 0
      BY <2>4, CountTypes
    <3>3. refused[t] + restarts + 1 >= Unread(port[t]) + (TryCount - tryCount[t]) + Failing(t)
      BY <1>0 DEF CountInv
    <3>4. refused'[t] + restarts' >= TryCount
      BY <1>0, <2>2, <3>2, <3>3, CountTypes
    <3>5. \A m \in Modems : Unread(m)' = Unread(m)
      BY <1>0 DEF Unread
    <3>6. \A m \in Modems : Unread(m)' <= Unread(m)
      BY <3>5, PortTypes, AnnouncedFinite DEF Unread
    <3> QED
      BY <1>0, <3>1, <3>4, <3>6, CountStep
  <2> QED
    BY <2>3, <2>4
<1> QED
  BY <1>1, <1>2 DEF Restarted

LEMMA CopyCounted ==
  ASSUME TypeInv, TypeInv', AnswerInv, CountInv, NEW t \in Threads, Copy(t)
  PROVE  CountInv'
<1>0. /\ pc[t] = "copy" /\ pc'[t] = "match" /\ verdict[t] = "none"
      /\ \A u \in Threads : u # t => pc'[u] = pc[u]
      /\ UNCHANGED <<verdict, port, tty, refused, restarts, tryCount>>
  BY DEF Copy, TypeInv, TypeOK, ports, history, AnswerInv, Solo
<1>1. Failing(t)' = 0
  BY <1>0 DEF Failing, Trying
<1>2. Failing(t)' <= Failing(t)
  BY <1>1, CountTypes
<1> QED
  BY <1>0, <1>2, CountKept

LEMMA MatchCounted ==
  ASSUME Orderly, TypeInv, TypeInv', AnswerInv, CountInv, NEW t \in Threads, Match(t)
  PROVE  CountInv'
<1>0. verdict'[t] = "OK" /\ Answered(t) /\ pc[t] = "match"
  BY MatchAnswer DEF Match
<1>1. Found(abyAtCmdRespBuf, okResp[t])
  BY <1>0, AnswerFound, OrderlyFacts, ThreadTypes DEF Found
<1>2. /\ pc'[t] = "idle" /\ \A u \in Threads : u # t => pc'[u] = pc[u] /\ verdict'[u] = verdict[u]
      /\ UNCHANGED <<port, tty, refused, restarts, tryCount>>
  BY <1>1 DEF Match, Finish, TypeInv, TypeOK, ports, history
<1> QED
  BY <1>0, <1>2, CountKept

\* What a read takes from the port it takes into the count: an announcement that was read is no
\* longer on the port, an ERROR that was read was there.
LEMMA ReadCounted ==
  ASSUME Orderly, TypeInv, AnswerInv, NEW t \in Threads, pc[t] = "poll", NEW m \in Modems, port[t] = m,
         NEW n \in 0 .. Len(tty[m]), len[t] + n <= BufLen, ~Ended(t, n),
         UNCHANGED <<pc, port>>,
         tty'[m] = Rest(tty[m], n), len'[t] = len[t] + n, abyAtCmdRespBuf' = Read(t, n)
  PROVE  Unread(m)' + Failing(t)' <= Unread(m) + Failing(t)
<1> DEFINE s == tty[m]
<1>0. s \in Seq(Tokens) /\ Len(s) \in Nat /\ n \in Nat /\ Unread(m) \in Nat /\ len[t] \in Nat
  BY ThreadTypes, PortTypes, AnnouncedFinite DEF Unread
<1>1. tty'[m] \in Seq(Tokens) /\ Unread(m)' \in Nat
  BY <1>0, RestText, AnnouncedFinite DEF Unread
<1>2. /\ Unread(m)' <= Unread(m)
      /\ (\E p \in 1 .. n : s[p].word = "SYSSTART") => Unread(m)' + 1 <= Unread(m)
  BY <1>0, AnnouncedRest DEF Unread
<1>3. Errors(m)' # {} => Errors(m) # {}
  <2> SUFFICES ASSUME NEW j \in 1 .. Len(tty'[m]), tty'[m][j].word = "ERROR" PROVE Errors(m) # {}
    BY DEF Errors
  <2> DEFINE rest == Rest(s, n)
  <2>1. \A i \in 1 .. Len(rest) : i + n \in 1 .. Len(s) /\ rest[i] = s[i + n]
    BY <1>0, RestText
  <2>2. tty'[m] = rest
    OBVIOUS
  <2> HIDE DEF rest
  <2>3. j + n \in 1 .. Len(s) /\ s[j + n].word = "ERROR"
    BY <2>1, <2>2
  <2> QED
    BY <2>3 DEF Errors
<1>4. BufRestarts(t)' # {} => BufRestarts(t) # {} \/ \E p \in 1 .. n : s[p].word = "SYSSTART"
  <2> SUFFICES ASSUME NEW k \in 1 .. len[t] + n, Read(t, n)[k].word = "SYSSTART"
               PROVE  BufRestarts(t) # {} \/ \E p \in 1 .. n : s[p].word = "SYSSTART"
    BY DEF BufRestarts
  <2>1. CASE k \in 1 .. len[t]
    <3>1. Read(t, n)[k] = abyAtCmdRespBuf[k]
      BY <2>1, ReadText
    <3> QED
      BY <2>1, <3>1 DEF BufRestarts
  <2>2. CASE k \notin 1 .. len[t]
    <3> DEFINE p == k - len[t]
    <3>1. p \in 1 .. n /\ k = len[t] + p
      BY <1>0, <2>2
    <3> HIDE DEF p
    <3>2. Read(t, n)[len[t] + p] = s[p]
      BY <3>1, ReadText
    <3> QED
      BY <3>1, <3>2
  <2> QED
    BY <2>1, <2>2
<1>5. Failing(t) = (IF Errors(m) = {} THEN 0 ELSE 1) + (IF BufRestarts(t) # {} THEN 1 ELSE 0)
  BY FailingBits DEF Trying
<1>6. Failing(t)' = (IF Errors(m)' = {} THEN 0 ELSE 1) + (IF BufRestarts(t)' # {} THEN 1 ELSE 0)
  BY DEF Failing, Trying, Errors
<1> QED
  BY <1>0, <1>1, <1>2, <1>3, <1>4, <1>5, <1>6, SMTT(30)

LEMMA EndCounted ==
  ASSUME Orderly, TypeInv, AnswerInv, NEW t \in Threads, pc[t] = "poll", NEW m \in Modems, port[t] = m,
         NEW n \in 0 .. Len(tty[m]), len[t] + n <= BufLen, NEW k \in n .. Len(tty[m]),
         NEW failed \in BOOLEAN, failed => Holds(Read(t, n), "ERROR"),
         ~failed /\ ~Holds(Read(t, n), "SYSSTART") => Answered(t)',
         ~failed => k = n, pc'[t] = "restart", tty'[m] = Rest(tty[m], k)
  PROVE  Unread(m)' + Failing(t)' <= Unread(m) + Failing(t)
<1> DEFINE s == tty[m]
<1>0. s \in Seq(Tokens) /\ Len(s) \in Nat /\ n \in Nat /\ Unread(m) \in Nat /\ k \in 0 .. Len(s)
  BY PortTypes, AnnouncedFinite DEF Unread
<1>1. tty'[m] \in Seq(Tokens) /\ Unread(m)' \in Nat
  BY <1>0, RestText, AnnouncedFinite DEF Unread
<1>2. /\ Unread(m)' <= Unread(m)
      /\ (\E p \in 1 .. k : s[p].word = "SYSSTART") => Unread(m)' + 1 <= Unread(m)
  BY <1>0, AnnouncedRest DEF Unread
<1>3. Failing(t)' = IF Answered(t)' THEN 0 ELSE 1
  BY DEF Failing, Trying
<1>4. Failing(t) = (IF Errors(m) = {} THEN 0 ELSE 1) + (IF BufRestarts(t) # {} THEN 1 ELSE 0)
  BY FailingBits DEF Trying
<1>5. CASE failed
  <2>1. \E i \in 1 .. n : s[i].word = "ERROR"
    BY <1>5, ReadHolds DEF Last
  <2>2. Errors(m) # {}
    BY <1>0, <2>1 DEF Errors
  <2> QED
    BY <1>0, <1>1, <1>2, <1>3, <1>4, <2>2
<1>6. CASE ~failed /\ ~Answered(t)'
  <2>1. Holds(Read(t, n), "SYSSTART") /\ k = n
    BY <1>6
  <2>2. BufRestarts(t) = {} => \E p \in 1 .. k : s[p].word = "SYSSTART"
    BY <2>1, ReadHolds
  <2> QED
    BY <1>0, <1>1, <1>2, <1>3, <1>4, <1>6, <2>2
<1>7. CASE Answered(t)'
  BY <1>0, <1>1, <1>2, <1>3, <1>4, <1>7
<1> QED
  BY <1>5, <1>6, <1>7

LEMMA PollCounted ==
  ASSUME Orderly, TypeInv, TypeInv', AnswerInv, CountInv, NEW t \in Threads, Poll(t)
  PROVE  CountInv'
<1> DEFINE m == port[t]
<1>0. /\ pc[t] = "poll" /\ m \in Modems /\ PortInv(m) /\ verdict[t] = "none"
      /\ tty[m] \in Seq(Tokens) /\ Len(tty[m]) \in Nat
  BY ThreadTypes, PortTypes DEF Poll, AnswerInv, Solo
<1>1. PICK n \in 0 .. Len(tty[m]), failed \in BOOLEAN, end \in BOOLEAN : \E k \in n .. Len(tty[m]) :
        /\ len[t] + n <= BufLen
        /\ failed = (n > 0 /\ ~Found(Read(t, n), okResp[t]) /\ Holds(Read(t, n), "ERROR"))
        /\ end <=> Ended(t, n) \/ cnt[t] + 1 = PollCount
        /\ end => Ended(t, n) \/ (work[m] = <<>> /\ n = Len(tty[m]))
        /\ failed => end /\ k = Len(tty[m])
        /\ ~failed => k = n
        /\ tty' = [tty EXCEPT ![m] = Rest(@, k)]
        /\ len' = [len EXCEPT ![t] = IF failed THEN 0 ELSE len[t] + n]
        /\ abyAtCmdRespBuf' = IF end THEN [Read(t, n) EXCEPT ![len'[t] + 1] = Zero] ELSE Read(t, n)
        /\ pc' = [pc EXCEPT ![t] = IF end THEN "restart" ELSE "poll"]
  BY <1>0, PollStep
<1>2. UNCHANGED <<asked, port, tryCount, verdict, work, obeyed, refused, restarts>>
  BY DEF Poll, history
<1>3. PICK k \in n .. Len(tty[m]) :
        /\ failed => end /\ k = Len(tty[m])
        /\ ~failed => k = n
        /\ tty' = [tty EXCEPT ![m] = Rest(@, k)]
  BY <1>1
<1>4. /\ tty'[m] = Rest(tty[m], k) /\ (\A d \in Modems : d # m => tty'[d] = tty[d])
      /\ len'[t] = IF failed THEN 0 ELSE len[t] + n
      /\ pc'[t] = IF end THEN "restart" ELSE "poll"
      /\ \A u \in Threads : u # t => pc'[u] = pc[u]
  BY <1>0, <1>1, <1>3 DEF TypeInv, TypeOK
<1>5. Unread(port[t])' + Failing(t)' <= Unread(port[t]) + Failing(t)
  <2>1. port' = port
    BY <1>2
  <2>2. CASE end
    <3>1. Ended(t, n) \/ (work[m] = <<>> /\ n = Len(tty[m]))
      BY <1>1, <2>2
    <3>2. abyAtCmdRespBuf' = [Read(t, n) EXCEPT ![len'[t] + 1] = Zero]
      BY <1>1, <2>2
    <3>3. len'[t] = (IF failed THEN 0 ELSE len[t] + n) /\ pc'[t] = "restart"
      BY <1>4, <2>2
    <3>4. ~failed /\ ~Holds(Read(t, n), "SYSSTART") => Answered(t)'
      BY <1>0, <1>1, <1>2, <1>3, <1>4, <3>1, <3>2, <3>3, ReadEnds
    <3>5. (failed => Holds(Read(t, n), "ERROR")) /\ (~failed => k = n) /\ len[t] + n <= BufLen
      BY <1>1, <1>3
    <3>6. tty'[m] = Rest(tty[m], k)
      BY <1>4
    <3>7. Cardinality(Announced(tty'[m])) + Failing(t)' <= Cardinality(Announced(tty[m])) + Failing(t)
      BY <1>0, <3>3, <3>4, <3>5, <3>6, EndCounted DEF Unread
    <3> QED
      BY <2>1, <3>7 DEF Unread
  <2>3. CASE ~end
    <3>1. ~Ended(t, n) /\ ~failed /\ k = n
      BY <1>1, <1>3, <2>3
    <3>2. UNCHANGED pc
      BY <1>0, <1>1, <2>3 DEF TypeInv, TypeOK
    <3>3. len'[t] = len[t] + n /\ abyAtCmdRespBuf' = Read(t, n) /\ tty'[m] = Rest(tty[m], n)
      BY <1>1, <1>4, <2>3, <3>1
    <3> QED
      BY <1>0, <1>1, <1>2, <2>1, <3>1, <3>2, <3>3, ReadCounted DEF Unread
  <2> QED
    BY <2>2, <2>3
<1>6. ASSUME NEW d \in Modems PROVE Unread(d)' <= Unread(d)
  <2>1. CASE d = m
    <3>1. k \in 0 .. Len(tty[m])
      BY <1>0
    <3> QED
      BY <1>0, <1>4, <2>1, <3>1, AnnouncedRest DEF Unread
  <2>2. CASE d # m
    BY <1>4, <2>2, PortTypes, AnnouncedFinite DEF Unread
  <2> QED
    BY <2>1, <2>2
<1>7. refused[t] + restarts + 1 >= Unread(port[t]) + (TryCount - tryCount[t]) + Failing(t)
  BY <1>0 DEF CountInv
<1>8. Unread(port[t])' \in Nat /\ Failing(t)' \in 0 .. 2
  <2>1. Unread(port[t])' \in Nat
    BY AnnouncedFinite DEF Unread, TypeInv, TypeOK
  <2> QED
    BY <2>1 DEF Failing
<1>9. refused'[t] + restarts' + 1 >= Unread(port[t])' + (TryCount - tryCount'[t]) + Failing(t)'
  <2> DEFINE before == Unread(port[t]) + Failing(t)
             after  == Unread(port[t])' + Failing(t)'
  <2>1. before \in Nat /\ after \in Nat /\ after <= before
    BY <1>5, <1>8, CountTypes
  <2>2. refused[t] + restarts + 1 >= before + (TryCount - tryCount[t])
    BY <1>7, CountTypes, SMTT(30)
  <2>3. refused[t] + restarts + 1 >= after + (TryCount - tryCount[t])
    <3> HIDE DEF before, after
    <3> QED
      BY <2>1, <2>2, CountTypes, SMTT(30)
  <2> QED
    BY <1>2, <1>8, <2>3, CountTypes
<1> QED
  BY <1>0, <1>2, <1>4, <1>6, <1>9, CountStep

\* A step of modem m: what it adds to the port or to the try it adds to the restarts or the refusals.
LEMMA ModemCounted ==
  ASSUME TypeInv, TypeInv', AnswerInv, CountInv, NEW m \in Modems, UNCHANGED <<threads, abyAtCmdRespBuf>>,
         \A d \in Modems : d # m => tty'[d] = tty[d],
         NEW more \in Nat, restarts' = restarts + more, Unread(m)' = Unread(m) + more,
         \A t \in Threads : refused'[t] >= refused[t],
         \A t \in Threads : pc[t] # "idle" => Failing(t)' + refused[t] <= Failing(t) + refused'[t]
  PROVE  CountInv'
<1>1. ASSUME NEW d \in Modems PROVE Unread(d) \in Nat /\ Unread(d)' = Unread(d) + IF d = m THEN more ELSE 0
  BY PortTypes, AnnouncedFinite DEF Unread
<1>2. restarts \in Nat
  BY Bounds DEF TypeInv, TypeOK
<1>3. ASSUME NEW d \in Modems PROVE Unread(d)' <= restarts'
  BY <1>1, <1>2 DEF CountInv
<1>4. ASSUME NEW t \in Threads PROVE refused'[t] \in Nat /\ Failing(t)' \in 0 .. 2
  <2>1. refused'[t] \in Nat
    BY DEF TypeInv, TypeOK
  <2>2. Failing(t)' \in 0 .. 2
    BY DEF Failing
  <2> QED
    BY <2>1, <2>2
<1>5. ASSUME NEW t \in Threads, pc'[t] # "idle"
      PROVE  refused'[t] + restarts' + 1 >= Unread(port[t])' + (TryCount - tryCount'[t]) + Failing(t)'
  <2> DEFINE unread == Unread(port[t])
  <2>1. /\ refused[t] \in Nat /\ tryCount[t] \in Nat /\ TryCount \in Nat
        /\ Failing(t) \in 0 .. 2 /\ unread \in Nat /\ port[t] \in Modems
    BY CountTypes, ThreadTypes
  <2>2. refused[t] + restarts + 1 >= unread + (TryCount - tryCount[t]) + Failing(t)
    BY <1>5 DEF CountInv, threads
  <2>3. Unread(port[t])' = unread + (IF port[t] = m THEN more ELSE 0) /\ tryCount'[t] = tryCount[t]
    BY <1>1, <2>1 DEF threads, Unread
  <2>4. Failing(t)' + refused[t] <= Failing(t) + refused'[t]
    BY <1>5 DEF threads
  <2> HIDE DEF unread
  <2> QED
    BY <1>2, <1>4, <2>1, <2>2, <2>3, <2>4
<1>6. ASSUME NEW t \in Threads, verdict'[t] = "FAILED" PROVE refused'[t] + restarts' >= TryCount
  <2>1. refused[t] + restarts >= TryCount
    BY <1>6 DEF CountInv, threads
  <2> QED
    BY <1>2, <1>4, <2>1, CountTypes
<1> QED
  BY <1>3, <1>5, <1>6 DEF CountInv

LEMMA RestartCounted ==
  ASSUME TypeInv, TypeInv', AnswerInv, CountInv, NEW m \in Modems, Restart(m)
  PROVE  CountInv'
<1> DEFINE up == Token(0, "SYSSTART")
           n  == Len(tty[m])
<1>0. /\ UNCHANGED <<threads, abyAtCmdRespBuf, refused>> /\ restarts' = restarts + 1
      /\ tty'[m] = Append(tty[m], up)
      /\ \A d \in Modems : d # m => tty'[d] = tty[d]
  BY DEF Restart, TypeInv, TypeOK
<1>1. tty[m] \in Seq(Tokens) /\ n \in Nat /\ up \in Tokens /\ up.word = "SYSSTART"
  BY PortTypes, TokenTypes DEF Token
<1>2. /\ tty'[m] \in Seq(Tokens) /\ Len(tty'[m]) = n + 1
      /\ \A k \in 1 .. n : tty'[m][k] = tty[m][k]
      /\ tty'[m][n + 1] = up
  BY <1>0, <1>1
<1>3. Unread(m)' = Unread(m) + 1
  BY <1>1, <1>2, AnnouncedMore DEF Unread
<1>4. ASSUME NEW t \in Threads PROVE Failing(t)' = Failing(t)
  <2>1. Errors(port[t])' = Errors(port[t])
    <3>1. CASE port[t] = m
      <4>1. \A k \in 1 .. n + 1 : k \in 1 .. n \/ k = n + 1
        BY <1>1
      <4>2. \A k \in 1 .. n : k \in 1 .. n + 1
        BY <1>1
      <4> QED
        BY <1>0, <1>1, <1>2, <3>1, <4>1, <4>2 DEF Errors, threads
    <3>2. CASE port[t] # m
      BY <1>0, <3>2, ThreadTypes DEF Errors, threads
    <3> QED
      BY <3>1, <3>2
  <2> QED
    BY <1>0, <2>1 DEF Failing, Trying, BufRestarts, Answered, threads, Restart
<1>5. ASSUME NEW t \in Threads
      PROVE  refused'[t] >= refused[t] /\ Failing(t)' + refused[t] <= Failing(t) + refused'[t]
  <2>1. refused'[t] = refused[t] /\ Failing(t)' = Failing(t)
    BY <1>0, <1>4
  <2>2. refused[t] \in Nat /\ Failing(t) \in 0 .. 2
    BY CountTypes
  <2> QED
    BY <2>1, <2>2
<1> QED
  BY <1>0, <1>3, <1>5, ModemCounted

LEMMA AnswerCounted ==
  ASSUME TypeInv, TypeInv', AnswerInv, CountInv, NEW m \in Modems, Answer(m)
  PROVE  CountInv'
<1> DEFINE id == Head(work[m])
           n  == Len(tty[m])
<1>0. /\ UNCHANGED <<threads, abyAtCmdRespBuf, restarts>> /\ work[m] # <<>>
      /\ \A d \in Modems : d # m => tty'[d] = tty[d]
      /\ \/ /\ tty'[m] = tty[m] \o <<Token(id, "data"), Token(id, "OK")>> /\ UNCHANGED refused
            /\ obeyed' = obeyed \cup {id}
         \/ /\ tty'[m] = Append(tty[m], Token(id, "ERROR")) /\ UNCHANGED obeyed
            /\ refused' = [t \in Threads |-> IF t \in Askers(id) THEN refused[t] + 1 ELSE refused[t]]
  BY ZenonT(30) DEF Answer, TypeInv, TypeOK
<1>1. /\ tty[m] \in Seq(Tokens) /\ n \in Nat /\ tty'[m] \in Seq(Tokens) /\ PortInv(m)
      /\ work[m] \in Seq(1 .. MaxExchanges)
  BY PortTypes DEF TypeInv, TypeOK, AnswerInv
<1>2. id = work[m][1] /\ id \in 1 .. MaxExchanges
  <2>1. Len(work[m]) <= 1
    BY <1>1 DEF PortInv
  <2> QED
    BY <1>0, <1>1, <2>1, OneElement
<1>3. \A w \in Words : Token(id, w) \in Tokens /\ Token(id, w).word = w
  BY <1>2, TokenTypes DEF Token
<1>4. \A t \in Threads : pc[t] # "idle" => Trying(t) /\ asked[t] = id
  <2>1. PICK u \in Threads : Trying(u) /\ port[u] = m /\ id = asked[u]
    BY <1>0, <1>1, <1>2 DEF PortInv
  <2> QED
    BY <2>1, OthersIdle DEF AnswerInv, Trying
<1>5. ASSUME NEW t \in Threads, pc[t] # "idle"
      PROVE  /\ Failing(t) = (IF Errors(port[t]) = {} THEN 0 ELSE 1)
                               + (IF pc[t] = "poll" /\ BufRestarts(t) # {} THEN 1 ELSE 0)
             /\ Failing(t)' = (IF Errors(port[t])' = {} THEN 0 ELSE 1)
                                + (IF pc[t] = "poll" /\ BufRestarts(t) # {} THEN 1 ELSE 0)
  <2>1. Trying(t)
    BY <1>4, <1>5
  <2>2. UNCHANGED <<pc, len, abyAtCmdRespBuf>>
    BY <1>0 DEF threads
  <2>3. BufRestarts(t)' = BufRestarts(t) /\ Trying(t)'
    BY <2>1, <2>2 DEF BufRestarts, Trying
  <2>4. Failing(t)' = (IF Errors(port[t])' = {} THEN 0 ELSE 1)
                        + (IF pc'[t] = "poll" /\ BufRestarts(t)' # {} THEN 1 ELSE 0)
    BY <2>3 DEF Failing, Trying
  <2> QED
    BY <2>1, <2>2, <2>3, <2>4, FailingBits
<1> HIDE DEF id
<1>6. CASE tty'[m] = tty[m] \o <<Token(id, "data"), Token(id, "OK")>> /\ UNCHANGED refused
  <2>1. /\ Len(tty'[m]) = n + 2
        /\ \A k \in 1 .. n : tty'[m][k] = tty[m][k]
        /\ tty'[m][n + 1] = Token(id, "data") /\ tty'[m][n + 2] = Token(id, "OK")
    <3> DEFINE pair == <<Token(id, "data"), Token(id, "OK")>>
    <3>1. pair \in Seq(Tokens) /\ Len(pair) = 2
      BY <1>3 DEF Words
    <3> QED
      BY <1>1, <1>6, <3>1
  <2>2. \A k \in n + 1 .. n + 2 : k = n + 1 \/ k = n + 2
    BY <1>1
  <2>3. \A k \in n + 1 .. n + 2 : tty'[m][k].word \notin {"SYSSTART", "ERROR"}
    BY <1>3, <2>1, <2>2 DEF Words
  <2>4. Unread(m)' = Unread(m)
    <3>1. Len(tty[m]) <= Len(tty'[m]) /\ \A k \in Len(tty[m]) + 1 .. Len(tty'[m]) : tty'[m][k].word # "SYSSTART"
      BY <1>1, <2>1, <2>3
    <3>2. Announced(tty'[m]) = Announced(tty[m])
      BY <1>1, <2>1, <3>1, AnnouncedSame
    <3> QED
      BY <3>2 DEF Unread
  <2>5. ASSUME NEW t \in Threads, pc[t] # "idle" PROVE Errors(port[t])' # {} => Errors(port[t]) # {}
    <3>1. CASE port[t] = m
      <4>1. \A k \in 1 .. n + 2 : k \in 1 .. n \/ k \in n + 1 .. n + 2
        BY <1>1
      <4> QED
        BY <1>0, <2>1, <2>3, <3>1, <4>1 DEF Errors, threads
    <3>2. CASE port[t] # m
      BY <1>0, <3>2, ThreadTypes DEF Errors, threads
    <3> QED
      BY <3>1, <3>2
  <2>6. ASSUME NEW t \in Threads
        PROVE  /\ refused'[t] >= refused[t]
               /\ pc[t] # "idle" => Failing(t)' + refused[t] <= Failing(t) + refused'[t]
    <3>1. refused'[t] = refused[t] /\ refused[t] \in Nat
      BY <1>6, CountTypes
    <3>2. pc[t] # "idle" => Failing(t)' <= Failing(t) /\ Failing(t) \in 0 .. 2 /\ Failing(t)' \in 0 .. 2
      BY <1>5, <2>5
    <3> QED
      BY <3>1, <3>2
  <2>7. restarts' = restarts + 0 /\ Unread(m)' = Unread(m) + 0
    BY <1>0, <1>1, <2>4, AnnouncedFinite, Bounds DEF Unread, TypeInv, TypeOK
  <2> QED
    BY <1>0, <2>6, <2>7, ModemCounted
<1>7. CASE /\ tty'[m] = Append(tty[m], Token(id, "ERROR"))
           /\ refused' = [t \in Threads |-> IF t \in Askers(id) THEN refused[t] + 1 ELSE refused[t]]
  <2>1. /\ Len(tty'[m]) = n + 1
        /\ \A k \in 1 .. n : tty'[m][k] = tty[m][k]
        /\ tty'[m][n + 1] = Token(id, "ERROR")
    BY <1>1, <1>3, <1>7 DEF Words
  <2>2. \A k \in n + 1 .. n + 1 : tty'[m][k].word # "SYSSTART"
    BY <1>1, <1>3, <2>1 DEF Words
  <2>3. Unread(m)' = Unread(m)
    <3>1. Len(tty[m]) <= Len(tty'[m]) /\ \A k \in Len(tty[m]) + 1 .. Len(tty'[m]) : tty'[m][k].word # "SYSSTART"
      BY <1>1, <2>1, <2>2
    <3>2. Announced(tty'[m]) = Announced(tty[m])
      BY <1>1, <2>1, <3>1, AnnouncedSame
    <3> QED
      BY <3>2 DEF Unread
  <2>4. \A t \in Threads : /\ refused'[t] >= refused[t]
                           /\ pc[t] # "idle" => refused'[t] = refused[t] + 1
    BY <1>4, <1>7, CountTypes DEF Askers
  <2>5. \A t \in Threads : pc[t] # "idle" => Failing(t)' <= Failing(t) + 1 /\ Failing(t)' \in 0 .. 2
    BY <1>5
  <2>6. \A t \in Threads : pc[t] # "idle" => Failing(t)' + refused[t] <= Failing(t) + refused'[t]
    BY <2>4, <2>5, CountTypes
  <2>7. restarts' = restarts + 0 /\ Unread(m)' = Unread(m) + 0
    BY <1>0, <1>1, <2>3, AnnouncedFinite, Bounds DEF Unread, TypeInv, TypeOK
  <2> QED
    BY <1>0, <2>4, <2>6, <2>7, ModemCounted
<1> QED
  BY <1>0, <1>6, <1>7 DEF id

LEMMA NextCount ==
  ASSUME Orderly
  PROVE  TypeInv /\ TypeInv' /\ AnswerInv /\ CountInv /\ [Next]_vars => CountInv'
<1> SUFFICES ASSUME TypeInv, TypeInv', AnswerInv, CountInv, [Next]_vars PROVE CountInv'
  OBVIOUS
<1>1. ASSUME NEW t \in Threads, Thread(t) PROVE CountInv'
  BY <1>1, SendCounted, ClearCounted, WaitCounted, PollCounted, RestartedCounted, CopyCounted, MatchCounted
  DEF Thread
<1>2. ASSUME NEW m \in Modems, Modem(m) PROVE CountInv'
  BY <1>2, AnswerCounted, RestartCounted DEF Modem
<1>3. CASE UNCHANGED vars
  BY <1>3 DEF vars, threads, ports, history, CountInv, Unread, Failing, Trying, Errors, BufRestarts, Answered
<1> QED
  BY <1>1, <1>2, <1>3, BeginCounted DEF Next

\* A verdict is true: an OK comes with the modem's own answer, and an exchange is given up only
\* when each of its tries met a refusal or a restart of its own.
THEOREM VerdictsAreTrue == Spec => []VerdictTrue
<1>1. CASE Orderly
  <2>1. AnswerInv /\ CountInv => VerdictTrue
    BY DEF AnswerInv, ResultInv, CountInv, VerdictTrue, OwnAnswer, FailedMeansRefused
  <2>2. TypeInv /\ AnswerInv /\ CountInv /\ [Next]_vars => TypeInv' /\ AnswerInv' /\ CountInv'
    BY <1>1, NextAnswer, NextCount, NextType
  <2> QED
    BY <2>1, <2>2, InitAnswer, InitCounted, InitType, PTL DEF Spec
<1>2. CASE ~Orderly
  <2>1. VerdictTrue
    BY <1>2 DEF VerdictTrue, OwnAnswer, FailedMeansRefused
  <2> QED
    BY <2>1, PTL
<1> QED
  BY <1>1, <1>2
=============================================================================
