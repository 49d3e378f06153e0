------------------------------ MODULE AtExchange ------------------------------
(***************************************************************************)
(* What modem_atCmd_w_r promises its callers: a thread asks, the modem may *)
(* obey, and the thread is told "OK" only if the modem did.  ScanControl   *)
(* relies on it by taking an exchange with a modem as one step.            *)
(***************************************************************************)
EXTENDS Naturals

CONSTANTS Threads

VARIABLES
  issued,     \* how many exchanges were begun; they are numbered from 1
  asked,      \* the exchange each thread is in, 0 if none
  verdict,    \* the result of each thread's last exchange
  obeyed      \* the exchanges whose command a modem has carried out

vars == <<issued, asked, verdict, obeyed>>

Init ==
  /\ issued = 0 /\ obeyed = {}
  /\ asked = [t \in Threads |-> 0] /\ verdict = [t \in Threads |-> "none"]

Ask(t) ==
  /\ asked[t] = 0
  /\ issued' = issued + 1
  /\ asked' = [asked EXCEPT ![t] = issued']
  /\ verdict' = [verdict EXCEPT ![t] = "none"]
  /\ UNCHANGED obeyed

Obey ==
  /\ \E id \in 1 .. issued : obeyed' = obeyed \cup {id}
  /\ UNCHANGED <<issued, asked, verdict>>

Report(t) ==
  /\ asked[t] # 0
  /\ verdict' \in {[verdict EXCEPT ![t] = v] :
                     v \in {"FAILED"} \cup IF asked[t] \in obeyed THEN {"OK"} ELSE {}}
  /\ asked' = [asked EXCEPT ![t] = 0]
  /\ UNCHANGED <<issued, obeyed>>

Next == Obey \/ \E t \in Threads : Ask(t) \/ Report(t)

Spec == Init /\ [][Next]_vars
=============================================================================
