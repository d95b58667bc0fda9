--------------------------- MODULE LrsdBarrierProofs ---------------------------
(***************************************************************************)
(* The types of LrsdBarrier, and that the clients of a barrier leave it    *)
(* together, for any number of clients and any waits.  Together is not     *)
(* inductive: two clients asleep at a barrier say nothing of the next one  *)
(* to come.  Window ties each of them to the age of the barrier, which is  *)
(* what the next one is answered from.                                     *)
(***************************************************************************)
EXTENDS LrsdBarrier, TLAPS

\* What is left to sleep lies between the end of the barrier for a latecomer and
\* its end for the client that set it up after a boot.
Window == \A c \in here : /\ left[c] >= to - since
                          /\ left[c] <= IF to + FIRST - since > 0 THEN to + FIRST - since ELSE 0

Inv == TypeOK /\ Window

\* An answer of lrsd is a wait of at most to + FIRST seconds.
LEMMA WaitBounded ==
  ASSUME TypeOK, NEW f \in 1 .. Files
  PROVE  Wait(f) \in 0 .. to + FIRST
BY BarrierAssumption DEF TypeOK, Wait, last, Forgotten, Never

\* What lrsd remembers keeps its type.
LEMMA SynchroTypes ==
  ASSUME TypeOK, NEW f \in 1 .. Files, Synchro(f)
  PROVE  lastfile' \in 0 .. Files /\ since' \in 0 .. Never
BY BarrierAssumption DEF TypeOK, Synchro, last, Forgotten, Never

\* A client that is given the whole wait is inside the window of the barrier it
\* joins, the old one or the one it sets up.
LEMMA AnswerInWindow ==
  ASSUME TypeOK, NEW f \in 1 .. Files, Synchro(f), f >= last
  PROVE  /\ Wait(f) >= to - since'
         /\ Wait(f) <= IF to + FIRST - since' > 0 THEN to + FIRST - since' ELSE 0
BY BarrierAssumption DEF TypeOK, Synchro, Wait, last, Forgotten, Never

\* Every step but those that touch the barrier or a sleeper leaves the window.
LEMMA Untouched ==
  ASSUME Inv, since' = since, left' = left, here' \subseteq here
  PROVE  Window'
BY DEF Inv, Window

LEMMA InitInv == Init => Inv
BY BarrierAssumption DEF Init, Inv, TypeOK, Window, Never

LEMMA AskInv ==
  ASSUME Inv, NEW c \in Client, Ask(c)
  PROVE  Inv'
<1> DEFINE wait == Wait(file[c])
           sleep == Sleep(c, wait)
           others == IF file[c] > last THEN {} ELSE here
<1>1. file[c] \in 1 .. Files /\ TypeOK
  BY DEF Inv, TypeOK
<1>2. wait \in 0 .. to + FIRST
  BY <1>1, WaitBounded
<1>3. sleep \in 0 .. to + FIRST
  BY <1>2, BarrierAssumption DEF Sleep
<1>4. /\ Synchro(file[c])
      /\ left' = [left EXCEPT ![c] = sleep]
      /\ pc' = [pc EXCEPT ![c] = IF sleep = 0 THEN "load" ELSE "wait"]
      /\ here' = IF file[c] >= last /\ sleep = wait THEN others \union {c} ELSE others \ {c}
      /\ UNCHANGED <<file, held, faults>>
  BY DEF Ask
<1> HIDE DEF wait, sleep
<1>5. TypeOK'
  <2>1. lastfile' \in 0 .. Files /\ since' \in 0 .. Never
    BY <1>1, <1>4, SynchroTypes
  <2>2. left' \in [Client -> 0 .. to + FIRST]
    BY <1>1, <1>3, <1>4 DEF TypeOK
  <2>3. pc' \in [Client -> {"off", "ask", "wait", "load", "log", "done"}]
    BY <1>1, <1>4 DEF TypeOK
  <2>4. here' \subseteq Client
    BY <1>1, <1>4 DEF TypeOK
  <2> QED BY <1>1, <1>4, <2>1, <2>2, <2>3, <2>4 DEF TypeOK
<1>6. Window'
  <2> SUFFICES ASSUME NEW d \in here'
               PROVE  /\ left'[d] >= to - since'
                      /\ left'[d] <= IF to + FIRST - since' > 0 THEN to + FIRST - since' ELSE 0
    BY DEF Window
  <2>1. CASE d = c
    <3>1. file[c] >= last /\ sleep = wait
      BY <1>4, <2>1
    <3>2. left'[d] = wait
      BY <1>1, <1>4, <2>1, <3>1 DEF TypeOK
    <3> QED BY <1>1, <1>4, <3>1, <3>2, AnswerInWindow DEF wait
  <2>2. CASE d # c
    <3>1. d \in here /\ ~(file[c] > last)
      BY <1>4, <2>2
    <3>2. since' = since
      BY <1>4, <3>1 DEF Synchro
    <3>3. left'[d] = left[d]
      BY <1>1, <1>4, <2>2, <3>1 DEF TypeOK
    <3> QED BY <3>1, <3>2, <3>3 DEF Inv, Window
  <2> QED BY <2>1, <2>2
<1> QED BY <1>5, <1>6 DEF Inv

LEMMA TickInv ==
  ASSUME Inv, Tick
  PROVE  Inv'
<1>1. TypeOK'
  BY BarrierAssumption DEF Inv, TypeOK, Tick, Never
<1>2. Window'
  <2> SUFFICES ASSUME NEW d \in here'
               PROVE  /\ left'[d] >= to - since'
                      /\ left'[d] <= IF to + FIRST - since' > 0 THEN to + FIRST - since' ELSE 0
    BY DEF Window
  <2>1. d \in here /\ d \in Client
    BY DEF Inv, TypeOK, Tick
  <2>2. left'[d] = IF left[d] > 0 THEN left[d] - 1 ELSE 0
    BY <2>1 DEF Tick
  <2>3. since' = IF since = Never THEN since ELSE since + 1
    BY DEF Tick
  <2>4. left[d] \in Nat /\ since \in 0 .. Never
    BY <2>1, BarrierAssumption DEF Inv, TypeOK
  <2>5. /\ left[d] >= to - since
        /\ left[d] <= IF to + FIRST - since > 0 THEN to + FIRST - since ELSE 0
    BY <2>1 DEF Inv, Window
  <2> QED BY <2>2, <2>3, <2>4, <2>5, BarrierAssumption DEF Never
<1> QED BY <1>1, <1>2 DEF Inv

LEMMA ResetInv ==
  ASSUME TypeOK, ResetBarrier
  PROVE  /\ lastfile' \in 0 .. Files /\ since' \in 0 .. Never /\ here' \subseteq Client
         /\ Window'
BY BarrierAssumption DEF ResetBarrier, Window, Never

LEMMA NextInv == Inv /\ [Next]_vars => Inv'
<1> SUFFICES ASSUME Inv, [Next]_vars PROVE Inv'
  OBVIOUS
<1> USE BarrierAssumption
<1>1. CASE UNCHANGED vars
  BY <1>1 DEF vars, clientVars, Inv, TypeOK, Window
<1>2. CASE Tick
  BY <1>2, TickInv
<1>3. CASE RestartLrsd
  <2>1. faults' \in 0 .. MaxFaults /\ UNCHANGED clientVars /\ ResetBarrier
    BY <1>3 DEF Inv, TypeOK, RestartLrsd, Fault
  <2> QED BY <2>1, ResetInv DEF Inv, TypeOK, clientVars
<1>4. ASSUME NEW c \in Client, Boot(c) PROVE Inv'
  <2>1. Window' BY <1>4, Untouched DEF Boot
  <2> QED BY <1>4, <2>1 DEF Inv, TypeOK, Boot
<1>5. ASSUME NEW c \in Client, Ask(c) PROVE Inv'
  BY <1>5, AskInv
<1>6. ASSUME NEW c \in Client, Unanswered(c) PROVE Inv'
  <2>1. Window' BY <1>6, Untouched DEF Unanswered
  <2> QED BY <1>6, <2>1 DEF Inv, TypeOK, Unanswered, Fault
<1>7. ASSUME NEW c \in Client, Wake(c) PROVE Inv'
  <2>1. Window' BY <1>7, Untouched DEF Wake
  <2> QED BY <1>7, <2>1 DEF Inv, TypeOK, Wake
<1>8. ASSUME NEW c \in Client, Load(c) PROVE Inv'
  <2>1. Window' BY <1>8, Untouched DEF Load
  <2>2. file' \in [Client -> 1 .. Files] /\ held' \in [Client -> 0 .. Files]
    BY <1>8 DEF Inv, TypeOK, Load
  <2> QED BY <1>8, <2>1, <2>2 DEF Inv, TypeOK, Load
<1>9. ASSUME NEW c \in Client, Reget(c) PROVE Inv'
  <2>1. Window' BY <1>9, Untouched DEF Reget
  <2>2. held' \in [Client -> 0 .. Files]
    BY <1>9 DEF Inv, TypeOK, Reget
  <2> QED BY <1>9, <2>1, <2>2 DEF Inv, TypeOK, Reget, Fault
<1>10. ASSUME NEW c \in Client, Complete(c) PROVE Inv'
  <2>1. ResetBarrier /\ UNCHANGED <<file, held, left, faults>>
    BY <1>10 DEF Complete
  <2>2. pc' \in [Client -> {"off", "ask", "wait", "load", "log", "done"}]
    BY <1>10 DEF Inv, TypeOK, Complete
  <2> QED BY <2>1, <2>2, ResetInv DEF Inv, TypeOK
<1>11. ASSUME NEW c \in Client, CompleteUnheard(c) PROVE Inv'
  <2>1. Window' BY <1>11, Untouched DEF CompleteUnheard
  <2> QED BY <1>11, <2>1 DEF Inv, TypeOK, CompleteUnheard, Fault
<1> QED BY <1>1, <1>2, <1>3, <1>4, <1>5, <1>6, <1>7, <1>8, <1>9, <1>10, <1>11 DEF Next

\* Two clients in the window of one barrier are at most FIRST seconds apart.
LEMMA WindowTogether == Inv => Together
<1> SUFFICES ASSUME Inv PROVE Together
  OBVIOUS
<1>1. ASSUME NEW c \in here, NEW d \in here PROVE left[c] - left[d] <= FIRST
  <2>1. left[c] \in Nat /\ left[d] \in Nat /\ since \in Nat
    BY BarrierAssumption DEF Inv, TypeOK, Never
  <2> QED BY <2>1, BarrierAssumption DEF Inv, Window
<1> QED BY <1>1 DEF Together, Inv, Window

LEMMA InvHolds == Spec => []Inv
BY InitInv, NextInv, PTL DEF Spec

\* lrsd's two numbers and the clients keep their types: no answer is negative or
\* longer than to + FIRST seconds, for every number of clients and of block files.
THEOREM BarrierTypes == Spec => []TypeOK
<1>1. Inv => TypeOK
  BY DEF Inv
<1> QED BY <1>1, InvHolds, PTL

\* The clients at a barrier leave it within FIRST seconds of each other and none
\* before its time, whatever is lost, reset or restarted, for any number of
\* clients, of block files and of seconds.
THEOREM BarrierTogether == Spec => []Together
BY WindowTogether, InvHolds, PTL
================================================================================
