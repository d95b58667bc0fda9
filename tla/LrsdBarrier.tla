------------------------------ MODULE LrsdBarrier ------------------------------
(***************************************************************************)
(* The barrier of a multicast restore.  Before each block file a client    *)
(* (autorestore, tftp_get) runs revowait, which asks lrsd how long to      *)
(* sleep, so that the machines of a room join the same multicast transfer. *)
(* lrsd keeps two numbers for all of them: lastfile, the last block file   *)
(* anybody began to wait for, and lasttime, when that was.                 *)
(*                                                                         *)
(* Times are kept as durations, so that the clock needs no bound: since is *)
(* time(NULL) - lasttime, and stops at Never, one more than the age at     *)
(* which lrsd forgets the barrier (lasttime = 0); left is what a client    *)
(* still has to sleep.  An answer comes within the second or not at all.   *)
(***************************************************************************)
EXTENDS Integers, FiniteSets

CONSTANTS Client,
          Files,      \* block files of the image, restored in order 1 .. Files
          to,         \* revowait=, the seconds to wait, on every client's command line
          FIRST,      \* more seconds for the first wait after a boot: 10
          RESET,      \* the age in seconds at which a barrier is forgotten: 3600
          Small,      \* block files under 3 MB
          Tiny,       \* of these, the ones under 30 KB
          MaxFaults   \* lost questions, block files got again, restarts of lrsd

ASSUME BarrierAssumption ==
  /\ Files \in Nat \ {0} /\ to \in Nat \ {0} /\ FIRST \in Nat /\ RESET \in Nat
  /\ to + FIRST <= RESET
  /\ Tiny \subseteq Small /\ Small \subseteq 1 .. Files
  /\ MaxFaults \in Nat

VARIABLES lastfile, since, \* lrsd
          pc,        \* client: "off", "ask", "wait", "load", "log", "done"
          file,      \* the block file it is at
          held,      \* the block file in /tmpfs, 0 for none
          left,
          here,      \* the clients given the whole of the wait for the present barrier
          faults

clientVars == <<pc, file, held, left>>
vars == <<lastfile, since, clientVars, here, faults>>

Never == RESET + 1

Init == /\ lastfile = 0 /\ since = Never
        /\ pc = [c \in Client |-> "off"]
        /\ file = [c \in Client |-> 1]
        /\ held = [c \in Client |-> 0]
        /\ left = [c \in Client |-> 0]
        /\ here = {}
        /\ faults = 0

Fault == faults < MaxFaults /\ faults' = faults + 1
--------------------------------------------------------------------------------
\* process_packet, 'T': what lrsd does with a question about block file f, and the
\* seconds it answers.
Forgotten == since > RESET
last == IF Forgotten THEN 0 ELSE lastfile

Wait_unclipped(f) == CASE f = last -> to - since
                      [] f < last -> 0
                      [] f > last -> IF Forgotten THEN to + FIRST ELSE to

Wait(f) == CASE f = last -> IF to - since < 0 THEN 0 ELSE to - since
             [] f < last -> 0
             [] f > last -> IF Forgotten THEN to + FIRST ELSE to

Synchro_keeps_time(f) == /\ lastfile' = IF f > last THEN f ELSE last
                       /\ since' = IF Forgotten THEN 0 ELSE since

Synchro(f) == /\ lastfile' = IF f > last THEN f ELSE last
              /\ since' = IF f > last THEN 0 ELSE since

\* 'L3', and a restart: no barrier.
ResetBarrier == lastfile' = 0 /\ since' = Never /\ here' = {}

\* revowait: a wait after a small file is cut to a second, after a tiny one to
\* nothing.
Sleep(c, wait) == IF wait = 0 \/ held[c] \in Tiny THEN 0
                  ELSE IF held[c] \in Small THEN 1 ELSE wait
--------------------------------------------------------------------------------
Boot(c) == /\ pc[c] = "off"
           /\ pc' = [pc EXCEPT ![c] = "ask"]
           /\ UNCHANGED <<lastfile, since, file, held, left, here, faults>>

Ask(c) ==
  LET wait == Wait(file[c])
      sleep == Sleep(c, wait)
      others == IF file[c] > last THEN {} ELSE here
  IN  /\ pc[c] = "ask"
      /\ Synchro(file[c])
      /\ left' = [left EXCEPT ![c] = sleep]
      /\ pc' = [pc EXCEPT ![c] = IF sleep = 0 THEN "load" ELSE "wait"]
      /\ here' = IF file[c] >= last /\ sleep = wait THEN others \union {c} ELSE others \ {c}
      /\ UNCHANGED <<file, held, faults>>

\* No answer: no wait.
Unanswered(c) == /\ pc[c] = "ask" /\ Fault
                 /\ pc' = [pc EXCEPT ![c] = "load"]
                 /\ here' = here \ {c}
                 /\ UNCHANGED <<lastfile, since, file, held, left>>

Wake(c) == /\ pc[c] = "wait" /\ left[c] = 0
           /\ pc' = [pc EXCEPT ![c] = "load"]
           /\ UNCHANGED <<lastfile, since, file, held, left, here, faults>>

\* tftp_get returns with the file in /tmpfs and restore goes on to the next one.
Load_again(c) == /\ pc[c] = "load"
                /\ held' = [held EXCEPT ![c] = file[c]]
                /\ pc' = [pc EXCEPT ![c] = IF file[c] = Files THEN "log" ELSE "ask"]
                /\ UNCHANGED <<lastfile, since, file, left, here, faults>>

Load(c) == /\ pc[c] = "load"
           /\ held' = [held EXCEPT ![c] = file[c]]
           /\ file' = [file EXCEPT ![c] = IF @ = Files THEN @ ELSE @ + 1]
           /\ pc' = [pc EXCEPT ![c] = IF file[c] = Files THEN "log" ELSE "ask"]
           /\ UNCHANGED <<lastfile, since, left, here, faults>>

\* A zlib error: the same file again, with its wait.
Reget(c) == /\ pc[c] = "load" /\ Fault
            /\ held' = [held EXCEPT ![c] = file[c]]
            /\ pc' = [pc EXCEPT ![c] = "ask"]
            /\ UNCHANGED <<lastfile, since, file, left, here>>

\* revosendlog 3, and 'L3' in process_packet.  Whoever is done resets the barrier
\* of all the others.
Complete(c) == /\ pc[c] = "log"
               /\ pc' = [pc EXCEPT ![c] = "done"]
               /\ ResetBarrier
               /\ UNCHANGED <<file, held, left, faults>>

CompleteUnheard(c) == /\ pc[c] = "log" /\ Fault
                      /\ pc' = [pc EXCEPT ![c] = "done"]
                      /\ UNCHANGED <<lastfile, since, file, held, left, here>>

RestartLrsd == Fault /\ ResetBarrier /\ UNCHANGED clientVars

\* A second passes; a client that has slept long enough is awake first.
Tick == /\ \A c \in Client : pc[c] = "wait" => left[c] > 0
        /\ since' = IF since = Never THEN since ELSE since + 1
        /\ left' = [c \in Client |-> IF left[c] > 0 THEN left[c] - 1 ELSE 0]
        /\ UNCHANGED <<lastfile, pc, file, held, here, faults>>

Next == \/ Tick \/ RestartLrsd
        \/ \E c \in Client : \/ Boot(c) \/ Ask(c) \/ Unanswered(c) \/ Wake(c) \/ Load(c)
                             \/ Reget(c) \/ Complete(c) \/ CompleteUnheard(c)

Spec == Init /\ [][Next]_vars

\* Time passes, and a client that is on goes on.  Nobody need switch one on.
FairSpec == /\ Spec /\ WF_vars(Tick)
            /\ \A c \in Client : WF_vars(Ask(c) \/ Wake(c) \/ Load(c) \/ Complete(c))
--------------------------------------------------------------------------------
\* No wait is negative or longer than lrsd gives (lrsd.c 432-444).
TypeOK ==
  /\ lastfile \in 0 .. Files /\ since \in 0 .. Never
  /\ pc \in [Client -> {"off", "ask", "wait", "load", "log", "done"}]
  /\ file \in [Client -> 1 .. Files] /\ held \in [Client -> 0 .. Files]
  /\ left \in [Client -> 0 .. to + FIRST]
  /\ here \subseteq Client
  /\ faults \in 0 .. MaxFaults

\* The clients at one barrier leave it within FIRST seconds of each other, the
\* latecomers included, and none before "to" seconds have passed since it was set
\* up (lrsd.c 419-452), whoever was lost, came late or asked twice.
Together ==
  /\ \A c, d \in here : left[c] - left[d] <= FIRST
  /\ \A c \in here : left[c] >= to - since

\* A client that asked comes to the end of the image, however often the barrier
\* was reset, moved on or not answered for (autorestore.c 370-393, revowait).
Completes == \A c \in Client : pc[c] = "ask" ~> pc[c] = "done"
================================================================================
