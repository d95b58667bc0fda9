-------------------------- MODULE LscDispatchProofs --------------------------
(* Theorems about LscDispatch, for every set of commands, hosts, targets   *)
(* and dispatchers and any number of crashes.                              *)
EXTENDS LscDispatch, TLAPS

\* A process holds a command, the hosts it has left behind have a row.
Behind(rec) ==
    rec.pc \in {"hosts", "insert"} =>
        \A h \in HostsOf[rec.cmd] \ rec.todo : rows[rec.cmd][h] > 0

\* The inductive invariant of Covered.
CoverInv == Covered /\ \A p \in Dispatcher : Behind(process[p])

LEMMA IdleType == Idle \in ProcessType
  BY DEF Idle, ProcessType

LEMMA TypeInit == Init => TypeOK
  BY IdleType DEF Init, TypeOK, Idle

\* A process turns into rec.
LEMMA ProcessTypes ==
  ASSUME TypeOK, NEW p \in Dispatcher, NEW rec \in ProcessType,
         process' = [process EXCEPT ![p] = rec],
         rec.pc # "idle" => rec.cmd \in Command,
         rec.pc = "insert" => rec.host \in rec.todo
  PROVE  /\ process' \in [Dispatcher -> ProcessType]
         /\ \A q \in Dispatcher :
               /\ process'[q].pc # "idle" => process'[q].cmd \in Command
               /\ process'[q].pc = "insert" => process'[q].host \in process'[q].todo
  BY DEF TypeOK

\* Every step keeps the types.
LEMMA TypeNext == TypeOK /\ [Next]_vars => TypeOK'
  <1>1. ASSUME TypeOK, UNCHANGED vars PROVE TypeOK'
    BY <1>1 DEF TypeOK, vars
  <1>2. ASSUME TypeOK, NEW c \in Command, add_command(c) PROVE TypeOK'
    BY <1>2 DEF TypeOK, add_command
  <1>3. ASSUME TypeOK, NEW p \in Dispatcher, dispatch_all_commands(p) PROVE TypeOK'
    <2>1. PICK c \in Undispatched :
             process' = [process EXCEPT ![p] = [Idle EXCEPT !.pc = "test", !.cmd = c,
                                                            !.found = Undispatched]]
      BY <1>3 DEF dispatch_all_commands
    <2>2. [Idle EXCEPT !.pc = "test", !.cmd = c, !.found = Undispatched] \in ProcessType
      BY DEF Idle, ProcessType, Undispatched
    <2>3. QED
      BY <1>3, <2>1, <2>2, ProcessTypes
      DEF dispatch_all_commands, TypeOK, Idle, Undispatched
  <1>4. ASSUME TypeOK, NEW p \in Dispatcher, EndPass(p)
        PROVE  /\ process' \in [Dispatcher -> ProcessType]
               /\ \A q \in Dispatcher :
                    /\ process'[q].pc # "idle" => process'[q].cmd \in Command
                    /\ process'[q].pc = "insert" => process'[q].host \in process'[q].todo
    BY <1>4, IdleType, ProcessTypes DEF EndPass, Idle
  <1>5. ASSUME TypeOK, NEW p \in Dispatcher, get_dispatched(p) PROVE TypeOK'
    <2>1. CASE EndPass(p)
      BY <1>4, <1>5, <2>1 DEF get_dispatched, TypeOK
    <2>2. CASE process' = [process EXCEPT ![p].pc = "hosts",
                                          ![p].todo = HostsOf[process[p].cmd]]
      <3>1. process[p].cmd \in Command
        BY <1>5 DEF get_dispatched, TypeOK
      <3>2. HostsOf[process[p].cmd] \in SUBSET Host
        BY <3>1, HostsAssumption
      <3>3. QED
        BY <1>5, <2>2, <3>1, <3>2, ZenonT(30) DEF get_dispatched, TypeOK, ProcessType
    <2>3. QED
      BY <1>5, <2>1, <2>2 DEF get_dispatched
  <1>6. ASSUME TypeOK, NEW p \in Dispatcher, get_by_host_and_id_command(p) PROVE TypeOK'
    <2>1. PICK h \in process[p].todo :
             \/ process' = [process EXCEPT ![p].pc = "insert", ![p].host = h]
             \/ process' = [process EXCEPT ![p].todo = @ \ {h}]
      BY <1>6 DEF get_by_host_and_id_command
    <2>2. process[p] \in ProcessType /\ h \in Host /\ process[p].cmd \in Command
      BY <1>6 DEF get_by_host_and_id_command, TypeOK, ProcessType
    <2>3. CASE process' = [process EXCEPT ![p].pc = "insert", ![p].host = h]
      BY <1>6, <2>2, <2>3 DEF get_by_host_and_id_command, TypeOK, ProcessType
    <2>4. CASE process' = [process EXCEPT ![p].todo = @ \ {h}]
      BY <1>6, <2>2, <2>4 DEF get_by_host_and_id_command, TypeOK, ProcessType
    <2>5. QED
      BY <2>1, <2>3, <2>4
  <1>7. ASSUME TypeOK, NEW p \in Dispatcher, Insert(p) PROVE TypeOK'
    <2>1. /\ process[p].cmd \in Command /\ process[p].host \in Host
          /\ process[p] \in ProcessType
      BY <1>7 DEF Insert, TypeOK, ProcessType
    <2>2. rows' \in [Command -> [Host -> Nat]]
      BY <1>7, <2>1 DEF Insert, TypeOK
    <2>3. /\ process' \in [Dispatcher -> ProcessType]
          /\ process'[p].pc = "hosts" /\ process'[p].cmd = process[p].cmd
          /\ \A q \in Dispatcher : q # p => process'[q] = process[q]
      BY <1>7, <2>1 DEF Insert, TypeOK, ProcessType
    <2>4. QED
      BY <1>7, <2>1, <2>2, <2>3 DEF Insert, TypeOK
  <1>8. ASSUME TypeOK, NEW p \in Dispatcher, set_dispatched(p) \/ Crash(p) PROVE TypeOK'
    BY <1>4, <1>8 DEF set_dispatched, Crash, TypeOK
  <1>9. QED
    BY <1>1, <1>2, <1>3, <1>5, <1>6, <1>7, <1>8 DEF Next, Step

\* Every reachable state of the dispatchers is well typed.
THEOREM DispatchTypeCorrect == Spec => []TypeOK
  BY TypeInit, TypeNext, PTL DEF Spec

-----------------------------------------------------------------------------
\* A step that leaves the commands or rows alone, and every process where it
\* was, idle, or with a list that is justified.
LEMMA CoverKept ==
  ASSUME TypeOK, CoverInv,
         \A c \in Command, h \in Host : rows'[c][h] >= rows[c][h],
         rows' \in [Command -> [Host -> Nat]],
         \A q \in Dispatcher : process'[q] = process[q] \/ Behind(process[q])',
         Covered'
  PROVE  CoverInv'
  <1>1. ASSUME NEW q \in Dispatcher, process'[q] = process[q]
        PROVE  Behind(process[q])'
    <2>1. Behind(process[q])
      BY DEF CoverInv
    <2>2. process[q].pc # "idle" => process[q].cmd \in Command
      BY DEF TypeOK
    <2>3. process[q].cmd \in Command => HostsOf[process[q].cmd] \subseteq Host
      BY HostsAssumption
    <2>4. QED
      BY <1>1, <2>1, <2>2, <2>3 DEF Behind, TypeOK
  <1>2. QED
    BY <1>1 DEF CoverInv

LEMMA CoverNext == TypeOK /\ CoverInv /\ [Next]_vars => CoverInv'
  <1> SUFFICES ASSUME TypeOK, CoverInv, [Next]_vars PROVE CoverInv'
    OBVIOUS
  <1>1. \A c \in Command : HostsOf[c] \subseteq Host
    BY HostsAssumption
  <1>2. TypeOK'
    BY TypeNext
  <1>3. \A c \in Command, h \in Host : rows'[c][h] >= rows[c][h]
    <2>1. CASE rows' = rows
      BY <2>1 DEF TypeOK
    <2>2. ASSUME NEW p \in Dispatcher, Insert(p)
          PROVE  \A c \in Command, h \in Host : rows'[c][h] >= rows[c][h]
      BY <2>2 DEF Insert, TypeOK
    <2>3. QED
      BY <2>1, <2>2
      DEF Next, Step, add_command, dispatch_all_commands, get_dispatched,
          get_by_host_and_id_command, set_dispatched, Crash, vars
  <1>4. Covered'
    <2>1. ASSUME NEW c \in Command, dispatched'[c] = "YES", NEW h \in HostsOf[c]
          PROVE  rows'[c][h] > 0
      <3>1. dispatched[c] = "YES" \/ \E p \in Dispatcher : set_dispatched(p) /\ process[p].cmd = c
        BY <2>1 DEF TypeOK, Next, Step, add_command, dispatch_all_commands, get_dispatched,
           get_by_host_and_id_command, Insert, set_dispatched, Crash, vars
      <3>2. rows[c][h] > 0
        BY <2>1, <3>1 DEF CoverInv, Covered, Behind, set_dispatched
      <3>3. QED
        BY <1>1, <1>2, <1>3, <2>1, <3>2 DEF TypeOK
    <2>2. QED
      BY <2>1 DEF Covered
  <1>5. ASSUME NEW q \in Dispatcher
        PROVE  process'[q] = process[q] \/ Behind(process[q])'
    <2>1. CASE UNCHANGED vars
      BY <2>1 DEF vars
    <2>2. ASSUME NEW c \in Command, add_command(c)
          PROVE  process'[q] = process[q]
      BY <2>2 DEF add_command
    <2>3. ASSUME NEW p \in Dispatcher, Step(p) \/ Crash(p), p # q
          PROVE  process'[q] = process[q]
      BY <2>3 DEF Step, Crash, TypeOK, dispatch_all_commands, get_dispatched,
           get_by_host_and_id_command, Insert, set_dispatched, EndPass
    <2>4. CASE EndPass(q)
      BY <2>4 DEF EndPass, TypeOK, Idle, Behind
    <2>5. CASE dispatch_all_commands(q)
      <3>1. process'[q].pc = "test"
        BY <2>5 DEF dispatch_all_commands, TypeOK, Idle
      <3>2. QED
        BY <3>1 DEF Behind
    <2>6. CASE process' = [process EXCEPT ![q].pc = "hosts",
                                          ![q].todo = HostsOf[process[q].cmd]]
      <3>1. process'[q].cmd = process[q].cmd /\ process'[q].todo = HostsOf[process[q].cmd]
        BY <2>6 DEF TypeOK, ProcessType
      <3>2. QED
        BY <3>1 DEF Behind
    <2>7. CASE get_by_host_and_id_command(q)
      <3>1. process[q].cmd \in Command /\ process[q].pc = "hosts" /\ rows' = rows
        BY <2>7 DEF get_by_host_and_id_command, TypeOK
      <3>2. Behind(process[q])
        BY DEF CoverInv
      <3>3. PICK h \in process[q].todo :
              \/ process' = [process EXCEPT ![q].pc = "insert", ![q].host = h]
              \/ /\ process' = [process EXCEPT ![q].todo = @ \ {h}]
                 /\ rows[process[q].cmd][h] # 0
        BY <2>7 DEF get_by_host_and_id_command
      <3>4. h \in Host
        BY DEF TypeOK, ProcessType
      <3>5. /\ process'[q].cmd = process[q].cmd
            /\ \A g \in process[q].todo \ process'[q].todo : rows[process[q].cmd][g] > 0
        BY <3>1, <3>3, <3>4 DEF TypeOK, ProcessType
      <3>6. QED
        BY <3>1, <3>2, <3>5 DEF Behind
    <2>8. CASE Insert(q)
      <3> DEFINE c == process[q].cmd
                 h == process[q].host
      <3>1. c \in Command /\ h \in Host
        BY <2>8 DEF Insert, TypeOK, ProcessType
      <3>2. Behind(process[q]) /\ process[q].pc = "insert"
        BY <2>8 DEF CoverInv, Insert
      <3>3. process'[q].cmd = c /\ process'[q].todo = process[q].todo \ {h}
        BY <2>8 DEF Insert, TypeOK, ProcessType
      <3>4. rows'[c][h] > 0
        BY <2>8, <3>1 DEF Insert, TypeOK
      <3>5. \A g \in Host : rows[c][g] > 0 => rows'[c][g] > 0
        BY <1>2, <1>3, <3>1 DEF TypeOK
      <3>6. QED
        BY <1>1, <3>1, <3>2, <3>3, <3>4, <3>5 DEF Behind
    <2>9. QED
      BY <2>1, <2>2, <2>3, <2>4, <2>5, <2>6, <2>7, <2>8
      DEF Next, Step, get_dispatched, set_dispatched, Crash
  <1>6. QED
    BY <1>2, <1>3, <1>4, <1>5, CoverKept DEF TypeOK

\* A command that is marked as dispatched has a row on every host of its
\* target: nobody will look at it again, so a host that was missed would be
\* missed for ever.  Any number of dispatchers may race and crash.
THEOREM DispatchCovers == Spec => []Covered
  <1>1. Init => CoverInv
    BY DEF Init, CoverInv, Covered, Behind, Idle
  <1>2. CoverInv => Covered
    BY DEF CoverInv
  <1>3. QED
    BY <1>1, <1>2, CoverNext, DispatchTypeCorrect, PTL DEF Spec

-----------------------------------------------------------------------------
\* One process dispatches: what cron does when nobody uses the pages.
Alone == \A p, q \in Dispatcher : p = q

\* The inductive invariant of OneRowPerHost: the host that is about to get a
\* row has none.
RowInv ==
    /\ OneRowPerHost
    /\ \A p \in Dispatcher : process[p].pc = "insert" =>
          rows[process[p].cmd][process[p].host] = 0

LEMMA RowNext ==
  ASSUME Alone
  PROVE  TypeOK /\ RowInv /\ [Next]_vars => RowInv'
  <1> SUFFICES ASSUME TypeOK, RowInv, [Next]_vars PROVE RowInv'
    OBVIOUS
  <1>1. CASE UNCHANGED vars
    BY <1>1 DEF vars, RowInv, OneRowPerHost
  <1>2. ASSUME NEW c \in Command, add_command(c) PROVE RowInv'
    BY <1>2 DEF add_command, RowInv, OneRowPerHost
  <1>3. ASSUME NEW p \in Dispatcher, rows' = rows, process'[p].pc # "insert"
        PROVE  RowInv'
    BY <1>3 DEF Alone, RowInv, OneRowPerHost
  <1>4. ASSUME NEW p \in Dispatcher, dispatch_all_commands(p) PROVE RowInv'
    <2>1. process'[p].pc = "test"
      BY <1>4 DEF dispatch_all_commands, TypeOK, Idle
    <2>2. QED
      BY <1>3, <1>4, <2>1 DEF dispatch_all_commands
  <1>5. ASSUME NEW p \in Dispatcher, get_dispatched(p) PROVE RowInv'
    <2>1. process'[p].pc # "insert"
      BY <1>5 DEF get_dispatched, EndPass, TypeOK, Idle, ProcessType
    <2>2. QED
      BY <1>3, <1>5, <2>1 DEF get_dispatched
  <1>6. ASSUME NEW p \in Dispatcher, get_by_host_and_id_command(p) PROVE RowInv'
    <2>1. PICK h \in process[p].todo :
             \/ /\ process' = [process EXCEPT ![p].pc = "insert", ![p].host = h]
                /\ rows[process[p].cmd][h] = 0
             \/ process' = [process EXCEPT ![p].todo = @ \ {h}]
      BY <1>6 DEF get_by_host_and_id_command
    <2>2. rows' = rows /\ process[p].pc = "hosts"
      BY <1>6 DEF get_by_host_and_id_command
    <2>3. CASE process' = [process EXCEPT ![p].todo = @ \ {h}]
      <3>1. process'[p].pc # "insert"
        BY <2>2, <2>3 DEF TypeOK, ProcessType
      <3>2. QED
        BY <1>3, <2>2, <3>1
    <2>4. CASE /\ process' = [process EXCEPT ![p].pc = "insert", ![p].host = h]
               /\ rows[process[p].cmd][h] = 0
      <3>1. process'[p].cmd = process[p].cmd /\ process'[p].host = h
        BY <2>4 DEF TypeOK, ProcessType
      <3>2. QED
        BY <2>2, <2>4, <3>1 DEF Alone, RowInv, OneRowPerHost
    <2>5. QED
      BY <2>1, <2>3, <2>4
  <1>7. ASSUME NEW p \in Dispatcher, Insert(p) PROVE RowInv'
    <2>1. process[p].cmd \in Command /\ process[p].host \in Host
      BY <1>7 DEF Insert, TypeOK, ProcessType
    <2>2. rows[process[p].cmd][process[p].host] = 0
      BY <1>7 DEF RowInv, Insert
    <2>3. \A c \in Command, h \in Host :
             rows'[c][h] = rows[c][h] \/ rows'[c][h] = 1
      BY <1>7, <2>1, <2>2 DEF Insert, TypeOK
    <2>4. process'[p].pc = "hosts"
      BY <1>7 DEF Insert, TypeOK, ProcessType
    <2>5. QED
      BY <2>3, <2>4 DEF Alone, RowInv, OneRowPerHost
  <1>8. ASSUME NEW p \in Dispatcher, set_dispatched(p) \/ Crash(p) PROVE RowInv'
    <2>1. process'[p].pc # "insert"
      BY <1>8 DEF set_dispatched, Crash, EndPass, TypeOK, Idle
    <2>2. QED
      BY <1>3, <1>8, <2>1 DEF set_dispatched, Crash
  <1>9. QED
    BY <1>1, <1>2, <1>4, <1>5, <1>6, <1>7, <1>8 DEF Next, Step

\* A dispatcher that runs alone gives each host one row, however often it
\* dies in the middle of a command and starts it over.
THEOREM SingleDispatcherOneRow ==
  ASSUME Alone
  PROVE  Spec => []OneRowPerHost
  <1>1. Init => RowInv
    BY DEF Init, RowInv, OneRowPerHost, Idle
  <1>2. RowInv => OneRowPerHost
    BY DEF RowInv
  <1>3. TypeOK /\ RowInv /\ [Next]_vars => RowInv'
    BY RowNext
  <1>4. QED
    BY <1>1, <1>2, <1>3, DispatchTypeCorrect, PTL DEF Spec
=============================================================================
