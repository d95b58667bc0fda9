----------------------------- MODULE LscDispatch -----------------------------
(***************************************************************************)
(* The dispatcher of the LSC scheduler: pages add commands to the table    *)
(* commands; cron and three pages run dispatch_all_commands, which turns a *)
(* command that is not dispatched into one row of commands_on_host per     *)
(* host of its target and then marks the command.  Nothing is locked, so   *)
(* every SQL statement is a step of its own, and a process may die between *)
(* two of them (a page request that is aborted, a reboot).                 *)
(***************************************************************************)
EXTENDS Naturals

CONSTANTS
    Command,     \* the ids of the commands
    Host,
    HostsOf,     \* the hosts of the target of each command (LSC_Path)
    Dispatcher,  \* the processes that may run dispatch_all_commands
    None,        \* no command, no host
    MaxCrash     \* how many of them may die

ASSUME HostsAssumption == HostsOf \in [Command -> SUBSET Host]
ASSUME NoneAssumption  == None \notin Command /\ None \notin Host
ASSUME CrashAssumption == MaxCrash \in Nat

VARIABLES
    dispatched,  \* the column commands.dispatched, "none" before the INSERT
    rows,        \* how many rows commands_on_host has for a command and host
    process,     \* the local state of each dispatcher
    crashes      \* how many have died

vars == <<dispatched, rows, process, crashes>>

-----------------------------------------------------------------------------
\* found: the commands the first SELECT has found; cmd: the one dispatch()
\* works on; todo: the hosts the foreach has not left behind; host: the host
\* that has no row yet.
ProcessType == [pc: {"idle", "test", "hosts", "insert"}, found: SUBSET Command,
                cmd: Command \cup {None}, todo: SUBSET Host,
                host: Host \cup {None}]

Idle == [pc |-> "idle", found |-> {}, cmd |-> None, todo |-> {}, host |-> None]

\* The types of the variables; a process past the SELECT has a command, and
\* one about to INSERT a host of its list.
TypeOK ==
    /\ dispatched \in [Command -> {"none", "NO", "YES"}]
    /\ rows \in [Command -> [Host -> Nat]]
    /\ process \in [Dispatcher -> ProcessType]
    /\ \A p \in Dispatcher :
          /\ process[p].pc # "idle" => process[p].cmd \in Command
          /\ process[p].pc = "insert" => process[p].host \in process[p].todo
    /\ crashes \in Nat

Init ==
    /\ dispatched = [c \in Command |-> "none"]
    /\ rows = [c \in Command |-> [h \in Host |-> 0]]
    /\ process = [p \in Dispatcher |-> Idle]
    /\ crashes = 0

-----------------------------------------------------------------------------
\* A page adds a command.
add_command(c) ==
    /\ dispatched[c] = "none"
    /\ dispatched' = [dispatched EXCEPT ![c] = "NO"]
    /\ UNCHANGED <<rows, process, crashes>>

Undispatched == {c \in Command : dispatched[c] = "NO"}

\* The SELECT and the first next_record().  The query has no ORDER BY.
dispatch_all_commands(p) ==
    /\ process[p].pc = "idle"
    /\ \E c \in Undispatched :
          process' = [process EXCEPT ![p] = [Idle EXCEPT !.pc = "test", !.cmd = c,
                                                         !.found = Undispatched]]
    /\ UNCHANGED <<dispatched, rows, crashes>>

\* The queries of dispatch() replace the result the loop of
\* dispatch_all_commands is reading ($database is one object for both), so
\* the loop ends with the first command.
EndPass(p) == process' = [process EXCEPT ![p] = Idle]

\* get_dispatched(), then the hosts of the target.
get_dispatched(p) ==
    /\ process[p].pc = "test"
    /\ IF dispatched[process[p].cmd] = "YES"
         THEN EndPass(p)
         ELSE process' = [process EXCEPT ![p].pc = "hosts",
                                         ![p].todo = HostsOf[process[p].cmd]]
    /\ UNCHANGED <<dispatched, rows, crashes>>

\* Variants: the host is left behind before its row is inserted; the test is
\* left out.
get_by_host_early(p) ==
    /\ process[p].pc = "hosts"
    /\ \E h \in process[p].todo :
          IF rows[process[p].cmd][h] = 0
            THEN process' = [process EXCEPT ![p].pc = "insert", ![p].host = h,
                                            ![p].todo = @ \ {h}]
            ELSE process' = [process EXCEPT ![p].todo = @ \ {h}]
    /\ UNCHANGED <<dispatched, rows, crashes>>
get_by_host_untested(p) ==
    /\ process[p].pc = "hosts"
    /\ \E h \in process[p].todo :
          process' = [process EXCEPT ![p].pc = "insert", ![p].host = h]
    /\ UNCHANGED <<dispatched, rows, crashes>>

\* get_by_host_and_id_command() for the next host: -1 when there is no row.
get_by_host_and_id_command(p) ==
    /\ process[p].pc = "hosts"
    /\ \E h \in process[p].todo :
          IF rows[process[p].cmd][h] = 0
            THEN process' = [process EXCEPT ![p].pc = "insert", ![p].host = h]
            ELSE process' = [process EXCEPT ![p].todo = @ \ {h}]
    /\ UNCHANGED <<dispatched, rows, crashes>>

\* update() of the new row: INSERT.
Insert(p) ==
    /\ process[p].pc = "insert"
    /\ rows' = [rows EXCEPT ![process[p].cmd][process[p].host] = @ + 1]
    /\ process' = [process EXCEPT ![p].pc = "hosts", ![p].host = None,
                                  ![p].todo = @ \ {process[p].host}]
    /\ UNCHANGED <<dispatched, crashes>>

\* Variants: the command is marked before the last host; it is not marked.
set_dispatched_early(p) ==
    /\ process[p].pc = "hosts"
    /\ dispatched' = [dispatched EXCEPT ![process[p].cmd] = "YES"]
    /\ EndPass(p)
    /\ UNCHANGED <<rows, crashes>>
set_dispatched_lost(p) ==
    /\ process[p].pc = "hosts"
    /\ process[p].todo = {}
    /\ EndPass(p)
    /\ UNCHANGED <<dispatched, rows, crashes>>

\* set_dispatched(true) after the last host.
set_dispatched(p) ==
    /\ process[p].pc = "hosts"
    /\ process[p].todo = {}
    /\ dispatched' = [dispatched EXCEPT ![process[p].cmd] = "YES"]
    /\ EndPass(p)
    /\ UNCHANGED <<rows, crashes>>

Crash(p) ==
    /\ crashes < MaxCrash
    /\ process[p].pc # "idle"
    /\ crashes' = crashes + 1
    /\ EndPass(p)
    /\ UNCHANGED <<dispatched, rows>>

Step(p) ==
    \/ dispatch_all_commands(p) \/ get_dispatched(p)
    \/ get_by_host_and_id_command(p) \/ Insert(p) \/ set_dispatched(p)

Next ==
    \/ \E c \in Command : add_command(c)
    \/ \E p \in Dispatcher : Step(p) \/ Crash(p)

Spec == Init /\ [][Next]_vars

\* cron runs the dispatcher again and again, and a process that runs goes on.
Fairness == \A p \in Dispatcher : WF_vars(Step(p))
FairSpec == Spec /\ Fairness

-----------------------------------------------------------------------------
(* Properties.                                                             *)

\* A command marked as dispatched, which nobody looks at again, has a row for
\* every host of its target, although several processes may have shared the
\* work and some died in the middle of it.
Covered ==
    \A c \in Command : dispatched[c] = "YES" =>
        \A h \in HostsOf[c] : rows[c][h] > 0

\* A host has one row at most for a command (commands.inc.php:348, "One
\* record by host of group"), also when a process dies half way and the next
\* one starts the command over.
OneRowPerHost == \A c \in Command, h \in Host : rows[c][h] <= 1

\* A command that was added is dispatched at last, behind whatever number of
\* other commands and after whatever crashes.
Dispatches == \A c \in Command : dispatched[c] = "NO" ~> dispatched[c] = "YES"
=============================================================================
