----------------------------- MODULE LscLauncher -----------------------------
(***************************************************************************)
(* The LSC command launcher: rows of commands_on_host are picked up by     *)
(* passes of start_all_commands (cron every ten minutes, and every visit   *)
(* of three web pages), each row is handed to a background process         *)
(* start_command_on_host.php that claims it, connects to the host, uploads *)
(* the files, runs the script and deletes the files, while operators press *)
(* play, pause and stop on other pages.  The processes share only the      *)
(* database, so every SQL statement is a step of its own; a SELECT and the *)
(* test of its result are one step, the statement that follows is another. *)
(* One step each: the COUNT and the SELECT of start_all_commands, the two  *)
(* UPDATEs of HostPlayReset, the five of PlayRow (one per group of states, *)
(* each selecting what the others do not) and the two dates of Retry.      *)
(* Rows of commands_history are written and never read back: left out.     *)
(***************************************************************************)
EXTENDS LscRow, FiniteSets

CONSTANTS
    Row,       \* the ids of the rows of commands_on_host
    Launcher,  \* the processes start_command_on_host.php, by pid
    Pass,      \* the processes that may run start_all_commands
    NoPid,     \* the current_pid -1
    Command,   \* the command of each row, see CommandType
    MAX_COMMAND_LAUNCHER_PROCESSUS,
    MaxTime,   \* the clock stops here
    Ops,       \* what the operator may do, a subset of OpKind
    MaxOps,    \* how often
    Overlap,   \* FALSE: no pass while a launcher of a row it selects lives
    CanCrash   \* TRUE: a launcher may die at any point

OpKind == {"pause", "play", "stop", "command_pause", "command_play",
           "command_stop"}

\* The columns of table commands the launcher reads: id_command, whether
\* files, start_script and delete_file_after_execute_successful ask for a
\* phase, repeat, max_connection_attempt, next_connection_delay, the dates;
\* known: the host has an address in the ether file; legacy: see NewRow.
CommandType == [id: Nat, files: BOOLEAN, script: BOOLEAN, delete: BOOLEAN,
                repeat: Nat, attempts: Nat, delay: Nat, start: Nat, end: Nat,
                known: BOOLEAN, legacy: BOOLEAN]

ASSUME RowAssumption      == Row \subseteq (Nat \ {0})
ASSUME NoPidAssumption    == NoPid \notin Launcher
ASSUME CommandAssumption  == Command \in [Row -> CommandType]
ASSUME BoundAssumption    == /\ MAX_COMMAND_LAUNCHER_PROCESSUS \in Nat
                             /\ MaxTime \in Nat
                             /\ MaxOps \in Nat
                             /\ Ops \subseteq OpKind
                             /\ Overlap \in BOOLEAN
                             /\ CanCrash \in BOOLEAN

VARIABLES
    coh,       \* the table commands_on_host
    launcher,  \* the local state of each launcher process
    pass,      \* the rows each pass has selected and not yet started
    operator,  \* the operator's request in progress
    clock,     \* the time of day
    work       \* what was done on the host of each row in this period

vars == <<coh, launcher, pass, operator, clock, work>>

-----------------------------------------------------------------------------
(* Types.                                                                  *)

PC == {"idle", "start", "claim", "connect", "reach", "nomac", "unreach",
       "dec", "retry", "connfail", "check", "decide", "mark", "flag", "run",
       "result", "setflag", "skip", "skipflag", "final", "setdone",
       "resched", "update", "free1", "free2", "dead"}

Pid == Launcher \cup {NoPid}

RowType == [start: Nat, next: Nat, state: State, step: [Phase -> Flag],
            attempts: Nat, pid: Pid]

\* pc: the next statement; row: its argument, 0 for none; phase: the phase
\* execute() is in; att: $remains_connection_attempt; ok: the last remote
\* command returned 0; sess: $session is set; zero, legacy: what the
\* constructor read of next_launch_date and start_date; snap: the columns
\* update() writes back.
LauncherType == [pc: PC, row: Row \cup {0}, phase: Phase, att: Nat,
                 ok: BOOLEAN, sess: BOOLEAN, zero: BOOLEAN, legacy: BOOLEAN,
                 snap: [next: Nat, pid: Pid]]

Idle == [pc |-> "idle", row |-> 0, phase |-> "upload", att |-> 0,
         ok |-> FALSE, sess |-> FALSE, zero |-> FALSE, legacy |-> FALSE,
         snap |-> [next |-> 0, pid |-> NoPid]]

\* up: the files were copied; ran: how often the script succeeded;
\* tries: how many connections failed.
WorkType == [up: BOOLEAN, ran: Nat, tries: Nat]
NoWork   == [up |-> FALSE, ran |-> 0, tries |-> 0]

OperatorType == [act: {"none", "kill", "stop", "play"}, row: Row \cup {0},
                 pid: Pid, left: Nat]

\* The types of the variables; a launcher that tries to connect has an
\* attempt left to take away, so number_attempt_connection_remains never
\* goes below 0.
TypeOK ==
    /\ coh \in [Row -> RowType]
    /\ launcher \in [Launcher -> LauncherType]
    /\ \A l \in Launcher :
          /\ launcher[l].pc # "idle" => launcher[l].row \in Row
          /\ launcher[l].pc \in {"reach", "unreach", "dec"} => launcher[l].att > 0
    /\ pass \in [Pass -> SUBSET Row]
    /\ operator \in OperatorType
    /\ operator.act # "none" => operator.row \in Row
    /\ operator.act = "kill" => operator.pid \in Launcher
    /\ clock \in Nat
    /\ work \in [Row -> WorkType]

Init ==
    /\ coh = [r \in Row |-> NewRow(Command[r], NoPid)]
    /\ launcher = [l \in Launcher |-> Idle]
    /\ pass = [p \in Pass |-> {}]
    /\ operator = [act |-> "none", row |-> 0, pid |-> NoPid, left |-> MaxOps]
    /\ clock = 1
    /\ work = [r \in Row |-> NoWork]

-----------------------------------------------------------------------------
(* Abbreviations: where a launcher is, and what it becomes.                *)

At(l, p) == launcher[l].pc = p
RowOf(l) == launcher[l].row
Cmd(l)   == Command[RowOf(l)]
Become(l, rec) == launcher' = [launcher EXCEPT ![l] = rec]
Goto(l, p) == Become(l, [launcher[l] EXCEPT !.pc = p])

\* On the way out the local variables no longer matter.
Leave(l, p) == Become(l, [Idle EXCEPT !.pc = p, !.row = launcher[l].row])

-----------------------------------------------------------------------------
(* start_all_commands.                                                     *)

Due == {r \in Row : Startable(coh[r], clock, NoPid)}

Running == {r \in Row : coh[r].pid # NoPid}

Live(l) == launcher[l].pc \notin {"idle", "dead"}

\* The environment of the runs without overlap: a launcher of a row that is
\* due, and every other pass, has ended when a pass begins.
Quiet == /\ \A l \in Launcher : Live(l) => launcher[l].row \notin Due
         /\ \A p \in Pass : pass[p] = {}

\* ORDER BY date_created LIMIT MAX_COMMAND_LAUNCHER_PROCESSUS: the oldest
\* commands first; rows of one command come in any order.
Oldest(S) ==
    /\ S \subseteq Due
    /\ Cardinality(S) <= MAX_COMMAND_LAUNCHER_PROCESSUS
    /\ Cardinality(S) < MAX_COMMAND_LAUNCHER_PROCESSUS => S = Due
    /\ \A r \in S, q \in Due \ S : Command[r].id <= Command[q].id

start_all_commands(p) ==
    /\ pass[p] = {}
    /\ Cardinality(Running) < MAX_COMMAND_LAUNCHER_PROCESSUS
    /\ Overlap \/ Quiet
    /\ \E S \in SUBSET Due : Oldest(S) /\ pass' = [pass EXCEPT ![p] = S]
    /\ UNCHANGED <<coh, launcher, operator, clock, work>>

\* The loop over the selected rows starts one process in the background for
\* each; nothing in the table says that it did.
Spawn(p) ==
    /\ \E r \in pass[p], l \in Launcher :
          /\ launcher[l].pc = "idle"
          /\ Become(l, [Idle EXCEPT !.pc = "start", !.row = r])
          /\ pass' = [pass EXCEPT ![p] = @ \ {r}]
    /\ UNCHANGED <<coh, operator, clock, work>>

Tick ==
    /\ clock < MaxTime
    /\ clock' = clock + 1
    /\ UNCHANGED <<coh, launcher, pass, operator, work>>

-----------------------------------------------------------------------------
(* start_command_on_host.php and the constructor LSC_Command_Launcher.     *)

\* Variant: the UPDATE has "and current_pid = -1" in its WHERE clause.
SetPid_if_free(l, i) ==
    coh' = [coh EXCEPT ![RowOf(l)].pid = IF @ = NoPid THEN i ELSE @]

\* One UPDATE of the row of launcher l.
SetState(l, s) == coh' = [coh EXCEPT ![RowOf(l)].state = s]
SetPid(l, i)   == coh' = [coh EXCEPT ![RowOf(l)].pid = i]
SetStep(l, f)  == coh' = [coh EXCEPT ![RowOf(l)].step[launcher[l].phase] = f]

\* lsc_command_on_host_is_done: the process leaves the row alone.
Start(l) ==
    /\ At(l, "start")
    /\ \/ /\ coh[RowOf(l)].state = "done"
          /\ Become(l, Idle)
       \/ /\ coh[RowOf(l)].state # "done"
          /\ Goto(l, "claim")
    /\ UNCHANGED <<coh, pass, operator, clock, work>>

\* Under LOCK TABLES ... WRITE: read the row and, when current_pid is -1,
\* write the process's own pid.  A process that finds the row taken prints
\* "already started" and goes on to the last free() of the script.
Claim(l) ==
    LET row == coh[RowOf(l)] IN
    /\ At(l, "claim")
    /\ \/ /\ row.pid = NoPid
          /\ SetPid(l, l)
          /\ Become(l, [launcher[l] EXCEPT
                           !.pc     = "connect",
                           !.att    = row.attempts,
                           !.zero   = (row.next = 0),
                           !.legacy = (row.next = 0 /\ row.start # 0)])
       \/ /\ row.pid # NoPid
          /\ Leave(l, "free2")
          /\ UNCHANGED coh
    /\ UNCHANGED <<pass, operator, clock, work>>

\* connection_init() failed: the constructor gives the row back, then the
\* script calls free() and ends.
ConnFail(l) ==
    /\ At(l, "connfail")
    /\ SetPid(l, NoPid)
    /\ Leave(l, "free2")
    /\ UNCHANGED <<pass, operator, clock, work>>

\* free(): current_pid = -1, whoever holds the row.  The script calls it
\* after execute() and once more before it ends.
Free1(l) ==
    /\ At(l, "free1")
    /\ SetPid(l, NoPid)
    /\ Leave(l, "free2")
    /\ UNCHANGED <<pass, operator, clock, work>>

Free2(l) ==
    /\ At(l, "free2")
    /\ SetPid(l, NoPid)
    /\ Become(l, Idle)
    /\ UNCHANGED <<pass, operator, clock, work>>

-----------------------------------------------------------------------------
(* connection_init().                                                      *)

\* The host has no address, or no attempt is left: no connection is tried.
ConnectNot(l) ==
    /\ At(l, "connect")
    /\ ~Cmd(l).known \/ launcher[l].att = 0
    /\ Leave(l, IF Cmd(l).known THEN "connfail" ELSE "nomac")
    /\ UNCHANGED <<coh, pass, operator, clock, work>>

\* Variant: the attempts are not looked at.
Connecting_unchecked(l) == At(l, "connect") /\ Cmd(l).known

Connecting(l) == At(l, "connect") /\ Cmd(l).known /\ launcher[l].att > 0

Halted(l) == coh[RowOf(l)].state \in {"stop", "pause"}

\* The row was stopped or paused in the meantime: connection_init returns 0,
\* success, without a session.
ConnectHalted(l) ==
    /\ Connecting(l)
    /\ Halted(l)
    /\ Goto(l, "check")
    /\ UNCHANGED <<coh, pass, operator, clock, work>>

\* A row of a release before 1.0.3: next_launch_date is set, and again
\* connection_init returns 0 without a session.
ConnectLegacy(l) ==
    /\ Connecting(l)
    /\ ~Halted(l)
    /\ launcher[l].legacy
    /\ coh' = [coh EXCEPT ![RowOf(l)].next = coh[RowOf(l)].start]
    /\ Goto(l, "check")
    /\ UNCHANGED <<pass, operator, clock, work>>

\* new LSC_Session: ping, ssh and, with wake on lan, a second try.
ConnectTry(l) ==
    /\ Connecting(l)
    /\ ~Halted(l)
    /\ ~launcher[l].legacy
    /\ \E p \in {"reach", "unreach"} : Goto(l, p)
    /\ UNCHANGED <<coh, pass, operator, clock, work>>

Reach(l) ==
    /\ At(l, "reach")
    /\ SetState(l, "scheduled")
    /\ Become(l, [launcher[l] EXCEPT !.pc = "check", !.sess = TRUE,
                                     !.zero = FALSE])
    /\ UNCHANGED <<pass, operator, clock, work>>

NoMac(l) ==
    /\ At(l, "nomac")
    /\ SetState(l, "not_reachable")
    /\ Goto(l, "connfail")
    /\ UNCHANGED <<pass, operator, clock, work>>

Unreach(l) ==
    /\ At(l, "unreach")
    /\ SetState(l, "not_reachable")
    /\ Goto(l, "dec")
    /\ work' = [work EXCEPT ![RowOf(l)].tries = @ + 1]
    /\ UNCHANGED <<pass, operator, clock>>

\* Variant: the attempt is not counted.
Dec_uncounted(l) ==
    /\ At(l, "dec")
    /\ Goto(l, "retry")
    /\ UNCHANGED <<coh, pass, operator, clock, work>>

\* The counter written is the one the constructor read, less one.
Dec(l) ==
    /\ At(l, "dec")
    /\ coh' = [coh EXCEPT ![RowOf(l)].attempts = launcher[l].att - 1]
    /\ Become(l, [launcher[l] EXCEPT !.pc = "retry", !.att = @ - 1])
    /\ UNCHANGED <<pass, operator, clock, work>>

\* The next attempt is next_connection_delay after the date of this one.
Retry(l) ==
    LET base == IF launcher[l].zero THEN clock ELSE coh[RowOf(l)].next IN
    /\ At(l, "retry")
    /\ coh' = [coh EXCEPT ![RowOf(l)].next =
                   IF launcher[l].att > 0 THEN base + Cmd(l).delay ELSE base]
    /\ IF launcher[l].att > 0 THEN Leave(l, "connfail") ELSE Goto(l, "resched")
    /\ UNCHANGED <<pass, operator, clock, work>>

-----------------------------------------------------------------------------
(* execute().                                                              *)

\* The dates.  The test of pause and stop in front of them reads a member
\* that does not exist ($this->commond_on_host) and never holds.
TooEarly(l) == coh[RowOf(l)].start # 0 /\ coh[RowOf(l)].start > clock
TooLate(l)  == Cmd(l).end # 0 /\ Cmd(l).end < clock

\* Variant: only the end date is looked at.
Check_end_only(l) ==
    /\ At(l, "check")
    /\ IF TooLate(l) THEN Leave(l, "free1") ELSE Goto(l, "decide")
    /\ UNCHANGED <<coh, pass, operator, clock, work>>

Check(l) ==
    /\ At(l, "check")
    /\ IF TooEarly(l) \/ TooLate(l) THEN Leave(l, "free1")
                                     ELSE Goto(l, "decide")
    /\ UNCHANGED <<coh, pass, operator, clock, work>>

\* Variants: a phase does not wait for the ones before it; the script is run
\* whatever executed says.
Wanted_unordered(l) == coh[RowOf(l)].step[launcher[l].phase] = "TODO"
Wanted_again(l) ==
    LET step == coh[RowOf(l)].step IN
    CASE launcher[l].phase = "upload"    -> step["upload"] = "TODO"
      [] launcher[l].phase = "execution" -> step["upload"] \in Finished
      [] launcher[l].phase = "delete"    -> /\ step["upload"] \in Finished
                                            /\ step["execution"] \in Finished
                                            /\ step["delete"] = "TODO"

\* The condition of each phase on the columns just read.
Wanted(l) ==
    LET step == coh[RowOf(l)].step IN
    CASE launcher[l].phase = "upload"    -> step["upload"] = "TODO"
      [] launcher[l].phase = "execution" -> /\ step["upload"] \in Finished
                                            /\ step["execution"] = "TODO"
      [] launcher[l].phase = "delete"    -> /\ step["upload"] \in Finished
                                            /\ step["execution"] \in Finished
                                            /\ \/ step["delete"] = "TODO"
                                               \/ step["upload"] = "IGNORED"

\* Whether the command asks for the phase; what was not uploaded is not
\* deleted.
Enabled(l) ==
    CASE launcher[l].phase = "upload"    -> Cmd(l).files
      [] launcher[l].phase = "execution" -> Cmd(l).script
      [] launcher[l].phase = "delete"    ->
            Cmd(l).delete /\ coh[RowOf(l)].step["upload"] = "DONE"

\* Where execute() goes when it is through with a phase.
NextPhase == [upload |-> "execution", execution |-> "delete",
              delete |-> "delete"]
AfterPhase(l) ==
    Become(l, [launcher[l] EXCEPT
                 !.pc    = IF launcher[l].phase = "delete" THEN "final"
                                                          ELSE "decide",
                 !.phase = NextPhase[launcher[l].phase],
                 !.ok    = FALSE])

Decide(l) ==
    /\ At(l, "decide")
    /\ \/ /\ Wanted(l)
          /\ Goto(l, IF Enabled(l) THEN "mark" ELSE "skip")
       \/ /\ ~Wanted(l)
          /\ AfterPhase(l)
    /\ UNCHANGED <<coh, pass, operator, clock, work>>

\* files_copy, file_start and files_delete share one shape: two UPDATEs
\* that say the phase is in progress, the remote command, two UPDATEs with
\* its result.
Mark(l) ==
    /\ At(l, "mark")
    /\ SetState(l, InProgress[launcher[l].phase])
    /\ Goto(l, "flag")
    /\ UNCHANGED <<pass, operator, clock, work>>

MarkFlag(l) ==
    /\ At(l, "flag")
    /\ SetStep(l, "WORK_IN_PROGRESS")
    /\ Goto(l, "run")
    /\ UNCHANGED <<pass, operator, clock, work>>

\* What a phase that succeeds has done on the host; up stays TRUE when the files
\* are deleted.
Achieved(w, ph) == CASE ph = "upload"    -> [w EXCEPT !.up = TRUE]
                     [] ph = "execution" -> [w EXCEPT !.ran = @ + 1]
                     [] ph = "delete"    -> w

\* The remote command ends with success or failure.  Without a session it
\* has neither user nor address and fails; but files_delete gives up on a
\* destination like "/" before any command and takes that for success.
Run(l) ==
    /\ At(l, "run")
    /\ \E ok \in BOOLEAN :
          /\ ok => launcher[l].sess \/ launcher[l].phase = "delete"
          /\ Become(l, [launcher[l] EXCEPT !.pc = "result", !.ok = ok])
          /\ work' = IF ok THEN [work EXCEPT ![RowOf(l)] =
                                   Achieved(@, launcher[l].phase)]
                           ELSE work
    /\ UNCHANGED <<coh, pass, operator, clock>>

\* Variant: the state says done when the command has failed.
Result_always_done(l) ==
    /\ At(l, "result")
    /\ SetState(l, Succeeded[launcher[l].phase])
    /\ Goto(l, "setflag")
    /\ UNCHANGED <<pass, operator, clock, work>>

Result(l) ==
    /\ At(l, "result")
    /\ SetState(l, IF launcher[l].ok THEN Succeeded[launcher[l].phase]
                                     ELSE Failed[launcher[l].phase])
    /\ Goto(l, "setflag")
    /\ UNCHANGED <<pass, operator, clock, work>>

\* Variant: execute() goes on after a phase that failed.
ResultFlag_goes_on(l) ==
    /\ At(l, "setflag")
    /\ SetStep(l, IF launcher[l].ok THEN "DONE" ELSE "FAILED")
    /\ AfterPhase(l)
    /\ UNCHANGED <<pass, operator, clock, work>>

\* A phase that failed ends execute().
ResultFlag(l) ==
    /\ At(l, "setflag")
    /\ SetStep(l, IF launcher[l].ok THEN "DONE" ELSE "FAILED")
    /\ IF launcher[l].ok THEN AfterPhase(l) ELSE Leave(l, "free1")
    /\ UNCHANGED <<pass, operator, clock, work>>

Skip(l) ==
    /\ At(l, "skip")
    /\ SetState(l, Succeeded[launcher[l].phase])
    /\ Goto(l, "skipflag")
    /\ UNCHANGED <<pass, operator, clock, work>>

SkipFlag(l) ==
    /\ At(l, "skipflag")
    /\ SetStep(l, "IGNORED")
    /\ AfterPhase(l)
    /\ UNCHANGED <<pass, operator, clock, work>>

\* Variants: the row is done whatever the columns say; IGNORED is forgotten.
Final_unchecked(l) ==
    /\ At(l, "final")
    /\ Goto(l, "setdone")
    /\ UNCHANGED <<coh, pass, operator, clock, work>>
Final_only_done(l) ==
    /\ At(l, "final")
    /\ Goto(l, IF \A ph \in Phase : coh[RowOf(l)].step[ph] = "DONE"
                 THEN "setdone" ELSE "resched")
    /\ UNCHANGED <<coh, pass, operator, clock, work>>

\* After the inventory, which leaves its result in the history only.
Final(l) ==
    /\ At(l, "final")
    /\ Goto(l, IF AllFinished(coh[RowOf(l)]) THEN "setdone" ELSE "resched")
    /\ UNCHANGED <<coh, pass, operator, clock, work>>

SetDone(l) ==
    /\ At(l, "setdone")
    /\ SetState(l, "done")
    /\ Goto(l, "resched")
    /\ UNCHANGED <<pass, operator, clock, work>>

\* repeat_resched(): called when the attempts are used up and at the end of
\* execute().  update_next_launch_date writes one column and reads the row
\* back; update() then writes every column, current_pid as it was read.
AfterResched(l) == IF launcher[l].att = 0 THEN "connfail" ELSE "free1"

Resched(l) ==
    LET row  == coh[RowOf(l)]
        date == row.start + Cmd(l).repeat
    IN
    /\ At(l, "resched")
    /\ \/ /\ Cmd(l).repeat = 0 \/ TooLate(l)
          /\ Leave(l, AfterResched(l))
          /\ UNCHANGED coh
       \/ /\ Cmd(l).repeat # 0 /\ ~TooLate(l)
          /\ coh' = [coh EXCEPT ![RowOf(l)].next = date]
          /\ Become(l, [launcher[l] EXCEPT
                           !.pc = "update",
                           !.snap = [next |-> date, pid |-> row.pid]])
    /\ UNCHANGED <<pass, operator, clock, work>>

Update(l) ==
    /\ At(l, "update")
    /\ coh' = [coh EXCEPT ![RowOf(l)] =
                  NextPeriod(coh[RowOf(l)], Cmd(l), launcher[l].snap)]
    /\ Leave(l, AfterResched(l))
    /\ work' = [work EXCEPT ![RowOf(l)] = NoWork]
    /\ UNCHANGED <<pass, operator, clock>>

Crash(l) ==
    /\ CanCrash
    /\ Live(l)
    /\ Leave(l, "dead")
    /\ UNCHANGED <<coh, pass, operator, clock, work>>

LauncherStep(l) ==
    \/ Start(l) \/ Claim(l) \/ ConnFail(l) \/ Free1(l) \/ Free2(l)
    \/ ConnectNot(l) \/ ConnectHalted(l) \/ ConnectLegacy(l) \/ ConnectTry(l)
    \/ Reach(l) \/ NoMac(l) \/ Unreach(l) \/ Dec(l) \/ Retry(l)
    \/ Check(l) \/ Decide(l) \/ Mark(l) \/ MarkFlag(l) \/ Run(l)
    \/ Result(l) \/ ResultFlag(l) \/ Skip(l) \/ SkipFlag(l)
    \/ Final(l) \/ SetDone(l) \/ Resched(l) \/ Update(l)

-----------------------------------------------------------------------------
(* The operator: the buttons of command_on_host_detail.php (one row) and   *)
(* of all_commands.cgi (every row of a command).                           *)

Asks(kind) ==
    /\ operator.act = "none"
    /\ operator.left > 0
    /\ kind \in Ops

Asked == operator' = [operator EXCEPT !.left = @ - 1]

HostPause(r) ==
    /\ Asks("pause")
    /\ coh' = [coh EXCEPT ![r] = PauseRow(@, Pausable)]
    /\ Asked
    /\ UNCHANGED <<launcher, pass, clock, work>>

\* The two statements that "reset the connection attempts" select by
\* id_command what is an id_command_on_host.
HostPlayReset(r) ==
    /\ Asks("play")
    /\ coh' = [q \in Row |-> IF Command[q].id = r THEN ResetRow(coh[q], NoPid)
                                                  ELSE coh[q]]
    /\ operator' = [operator EXCEPT !.act = "play", !.row = r, !.left = @ - 1]
    /\ UNCHANGED <<launcher, pass, clock, work>>

HostPlay ==
    /\ operator.act = "play"
    /\ coh' = [coh EXCEPT ![operator.row] = PlayRow(@)]
    /\ operator' = [operator EXCEPT !.act = "none", !.row = 0]
    /\ UNCHANGED <<launcher, pass, clock, work>>

\* lsc_command_on_host_set_stop: SELECT, killparent.sh, UPDATE.
StopSelect(r) ==
    /\ coh[r].state # "done"
    /\ operator' = [operator EXCEPT
                      !.act = IF coh[r].pid = NoPid THEN "stop" ELSE "kill",
                      !.row = r, !.pid = coh[r].pid, !.left = @ - 1]
    /\ UNCHANGED <<coh, launcher, pass, clock, work>>

HostStop(r) == Asks("stop") /\ StopSelect(r)

\* killparent.sh kills the last descendant of the pid: the ssh or scp that
\* runs, or the launcher itself when it has no child at that moment.  A copy
\* or a script whose ssh is killed has failed, a delete is tried again.
Killed(l) ==
    \/ Leave(l, "dead")
    \/ /\ At(l, "run") /\ launcher[l].phase # "delete"
       /\ Become(l, [launcher[l] EXCEPT !.pc = "result", !.ok = FALSE])
    \/ /\ \/ launcher[l].pc \in {"connect", "final"}
          \/ At(l, "run") /\ launcher[l].phase = "delete"
       /\ UNCHANGED launcher

StopKill ==
    /\ operator.act = "kill"
    /\ IF Live(operator.pid) /\ RowOf(operator.pid) = operator.row
         THEN Killed(operator.pid)
         ELSE UNCHANGED launcher
    /\ operator' = [operator EXCEPT !.act = "stop"]
    /\ UNCHANGED <<coh, pass, clock, work>>

StopUpdate ==
    /\ operator.act = "stop"
    /\ coh' = [coh EXCEPT ![operator.row] = StopRow(@, NoPid)]
    /\ operator' = [operator EXCEPT !.act = "none", !.row = 0, !.pid = NoPid]
    /\ UNCHANGED <<launcher, pass, clock, work>>

RowsOf(c) == {r \in Row : Command[r].id = c}

CommandPause(c) ==
    /\ Asks("command_pause")
    /\ coh' = [r \in Row |-> IF r \in RowsOf(c)
                               THEN PauseRow(coh[r], {"scheduled"})
                               ELSE coh[r]]
    /\ Asked
    /\ UNCHANGED <<launcher, pass, clock, work>>

CommandPlay(c) ==
    /\ Asks("command_play")
    /\ coh' = [r \in Row |-> IF r \in RowsOf(c) THEN PlayRow(coh[r])
                                                ELSE coh[r]]
    /\ Asked
    /\ UNCHANGED <<launcher, pass, clock, work>>

\* The loop over the rows of the command reuses the connection object of
\* its own SELECT inside, so it ends after the first row.
CommandStop(c) ==
    /\ Asks("command_stop")
    /\ \E r \in RowsOf(c) : /\ \A q \in RowsOf(c) : r <= q
                            /\ StopSelect(r)

Operator ==
    \/ \E r \in Row : HostPause(r) \/ HostPlayReset(r) \/ HostStop(r)
    \/ \E r \in Row : LET c == Command[r].id IN
                      CommandPause(c) \/ CommandPlay(c) \/ CommandStop(c)
    \/ HostPlay \/ StopKill \/ StopUpdate

-----------------------------------------------------------------------------
Next ==
    \/ \E p \in Pass : start_all_commands(p) \/ Spawn(p)
    \/ \E l \in Launcher : LauncherStep(l) \/ Crash(l)
    \/ Operator
    \/ Tick

Spec == Init /\ [][Next]_vars

\* cron starts a pass again and again and the operating system runs every
\* process, the page behind a button that was pressed included; time goes on;
\* nobody has to press a button, nothing has to crash.
Fairness ==
    /\ \A p \in Pass : WF_vars(start_all_commands(p)) /\ WF_vars(Spawn(p))
    /\ \A l \in Launcher : WF_vars(LauncherStep(l))
    /\ WF_vars(HostPlay \/ StopKill \/ StopUpdate)
    /\ WF_vars(Tick)

FairSpec == Spec /\ Fairness
-----------------------------------------------------------------------------
(* Properties.                                                             *)

Started(r) == \E l \in Launcher : Live(l) /\ RowOf(l) = r

\* The script is started on a host only after the files it needs were
\* copied there, however many launchers work on the row, whoever stops,
\* pauses or restarts it and wherever a launcher dies: execute() trusts the
\* column uploaded, which other processes write.
UploadedFirst ==
    \A l \in Launcher :
        At(l, "run") /\ launcher[l].phase = "execution" =>
            ~Cmd(l).files \/ work[RowOf(l)].up

\* What was not executed is not cleaned up: the files of a command with a
\* script are deleted only after the script has succeeded.
RanBeforeDelete ==
    \A l \in Launcher :
        At(l, "run") /\ launcher[l].phase = "delete" =>
            ~Cmd(l).script \/ work[RowOf(l)].ran > 0

\* A row is never claimed by nobody: current_pid is a process that works on
\* this row, one that killparent.sh has just killed and whose pid the stop in
\* progress is about to clear, or one that died at work.  A row whose
\* current_pid is a process that has ended, or works on another row, would
\* never be selected again although nothing went wrong.
ClaimOwned ==
    \A r \in Row : coh[r].pid # NoPid =>
        /\ RowOf(coh[r].pid) = r
        /\ \/ Live(coh[r].pid)
           \/ operator.act = "stop" /\ operator.row = r
           \/ CanCrash /\ At(coh[r].pid, "dead")

\* In one period the script succeeds once at most: a row is not run again
\* after a success, a crash between the script and the UPDATE that records
\* it included.
ScriptOnce == \A r \in Row : work[r].ran <= 1

\* No phase begins before start_date: the date repeat_resched has moved to
\* the next period included.
NotEarly ==
    \A l \in Launcher :
        launcher[l].pc \in {"mark", "flag", "run", "result"} => ~TooEarly(l)

\* A row shown as done has nothing left to do: every phase is DONE or
\* IGNORED when and as long as the state is done.
DoneIsFinished ==
    \A r \in Row : coh[r].state = "done" => AllFinished(coh[r])

\* A host is tried max_connection_attempt times in a period and no more:
\* failed connections and the attempts left add up to the attempts the
\* command was given, but for the UPDATE a launcher is about to make or has
\* died before it made.
ConnectionBudget ==
    \A r \in Row :
        work[r].tries + coh[r].attempts
            <= Command[r].attempts
               + Cardinality({l \in Launcher : /\ launcher[l].pc \in {"dec", "dead"}
                                               /\ RowOf(l) = r})

\* A row whose launchers and whose operator are idle and that will be
\* launched again has something to do: no phase of it is recorded as failed
\* or in progress, states from which execute() never takes it on.
Relaunchable ==
    \A r \in Due :
        \/ Started(r)
        \/ \A ph \in Phase : coh[r].step[ph] \notin {"FAILED", "WORK_IN_PROGRESS"}

\* The columns uploaded, executed and deleted of every row go through the
\* phases as LscPipeline says: no launcher begins a phase early, ends one it
\* did not begin, or takes back a result, and repeat_resched starts a new
\* period over only after the last phase of the one before.
Pipeline == INSTANCE LscPipeline WITH step <- [r \in Row |-> coh[r].step]
PipelineSpec == Pipeline!Spec

\* Every row comes to rest: done, failed in a phase, halted by the operator, or
\* given up after the last connection attempt.  Two kinds of rows do not, and are
\* launched again by every pass without anything being done for them: a row past
\* its end_date, which execute() leaves as it is (command_launcher.inc.php
\* 391-394), and one whose host has no address, which costs no attempt (664-685).
Settled(r) ==
    \/ coh[r].state \in {"done", "pause", "stop"} \cup FailedStates
    \/ coh[r].state = "not_reachable" /\ coh[r].attempts = 0
Hopeless(r) ==
    /\ coh[r].state \in {"scheduled", "not_reachable"}
    /\ \/ Command[r].end # 0 /\ Command[r].end < clock
       \/ ~Command[r].known
Settles == \A r \in Row : <>[](Settled(r) \/ Hopeless(r))

\* Two launchers never work on one row: the second one prints "already
\* started" (start_command_on_host.php:91).  They do when passes overlap: free()
\* also gives back a row that another process holds.
Working(l) == launcher[l].pc \in {"decide", "mark", "flag", "run", "result",
                                  "setflag", "skip", "skipflag"}
MutualExclusion ==
    \A l, m \in Launcher :
        Working(l) /\ Working(m) /\ RowOf(l) = RowOf(m) => l = m
=============================================================================
