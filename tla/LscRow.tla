------------------------------- MODULE LscRow -------------------------------
(***************************************************************************)
(* The vocabulary of the table commands_on_host of the LSC scheduler: one  *)
(* row per (command, host), and the changes the SQL statements of          *)
(* include/commands_on_host.inc.php and include/commands.inc.php make to   *)
(* a row.  A row is the record                                             *)
(*    start, next   start_date and next_launch_date, 0 for the SQL date    *)
(*                  "0000-00-00 00:00:00"                                  *)
(*    state         current_state                                          *)
(*    step          the columns uploaded, executed and deleted, indexed by *)
(*                  the phase they belong to                               *)
(*    attempts      number_attempt_connection_remains                      *)
(*    pid           current_pid, NoPid for -1                              *)
(***************************************************************************)
EXTENDS Naturals

\* The three phases of LSC_Command_Launcher::execute.
Phase == {"upload", "execution", "delete"}

\* The ENUM of the columns uploaded, executed and deleted.
Flag == {"TODO", "IGNORED", "DONE", "FAILED", "WORK_IN_PROGRESS"}

\* A phase that needs no more work.
Finished == {"DONE", "IGNORED"}

InProgress == [upload    |-> "upload_in_progress",
               execution |-> "execution_in_progress",
               delete    |-> "delete_in_progress"]
Succeeded  == [upload    |-> "upload_done",
               execution |-> "execution_done",
               delete    |-> "delete_done"]
Failed     == [upload    |-> "upload_failed",
               execution |-> "execution_failed",
               delete    |-> "delete_failed"]

FailedStates == {"upload_failed", "execution_failed", "delete_failed"}

\* The ENUM of the column current_state.
State == {"upload_in_progress", "upload_done", "upload_failed",
          "execution_in_progress", "execution_done", "execution_failed",
          "delete_in_progress", "delete_done", "delete_failed",
          "inventory_in_progress", "inventory_failed", "inventory_done",
          "not_reachable", "done", "pause", "stop", "scheduled"}

AllTodo == [ph \in Phase |-> "TODO"]

\* What dispatch() inserts for a host of a command.  A row written by a
\* release before 1.0.3 (legacy) has no next_launch_date.
NewRow(cmd, nopid) ==
    [start    |-> cmd.start,
     next     |-> IF cmd.legacy THEN 0 ELSE cmd.start,
     state    |-> "scheduled",
     step     |-> AllTodo,
     attempts |-> cmd.attempts,
     pid      |-> nopid]

-----------------------------------------------------------------------------
(* start_all_commands: the WHERE clause that selects the rows to launch.   *)

NotStartable == {"done", "pause", "stop"}
                \cup {"upload_in_progress", "execution_in_progress",
                      "delete_in_progress", "inventory_in_progress"}
                \cup {"upload_failed", "execution_failed",
                      "delete_failed", "inventory_failed"}

Startable(row, now, nopid) ==
    /\ row.state \notin NotStartable
    /\ row.attempts > 0
    /\ row.pid = nopid
    /\ row.next <= now

-----------------------------------------------------------------------------
(* The operator's changes.                                                 *)

Pausable == {"not_reachable", "scheduled", "upload_failed",
             "execution_failed", "delete_failed", "inventory_failed"}

PauseRow(row, from) ==
    IF row.state \in from THEN [row EXCEPT !.state = "pause"] ELSE row

Restartable == {"upload_failed", "execution_failed", "delete_failed",
                "inventory_failed", "pause", "not_reachable"}

\* The five UPDATE statements of set_play: their WHERE clauses exclude each
\* other, so one of them applies at most.
PlayRow(row) ==
    IF row.state \in Restartable
      THEN [row EXCEPT !.state = "scheduled",
                       !.step  = [ph \in Phase |->
                                    IF row.state = Failed[ph] THEN "TODO"
                                                              ELSE row.step[ph]]]
      ELSE row

\* lsc_command_on_host_set_stop, its UPDATE statement.
StopRow(row, nopid) == [row EXCEPT !.state = "stop", !.pid = nopid]

\* "Reset the connection attempts" of lsc_command_on_host_set_play.
ResetRow(row, nopid) ==
    [row EXCEPT !.pid = nopid,
                !.attempts = IF row.attempts = 0 THEN 1 ELSE row.attempts]

-----------------------------------------------------------------------------
\* repeat_resched: the row of the next period, written by one update() of
\* every column from the copy the launcher has in memory.
NextPeriod(row, cmd, snap) ==
    [row EXCEPT !.start    = snap.next,
                !.next     = snap.next,
                !.state    = "scheduled",
                !.step     = AllTodo,
                !.attempts = cmd.attempts,
                !.pid      = snap.pid]

AllFinished(row) == \A ph \in Phase : row.step[ph] \in Finished
=============================================================================
