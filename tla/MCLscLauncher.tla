---------------------------- MODULE MCLscLauncher ----------------------------
(* Commands for the runs of LscLauncher.                                   *)
EXTENDS LscLauncher, TLC

\* The command most pages create: upload, run and delete as soon as
\* possible, once.
Plain == [id |-> 1, files |-> TRUE, script |-> TRUE, delete |-> TRUE,
          repeat |-> 0, attempts |-> 1, delay |-> 1, start |-> 0, end |-> 0,
          known |-> TRUE, legacy |-> FALSE]

\* One row.
OnePlain == [r \in Row |-> Plain]

\* A periodic command with a start date and an end date, two attempts to
\* connect, entered before 1.0.3.
Periodic == [Plain EXCEPT !.repeat = 2, !.attempts = 2, !.start = 2, !.end = 5,
                          !.legacy = TRUE]
OnePeriodic == [r \in Row |-> Periodic]

\* The rows of three hosts of one command: one without files, one whose row
\* is from before 1.0.3, one whose host is not in the ether file.
ThreeHosts ==
    [r \in Row |-> CASE r = 1 -> [Plain EXCEPT !.files = FALSE, !.attempts = 2]
                      [] r = 2 -> [Plain EXCEPT !.start = 1, !.script = FALSE,
                                                !.legacy = TRUE]
                      [] r = 3 -> [Plain EXCEPT !.known = FALSE]]

\* A row without files and with two attempts (the last date a retry can have is 2, so
\* that every retry falls before the clock stops), one with an end date, which it may
\* miss, and one whose host is not in the ether file.
Dated == [Plain EXCEPT !.start = 1]
Deadlines ==
    [r \in Row |-> CASE r = 1 -> [Dated EXCEPT !.files = FALSE, !.attempts = 2]
                      [] r = 2 -> [Dated EXCEPT !.id = 2, !.end = 2]
                      [] r = 3 -> [Plain EXCEPT !.id = 3, !.start = 3, !.known = FALSE]]

LauncherSymmetry == Permutations(Launcher)
RaceSymmetry == Permutations(Launcher) \cup Permutations(Pass)
=============================================================================
