--------------------------- MODULE LscSerialProofs ---------------------------
(* Theorems about LscLauncher in the environment without overlap: a pass   *)
(* begins when every other pass and every launcher of a row that is due    *)
(* has ended.  Commands may be repeated, launchers may die anywhere and    *)
(* the operator may press any button at any time unless a theorem says     *)
(* otherwise.                                                              *)
EXTENDS LscLauncherProofs, FiniteSetTheorems

-----------------------------------------------------------------------------
(* A step of a launcher is a step of this launcher and its row.            *)

Local(l) ==
    /\ Live(l) /\ RowOf(l) \in Row
    /\ \A m \in Launcher : m # l => launcher'[m] = launcher[m]
    /\ launcher'[l].pc # "idle" => launcher'[l].row = RowOf(l)
    /\ \A q \in Row : q # RowOf(l) => coh'[q] = coh[q] /\ work'[q] = work[q]
    /\ pass' = pass /\ operator' = operator /\ clock' = clock

LEMMA BecomeLocal ==
  ASSUME TypeOK, NEW l \in Launcher, NEW rec, Become(l, rec)
  PROVE  launcher'[l] = rec /\ \A m \in Launcher : m # l => launcher'[m] = launcher[m]
  BY DEF TypeOK, Become

\* The launcher stays with its row until it ends; nobody else moves.
Moves(l) == /\ \A m \in Launcher : m # l => launcher'[m] = launcher[m]
            /\ launcher'[l].pc # "idle" => launcher'[l].row = RowOf(l)

LEMMA Moving ==
  ASSUME TypeOK, NEW l \in Launcher
  PROVE  /\ \A p : Goto(l, p) \/ Leave(l, p) => Moves(l)
         /\ AfterPhase(l) \/ Become(l, Idle) => Moves(l)
  <1>1. ASSUME NEW p, Goto(l, p) \/ Leave(l, p) PROVE Moves(l)
    BY <1>1 DEF TypeOK, LauncherType, Goto, Leave, Become, Moves, RowOf, Idle
  <1>2. ASSUME AfterPhase(l) \/ Become(l, Idle) PROVE Moves(l)
    <2>1. CASE Become(l, Idle)
      BY <2>1 DEF TypeOK, Become, Moves, Idle
    <2>2. CASE AfterPhase(l)
      <3> DEFINE rec == [launcher[l] EXCEPT
                           !.pc    = IF launcher[l].phase = "delete" THEN "final"
                                                                    ELSE "decide",
                           !.phase = NextPhase[launcher[l].phase],
                           !.ok    = FALSE]
      <3>1. rec.row = RowOf(l)
        BY DEF TypeOK, LauncherType, RowOf
      <3>2. Become(l, rec)
        BY <2>2 DEF AfterPhase
      <3> HIDE DEF rec
      <3>3. QED
        BY <3>1, <3>2, BecomeLocal DEF Moves
    <2>3. QED
      BY <1>2, <2>1, <2>2
  <1>3. QED
    BY <1>1, <1>2, Zenon

LEMMA EndLocal ==
  ASSUME TypeOK, NEW l \in Launcher, Become(l, Idle)
  PROVE  launcher'[l].pc = "idle"
  BY BecomeLocal DEF Idle

LEMMA StepLocal ==
  ASSUME TypeOK, NEW l \in Launcher, LauncherStep(l) \/ Crash(l)
  PROVE  Local(l)
  <1>1. Live(l)
    BY DEF LauncherStep, Crash, Live, At, Start, Claim, ConnFail, Free1, Free2,
        ConnectNot, ConnectHalted, ConnectLegacy, ConnectTry, Connecting, Reach,
        NoMac, Unreach, Dec, Retry, Check, Decide, Mark, MarkFlag, Run, Result,
        ResultFlag, Skip, SkipFlag, Final, SetDone, Resched, Update
  <1>2. RowOf(l) \in Row
    BY <1>1 DEF Live, TypeOK, RowOf
  <1>3. pass' = pass /\ operator' = operator /\ clock' = clock
    BY DEF LauncherStep, Crash, Start, Claim, ConnFail, Free1, Free2,
        ConnectNot, ConnectHalted, ConnectLegacy, ConnectTry, Reach,
        NoMac, Unreach, Dec, Retry, Check, Decide, Mark, MarkFlag, Run, Result,
        ResultFlag, Skip, SkipFlag, Final, SetDone, Resched, Update
  <1>4. \A q \in Row : q # RowOf(l) => coh'[q] = coh[q]
    BY <1>2 DEF LauncherStep, Crash, Start, Claim, ConnFail, Free1, Free2,
        ConnectNot, ConnectHalted, ConnectLegacy, ConnectTry, Reach,
        NoMac, Unreach, Dec, Retry, Check, Decide, Mark, MarkFlag, Run, Result,
        ResultFlag, Skip, SkipFlag, Final, SetDone, Resched, Update, TypeOK,
        SetState, SetPid, SetStep
  <1>5. \A q \in Row : q # RowOf(l) => work'[q] = work[q]
    BY <1>2 DEF LauncherStep, Crash, Start, Claim, ConnFail, Free1, Free2,
        ConnectNot, ConnectHalted, ConnectLegacy, ConnectTry, Reach,
        NoMac, Unreach, Dec, Retry, Check, Decide, Mark, MarkFlag, Run, Result,
        ResultFlag, Skip, SkipFlag, Final, SetDone, Resched, Update, TypeOK
  <1>6. Moves(l)
    <2>1. CASE \/ Start(l) \/ Free1(l) \/ Free2(l) \/ ConnFail(l) \/ ConnectNot(l)
               \/ ConnectHalted(l) \/ ConnectLegacy(l) \/ ConnectTry(l) \/ NoMac(l)
               \/ Unreach(l) \/ Check(l) \/ Mark(l) \/ MarkFlag(l) \/ Result(l)
               \/ Skip(l) \/ Final(l) \/ SetDone(l) \/ Update(l) \/ Retry(l) \/ Crash(l)
      BY <2>1, Moving, Zenon DEF Start, Free1, Free2, ConnFail, ConnectNot,
          ConnectHalted, ConnectLegacy, ConnectTry, NoMac, Unreach, Check, Mark,
          MarkFlag, Result, Skip, Final, SetDone, Update, Retry, Crash
    <2>2. CASE SkipFlag(l) \/ ResultFlag(l) \/ Decide(l)
      BY <2>2, Moving, Zenon DEF SkipFlag, ResultFlag, Decide
    <2>3. CASE Claim(l)
      <3> DEFINE row == coh[RowOf(l)]
                 rec == [launcher[l] EXCEPT
                           !.pc     = "connect",
                           !.att    = row.attempts,
                           !.zero   = (row.next = 0),
                           !.legacy = (row.next = 0 /\ row.start # 0)]
      <3>1. rec.row = RowOf(l)
        BY DEF TypeOK, LauncherType, RowOf
      <3>2. Become(l, rec) \/ Leave(l, "free2")
        BY <2>3 DEF Claim
      <3> HIDE DEF rec
      <3>3. QED
        BY <3>1, <3>2, BecomeLocal, Moving DEF Moves
    <2>4. CASE Reach(l) \/ Dec(l)
      BY <2>4, ZenonT(30) DEF Reach, Dec, TypeOK, LauncherType, RowOf, Moves, Become
    <2>5. CASE Run(l)
      BY <2>5 DEF Run, TypeOK, LauncherType, RowOf, Moves, Become
    <2>6. CASE Resched(l)
      BY <2>6, ZenonT(30) DEF Resched, TypeOK, LauncherType, RowOf, Moves, Become, Leave, Idle
    <2>7. QED
      BY <2>1, <2>2, <2>3, <2>4, <2>5, <2>6 DEF LauncherStep
  <1>7. QED
    BY SMTT(40), <1>1, <1>2, <1>3, <1>4, <1>5, <1>6 DEF Local, Moves

\* The columns of the row after one UPDATE of a launcher.
LEMMA StateSet ==
  ASSUME TypeOK, NEW l \in Launcher, RowOf(l) \in Row, NEW s,
         SetState(l, s)
  PROVE  /\ coh'[RowOf(l)].state = s
         /\ coh'[RowOf(l)].step = coh[RowOf(l)].step
         /\ coh'[RowOf(l)].start = coh[RowOf(l)].start
         /\ coh'[RowOf(l)].attempts = coh[RowOf(l)].attempts
         /\ coh'[RowOf(l)].pid = coh[RowOf(l)].pid
  BY DEF SetState, TypeOK, RowType

LEMMA PidSet ==
  ASSUME TypeOK, NEW l \in Launcher, RowOf(l) \in Row, NEW i,
         SetPid(l, i)
  PROVE  /\ coh'[RowOf(l)].state = coh[RowOf(l)].state
         /\ coh'[RowOf(l)].step = coh[RowOf(l)].step
         /\ coh'[RowOf(l)].start = coh[RowOf(l)].start
         /\ coh'[RowOf(l)].attempts = coh[RowOf(l)].attempts
         /\ coh'[RowOf(l)].pid = i
  BY DEF SetPid, TypeOK, RowType

LEMMA StepSet ==
  ASSUME TypeOK, NEW l \in Launcher, RowOf(l) \in Row, NEW f,
         SetStep(l, f)
  PROVE  /\ coh'[RowOf(l)].state = coh[RowOf(l)].state
         /\ coh'[RowOf(l)].step = [coh[RowOf(l)].step EXCEPT ![launcher[l].phase] = f]
         /\ coh'[RowOf(l)].start = coh[RowOf(l)].start
         /\ coh'[RowOf(l)].attempts = coh[RowOf(l)].attempts
         /\ coh'[RowOf(l)].pid = coh[RowOf(l)].pid
  BY DEF SetStep, TypeOK, RowType

LEMMA NextSet ==
  ASSUME TypeOK, NEW l \in Launcher, RowOf(l) \in Row, NEW d,
         coh' = [coh EXCEPT ![RowOf(l)].next = d]
  PROVE  /\ coh'[RowOf(l)].state = coh[RowOf(l)].state
         /\ coh'[RowOf(l)].step = coh[RowOf(l)].step
         /\ coh'[RowOf(l)].start = coh[RowOf(l)].start
         /\ coh'[RowOf(l)].attempts = coh[RowOf(l)].attempts
         /\ coh'[RowOf(l)].pid = coh[RowOf(l)].pid
  BY DEF TypeOK, RowType

LEMMA AttemptsSet ==
  ASSUME TypeOK, NEW l \in Launcher, RowOf(l) \in Row, NEW n,
         coh' = [coh EXCEPT ![RowOf(l)].attempts = n]
  PROVE  /\ coh'[RowOf(l)].state = coh[RowOf(l)].state
         /\ coh'[RowOf(l)].step = coh[RowOf(l)].step
         /\ coh'[RowOf(l)].start = coh[RowOf(l)].start
         /\ coh'[RowOf(l)].attempts = n
         /\ coh'[RowOf(l)].pid = coh[RowOf(l)].pid
  BY DEF TypeOK, RowType

\* The variables of the launcher after Goto, Leave and AfterPhase.
LEMMA GotoSets ==
  ASSUME TypeOK, NEW l \in Launcher, NEW p, Goto(l, p)
  PROVE  /\ launcher'[l].pc = p
         /\ launcher'[l].phase = launcher[l].phase
         /\ launcher'[l].ok = launcher[l].ok
         /\ launcher'[l].att = launcher[l].att
         /\ launcher'[l].row = launcher[l].row
  BY DEF Goto, Become, TypeOK, LauncherType

LEMMA LeaveSets ==
  ASSUME TypeOK, NEW l \in Launcher, NEW p, Leave(l, p)
  PROVE  /\ launcher'[l].pc = p /\ launcher'[l].row = launcher[l].row
         /\ launcher'[l].phase = "upload"
  BY DEF Leave, Become, TypeOK, Idle

LEMMA PhaseSets ==
  ASSUME TypeOK, NEW l \in Launcher, AfterPhase(l)
  PROVE  /\ launcher'[l].pc = IF launcher[l].phase = "delete" THEN "final" ELSE "decide"
         /\ launcher'[l].phase = NextPhase[launcher[l].phase]
         /\ launcher'[l].ok = FALSE
         /\ launcher'[l].att = launcher[l].att
         /\ launcher'[l].row = launcher[l].row
  <1> DEFINE rec == launcher[l]
  <1>1. rec \in LauncherType
    BY DEF TypeOK
  <1>2. \A p, ph, b :
           LET new == [rec EXCEPT !.pc = p, !.phase = ph, !.ok = b]
           IN  /\ new.pc = p /\ new.phase = ph /\ new.ok = b
               /\ new.att = rec.att /\ new.row = rec.row
    BY <1>1 DEF LauncherType
  <1>3. launcher'[l] = [rec EXCEPT
                          !.pc    = IF rec.phase = "delete" THEN "final" ELSE "decide",
                          !.phase = NextPhase[rec.phase],
                          !.ok    = FALSE]
    BY BecomeLocal DEF AfterPhase
  <1>4. QED
    BY <1>2, <1>3

\* The same for the steps that set other variables too.
LEMMA ClaimSets ==
  ASSUME TypeOK, NEW l \in Launcher, Claim(l)
  PROVE  \/ /\ coh[RowOf(l)].pid = NoPid /\ SetPid(l, l)
            /\ launcher'[l].pc = "connect" /\ launcher'[l].row = launcher[l].row
            /\ launcher'[l].phase = launcher[l].phase
            /\ launcher'[l].att = coh[RowOf(l)].attempts
         \/ Leave(l, "free2") /\ coh' = coh
  <1> DEFINE rec == launcher[l]
             row == coh[RowOf(l)]
             new == [rec EXCEPT !.pc     = "connect",
                                !.att    = row.attempts,
                                !.zero   = (row.next = 0),
                                !.legacy = (row.next = 0 /\ row.start # 0)]
  <1>1. \A p, n, b, c :
           LET rec1 == [rec EXCEPT !.pc = p, !.att = n, !.zero = b, !.legacy = c]
           IN  /\ rec1.pc = p /\ rec1.att = n /\ rec1.row = rec.row
               /\ rec1.phase = rec.phase
    BY DEF TypeOK, LauncherType
  <1>2. /\ new.pc = "connect" /\ new.att = row.attempts /\ new.row = rec.row
        /\ new.phase = rec.phase
    BY <1>1
  <1>3. \/ row.pid = NoPid /\ SetPid(l, l) /\ Become(l, new)
        \/ Leave(l, "free2") /\ coh' = coh
    BY DEF Claim
  <1> HIDE DEF new
  <1>4. QED
    BY <1>2, <1>3, BecomeLocal

LEMMA ReachSets ==
  ASSUME TypeOK, NEW l \in Launcher, Reach(l)
  PROVE  /\ launcher'[l].pc = "check" /\ launcher'[l].row = launcher[l].row
         /\ launcher'[l].phase = launcher[l].phase
  BY DEF Reach, Become, TypeOK, LauncherType

LEMMA DecSets ==
  ASSUME TypeOK, NEW l \in Launcher, Dec(l)
  PROVE  /\ launcher'[l].pc = "retry" /\ launcher'[l].row = launcher[l].row
         /\ launcher'[l].phase = launcher[l].phase
  BY DEF Dec, Become, TypeOK, LauncherType

LEMMA ResultSets ==
  ASSUME TypeOK, NEW l \in Launcher, NEW ok,
         Become(l, [launcher[l] EXCEPT !.pc = "result", !.ok = ok])
  PROVE  /\ launcher'[l].pc = "result" /\ launcher'[l].phase = launcher[l].phase
         /\ launcher'[l].ok = ok /\ launcher'[l].row = launcher[l].row
  BY DEF Become, TypeOK, LauncherType

LEMMA UpdateSets ==
  ASSUME TypeOK, NEW l \in Launcher, NEW snap,
         Become(l, [launcher[l] EXCEPT !.pc = "update", !.snap = snap])
  PROVE  launcher'[l].pc = "update" /\ launcher'[l].row = launcher[l].row
  BY DEF Become, TypeOK, LauncherType

-----------------------------------------------------------------------------
(* A step of the operator: a button changes a row as the page says, and a  *)
(* stop hits the launcher it has read from the row.                        *)

Turned(r) ==
    \/ coh'[r] = coh[r]
    \/ \E from \in {Pausable, {"scheduled"}} : coh'[r] = PauseRow(coh[r], from)
    \/ coh'[r] = PlayRow(coh[r]) /\ ("command_play" \in Ops \/ operator.act = "play")
    \/ coh'[r] = ResetRow(coh[r], NoPid) /\ "play" \in Ops
    \/ coh'[r] = StopRow(coh[r], NoPid) /\ operator.act = "stop"

Hit(l) ==
    \/ launcher'[l] = launcher[l]
    \/ /\ Live(l)
       /\ operator.act = "kill" /\ operator.pid = l /\ operator.row = RowOf(l)
       /\ \/ launcher'[l] = [Idle EXCEPT !.pc = "dead", !.row = RowOf(l)]
          \/ /\ At(l, "run") /\ launcher[l].phase # "delete"
             /\ launcher'[l] = [launcher[l] EXCEPT !.pc = "result", !.ok = FALSE]

LEMMA OperatorLocal ==
  ASSUME TypeOK, Operator
  PROVE  /\ \A r \in Row : Turned(r)
         /\ \A l \in Launcher : Hit(l)
         /\ pass' = pass /\ clock' = clock /\ work' = work
  <1>1. ASSUME NEW r \in Row, HostPause(r) \/ HostPlayReset(r) \/ HostStop(r)
        PROVE  /\ \A q \in Row : Turned(q)
               /\ launcher' = launcher /\ pass' = pass /\ clock' = clock /\ work' = work
    BY <1>1 DEF HostPause, HostPlayReset, HostStop, StopSelect, Asks, TypeOK, Turned
  <1>2. ASSUME NEW r \in Row, \/ CommandPause(Command[r].id)
                              \/ CommandPlay(Command[r].id)
                              \/ CommandStop(Command[r].id)
        PROVE  /\ \A q \in Row : Turned(q)
               /\ launcher' = launcher /\ pass' = pass /\ clock' = clock /\ work' = work
    BY <1>2 DEF CommandPause, CommandPlay, CommandStop, StopSelect, Asks, TypeOK, Turned
  <1>3. ASSUME HostPlay \/ StopUpdate
        PROVE  /\ \A q \in Row : Turned(q)
               /\ launcher' = launcher /\ pass' = pass /\ clock' = clock /\ work' = work
    BY <1>3 DEF HostPlay, StopUpdate, TypeOK, Turned
  <1>4. ASSUME StopKill
        PROVE  /\ \A l \in Launcher : Hit(l)
               /\ coh' = coh /\ pass' = pass /\ clock' = clock /\ work' = work
    <2>1. operator.pid \in Launcher /\ operator.act = "kill"
      BY <1>4 DEF StopKill, TypeOK
    <2>2. CASE launcher' = launcher
      BY SMTT(40), <1>4, <2>2 DEF StopKill, Hit
    <2>3. CASE launcher' # launcher
      <3>1. Live(operator.pid) /\ RowOf(operator.pid) = operator.row
            /\ Killed(operator.pid)
        BY <1>4, <2>3 DEF StopKill
      <3>2. QED
        BY <1>4, <2>1, <2>3, <3>1 DEF StopKill, Killed, Leave, Become, RowOf, At, Hit, TypeOK
    <2>4. QED
      BY <2>2, <2>3
  <1>5. QED
    BY <1>1, <1>2, <1>3, <1>4 DEF Operator, Hit, Turned

-----------------------------------------------------------------------------
(* Without overlap a row has one launcher at a time.                       *)

Exclusive ==
    /\ \A l, m \in Launcher : Live(l) /\ Live(m) /\ RowOf(l) = RowOf(m) => l = m
    /\ \A p \in Pass, l \in Launcher : Live(l) => RowOf(l) \notin pass[p]
    /\ \A p, q \in Pass : pass[p] # {} /\ pass[q] # {} => p = q

\* No launcher is started and no pass begins.
Calm == /\ pass' = pass
        /\ \A l \in Launcher : Live(l)' => Live(l) /\ launcher'[l].row = launcher[l].row

LEMMA ExclusiveCalm ==
  ASSUME Exclusive, Calm PROVE Exclusive'
  BY DEF Exclusive, Calm, Live, RowOf

LEMMA HitStays ==
  ASSUME TypeOK, NEW l \in Launcher, Hit(l), Live(l)'
  PROVE  Live(l) /\ launcher'[l].row = launcher[l].row
  <1>1. CASE launcher'[l] = launcher[l]
    BY <1>1 DEF Live
  <1>2. CASE launcher'[l] = [Idle EXCEPT !.pc = "dead", !.row = RowOf(l)]
    BY <1>2 DEF Live, Idle
  <1>3. CASE /\ Live(l)
             /\ launcher'[l] = [launcher[l] EXCEPT !.pc = "result", !.ok = FALSE]
    BY <1>3 DEF TypeOK, LauncherType
  <1>4. QED
    BY <1>1, <1>2, <1>3 DEF Hit

LEMMA CalmSteps ==
  ASSUME TypeOK, \/ \E l \in Launcher : LauncherStep(l) \/ Crash(l)
                 \/ Operator \/ Tick \/ UNCHANGED vars
  PROVE  Calm
  <1>1. ASSUME NEW l \in Launcher, LauncherStep(l) \/ Crash(l) PROVE Calm
    BY <1>1, StepLocal DEF Local, Calm, Live, RowOf
  <1>2. CASE Operator
    BY <1>2, OperatorLocal, HitStays DEF Calm
  <1>3. CASE Tick \/ UNCHANGED vars
    BY <1>3 DEF Tick, vars, Calm, Live
  <1>4. QED
    BY <1>1, <1>2, <1>3

LEMMA ExclusiveNext ==
  ASSUME TypeOK, Overlap = FALSE, Exclusive, [Next]_vars
  PROVE  Exclusive'
  <1>1. ASSUME NEW p \in Pass, start_all_commands(p) PROVE Exclusive'
    <2>1. PICK S \in SUBSET Due : pass' = [pass EXCEPT ![p] = S]
      BY <1>1 DEF start_all_commands
    <2>2. Quiet /\ launcher' = launcher
      BY <1>1 DEF start_all_commands
    <2>3. \A q \in Pass : pass'[q] = IF q = p THEN S ELSE {}
      BY <2>1, <2>2 DEF Quiet, TypeOK
    <2>4. \A q \in Pass, l \in Launcher : Live(l) => RowOf(l) \notin pass'[q]
      BY <2>2, <2>3 DEF Quiet, RowOf
    <2>5. QED
      BY <2>2, <2>3, <2>4 DEF Exclusive, Live, RowOf
  <1>2. ASSUME NEW p \in Pass, Spawn(p) PROVE Exclusive'
    <2>1. PICK r \in pass[p], l \in Launcher :
             /\ launcher[l].pc = "idle"
             /\ Become(l, [Idle EXCEPT !.pc = "start", !.row = r])
             /\ pass' = [pass EXCEPT ![p] = @ \ {r}]
      BY <1>2 DEF Spawn
    <2>2. launcher'[l].row = r /\ \A m \in Launcher : m # l => launcher'[m] = launcher[m]
      BY <2>1 DEF Become, Idle, TypeOK
    <2>3. ~Live(l)
      BY <2>1 DEF Live
    <2>4. /\ \A q \in Pass : pass'[q] \subseteq pass[q]
          /\ \A q \in Pass : r \notin pass'[q]
      BY <2>1 DEF Exclusive, TypeOK
    <2>5. \A m, n \in Launcher : Live(m)' /\ Live(n)' /\ RowOf(m)' = RowOf(n)' => m = n
      BY <2>2, <2>3 DEF Exclusive, Live, RowOf
    <2>6. ASSUME NEW q \in Pass, NEW m \in Launcher, Live(m)'
          PROVE  RowOf(m)' \notin pass'[q]
      <3>1. CASE m = l
        BY <2>2, <2>4, <3>1 DEF RowOf
      <3>2. CASE m # l
        <4>1. Live(m) /\ RowOf(m)' = RowOf(m)
          BY <2>2, <2>6, <3>2 DEF Live, RowOf
        <4>2. QED
          BY <2>4, <4>1 DEF Exclusive
      <3>3. QED
        BY <3>1, <3>2
    <2>7. QED
      BY <2>4, <2>5, <2>6 DEF Exclusive
  <1>3. QED
    BY <1>1, <1>2, CalmSteps, ExclusiveCalm DEF Next

-----------------------------------------------------------------------------
(* What holds of a row and of its launcher.                                *)

\* A row that is done is finished; a script that has succeeded is recorded,
\* or about to be recorded, and no button takes that back.
Sound(row, w) ==
    /\ row.state = "done" => AllFinished(row)
    /\ w.ran <= 1
    /\ w.ran = 1 => /\ row.step["execution"] \in {"WORK_IN_PROGRESS", "DONE"}
                    /\ row.state # "execution_failed"

\* A row that a pass has selected.
Waiting(row) == row.state \notin FailedStates \cup {"done"}

Leaving   == {"resched", "update", "connfail", "free1", "free2"}
Executing == {"decide", "mark", "flag", "run", "result", "setflag", "skip",
              "skipflag", "final", "setdone"}

\* Launcher rec and its row at time now.  The state is that of a failed phase
\* only between the two UPDATEs that record the failure, so a play that resets
\* a column never meets a launcher that has seen another value there.
Own(rec, row, w, now) ==
    /\ rec.pc \notin Leaving =>
          /\ row.state # "done"
          /\ row.state \in FailedStates => rec.pc = "setflag" /\ ~rec.ok
    /\ rec.pc \in Executing => row.start = 0 \/ row.start <= now
    /\ rec.pc = "setdone" => AllFinished(row)
    /\ rec.phase = "execution" =>
          /\ rec.pc \in {"mark", "flag", "skip", "skipflag"} =>
                row.step["execution"] = "TODO"
          /\ rec.pc = "run" =>
                row.step["execution"] = "WORK_IN_PROGRESS" /\ w.ran = 0
          /\ rec.pc \in {"result", "setflag"} /\ ~rec.ok => w.ran = 0

\* The inductive invariant.
SerialInv ==
    /\ Exclusive
    /\ \A r \in Row : Sound(coh[r], work[r])
    /\ \A l \in Launcher :
          Live(l) => Own(launcher[l], coh[RowOf(l)], work[RowOf(l)], clock)
    /\ \A p \in Pass : \A r \in pass[p] : Waiting(coh[r])

\* What a step of launcher l has to keep.
Kept(l) ==
    /\ Sound(coh'[RowOf(l)], work'[RowOf(l)])
    /\ launcher'[l].pc \notin {"idle", "dead"} =>
          Own(launcher'[l], coh'[RowOf(l)], work'[RowOf(l)], clock)

LEMMA SerialStep ==
  ASSUME TypeOK, SerialInv, Exclusive', NEW l \in Launcher, Local(l), Kept(l)
  PROVE  SerialInv'
  <1>1. ASSUME NEW q \in Row PROVE Sound(coh'[q], work'[q])
    BY DEF SerialInv, Local, Kept
  <1>2. ASSUME NEW m \in Launcher, Live(m)'
        PROVE  Own(launcher'[m], coh'[RowOf(m)'], work'[RowOf(m)'], clock')
    <2>1. CASE m = l
      BY <1>2, <2>1 DEF Local, Kept, Live, RowOf
    <2>2. CASE m # l
      <3>1. launcher'[m] = launcher[m] /\ Live(m) /\ RowOf(m)' = RowOf(m)
        BY <1>2, <2>2 DEF Local, Live, RowOf
      <3>2. RowOf(m) # RowOf(l) /\ RowOf(m) \in Row
        BY <2>2, <3>1 DEF Local, SerialInv, Exclusive, Live, RowOf, TypeOK
      <3>3. coh'[RowOf(m)] = coh[RowOf(m)] /\ work'[RowOf(m)] = work[RowOf(m)]
            /\ clock' = clock
        BY <3>2 DEF Local
      <3>4. QED
        BY <3>1, <3>3 DEF SerialInv
    <2>3. QED
      BY <2>1, <2>2
  <1>3. ASSUME NEW p \in Pass, NEW r \in pass'[p] PROVE Waiting(coh'[r])
    <2>1. pass' = pass /\ RowOf(l) \notin pass[p] /\ r \in Row
      BY DEF Local, SerialInv, Exclusive, TypeOK
    <2>2. coh'[r] = coh[r]
      BY <2>1 DEF Local
    <2>3. QED
      BY <2>1, <2>2 DEF SerialInv
  <1>4. QED
    BY <1>1, <1>2, <1>3 DEF SerialInv

\* The columns step and start and the script's count stay as they are.
Unmoved(l) == /\ coh'[RowOf(l)].step = coh[RowOf(l)].step
              /\ coh'[RowOf(l)].start = coh[RowOf(l)].start
              /\ work'[RowOf(l)].ran = work[RowOf(l)].ran

\* Before and after execute() nothing but the state may change.
LEMMA SerialOutside ==
  ASSUME SerialInv, NEW l \in Launcher, Live(l), RowOf(l) \in Row, Unmoved(l),
         launcher'[l].pc \notin Executing,
         \/ /\ launcher[l].pc \notin Leaving \cup {"setflag"}
            /\ coh'[RowOf(l)].state \in {coh[RowOf(l)].state, "scheduled", "not_reachable"}
         \/ /\ launcher'[l].pc \in Leaving \cup {"idle"}
            /\ coh'[RowOf(l)].state = coh[RowOf(l)].state
  PROVE  Kept(l)
  <1>1. /\ Sound(coh[RowOf(l)], work[RowOf(l)])
        /\ Own(launcher[l], coh[RowOf(l)], work[RowOf(l)], clock)
    BY DEF SerialInv
  <1>2. Sound(coh'[RowOf(l)], work'[RowOf(l)])
    BY <1>1 DEF Sound, Unmoved, AllFinished
  <1>3. launcher'[l].pc \notin {"idle", "dead"} =>
          Own(launcher'[l], coh'[RowOf(l)], work'[RowOf(l)], clock)
    BY <1>1 DEF Own, Unmoved, Executing, Leaving, FailedStates
  <1>4. QED
    BY <1>2, <1>3 DEF Kept

LEMMA SerialConnect ==
  ASSUME TypeOK, SerialInv, NEW l \in Launcher, RowOf(l) \in Row,
         \/ Start(l) \/ Claim(l) \/ ConnFail(l) \/ Free1(l) \/ Free2(l)
         \/ ConnectNot(l) \/ ConnectHalted(l) \/ ConnectLegacy(l) \/ ConnectTry(l)
         \/ Reach(l) \/ NoMac(l) \/ Unreach(l) \/ Dec(l) \/ Retry(l)
  PROVE  Kept(l)
  <1> DEFINE pc  == launcher[l].pc
             pc1 == launcher'[l].pc
             st  == coh[RowOf(l)].state
             st1 == coh'[RowOf(l)].state
  <1>1. CASE Start(l)
    <2>1. pc = "start" /\ pc1 \in {"idle", "claim"} /\ st1 = st /\ Unmoved(l)
      <3>1. pc = "start" /\ st1 = st /\ Unmoved(l)
        BY <1>1 DEF Start, At, Unmoved
      <3>2. Become(l, Idle) \/ Goto(l, "claim")
        BY <1>1 DEF Start
      <3>3. QED
        BY <3>1, <3>2, GotoSets, EndLocal
    <2>2. QED
      BY <2>1, SerialOutside DEF Live, Leaving, Executing
  <1>2. CASE Claim(l)
    <2>1. pc = "claim" /\ pc1 \in {"connect", "free2"} /\ st1 = st /\ Unmoved(l)
      <3>1. pc = "claim" /\ work' = work
        BY <1>2 DEF Claim, At
      <3>2. CASE SetPid(l, l) /\ pc1 = "connect"
        BY <3>1, <3>2, PidSet DEF Unmoved
      <3>3. CASE Leave(l, "free2") /\ coh' = coh
        BY <3>1, <3>3, LeaveSets DEF Unmoved
      <3>4. QED
        BY <1>2, <3>2, <3>3, ClaimSets
    <2>2. QED
      BY <2>1, SerialOutside DEF Live, Leaving, Executing
  <1>3. CASE ConnFail(l) \/ Free1(l) \/ Free2(l)
    <2>1. pc \in Leaving /\ pc1 \in Leaving \cup {"idle"} /\ st1 = st /\ Unmoved(l)
      <3>1. SetPid(l, NoPid) /\ work' = work
        BY <1>3 DEF ConnFail, Free1, Free2
      <3>2. st1 = st /\ Unmoved(l)
        BY <3>1, PidSet DEF Unmoved
      <3>3. pc \in Leaving /\ pc1 \in Leaving \cup {"idle"}
        <4>1. CASE Free2(l)
          BY <4>1, EndLocal DEF Free2, At, Leaving
        <4>2. CASE ConnFail(l) \/ Free1(l)
          BY <4>2, LeaveSets DEF ConnFail, Free1, At, Leaving
        <4>3. QED
          BY <1>3, <4>1, <4>2
      <3>4. QED
        BY <3>2, <3>3
    <2>2. QED
      BY <2>1, SerialOutside DEF Live, Leaving, Executing
  <1>4. CASE ConnectNot(l) \/ ConnectHalted(l) \/ ConnectTry(l)
    <2>1. /\ pc = "connect" /\ pc1 \in {"connfail", "nomac", "check", "reach", "unreach"}
          /\ st1 = st /\ Unmoved(l)
      <3>1. pc = "connect" /\ st1 = st /\ Unmoved(l)
        BY <1>4 DEF ConnectNot, ConnectHalted, ConnectTry, Connecting, At, Unmoved
      <3>2. \E p \in {"connfail", "nomac", "check", "reach", "unreach"} :
               Goto(l, p) \/ Leave(l, p)
        BY <1>4 DEF ConnectNot, ConnectHalted, ConnectTry
      <3>3. QED
        BY <3>1, <3>2, GotoSets, LeaveSets
    <2>2. QED
      BY <2>1, SerialOutside DEF Live, Leaving, Executing
  <1>5. CASE ConnectLegacy(l)
    <2>1. pc = "connect" /\ pc1 = "check" /\ st1 = st /\ Unmoved(l)
      BY <1>5, GotoSets, NextSet DEF ConnectLegacy, Connecting, At, Unmoved
    <2>2. QED
      BY <2>1, SerialOutside DEF Live, Leaving, Executing
  <1>6. CASE Retry(l)
    <2>1. pc = "retry" /\ pc1 \in {"connfail", "resched"} /\ st1 = st /\ Unmoved(l)
      BY <1>6, GotoSets, LeaveSets, NextSet DEF Retry, At, Unmoved
    <2>2. QED
      BY <2>1, SerialOutside DEF Live, Leaving, Executing
  <1>7. CASE Reach(l) \/ Dec(l)
    <2>1. /\ pc \in {"reach", "dec"} /\ pc1 \in {"check", "retry"}
          /\ st1 \in {st, "scheduled"} /\ Unmoved(l)
      <3>1. CASE Reach(l)
        BY <3>1, ReachSets, StateSet DEF Reach, At, Unmoved
      <3>2. CASE Dec(l)
        BY <3>2, DecSets, AttemptsSet DEF Dec, At, Unmoved
      <3>3. QED
        BY <1>7, <3>1, <3>2
    <2>2. QED
      BY <2>1, SerialOutside DEF Live, Leaving, Executing
  <1>8. CASE NoMac(l) \/ Unreach(l)
    <2>1. work'[RowOf(l)].ran = work[RowOf(l)].ran
      BY <1>8 DEF NoMac, Unreach, TypeOK, WorkType
    <2>2. /\ pc \in {"nomac", "unreach"} /\ pc1 \in {"connfail", "dec"}
          /\ st1 = "not_reachable" /\ Unmoved(l)
      <3>1. SetState(l, "not_reachable") /\ pc \in {"nomac", "unreach"}
        BY <1>8 DEF NoMac, Unreach, At
      <3>2. st1 = "not_reachable" /\ Unmoved(l)
        BY <2>1, <3>1, StateSet DEF Unmoved
      <3>3. pc1 \in {"connfail", "dec"}
        BY <1>8, GotoSets DEF NoMac, Unreach
      <3>4. QED
        BY <3>1, <3>2, <3>3
    <2>3. QED
      BY <2>2, SerialOutside DEF Live, Leaving, Executing
  <1>9. QED
    BY <1>1, <1>2, <1>3, <1>4, <1>5, <1>6, <1>7, <1>8

LEMMA SerialExecute ==
  ASSUME TypeOK, SerialInv, NEW l \in Launcher, RowOf(l) \in Row,
         \/ Check(l) \/ Decide(l) \/ Mark(l) \/ MarkFlag(l) \/ Skip(l) \/ SkipFlag(l)
         \/ Final(l) \/ SetDone(l)
  PROVE  Kept(l)
  <1> DEFINE rec  == launcher[l]
             rec1 == launcher'[l]
             row  == coh[RowOf(l)]
             row1 == coh'[RowOf(l)]
             ran  == work[RowOf(l)].ran
             ran1 == work'[RowOf(l)].ran
  <1>1. Sound(row, work[RowOf(l)]) /\ (Live(l) => Own(rec, row, work[RowOf(l)], clock))
    BY DEF SerialInv
  <1>2. rec.phase \in Phase /\ ran \in Nat /\ row.step \in [Phase -> Flag]
    BY DEF TypeOK, LauncherType, WorkType, RowType
  <1>3. CASE Check(l)
    <2>1. /\ rec.pc = "check" /\ row1 = row /\ ran1 = ran
          /\ rec1.pc \in {"free1", "decide"}
          /\ rec1.pc = "decide" => row.start = 0 \/ row.start <= clock
      BY <1>3, GotoSets, LeaveSets DEF Check, At, TooEarly, TypeOK, RowType
    <2>2. Sound(row1, work'[RowOf(l)])
      BY <1>1, <1>2, <2>1 DEF Sound, Own, AllFinished, Live, Leaving, Phase
    <2>3. Own(rec1, row1, work'[RowOf(l)], clock)
      BY <1>1, <1>2, <2>1 DEF Sound, Own, AllFinished, Live, Leaving, Executing, FailedStates, Phase
    <2>4. QED
      BY <2>2, <2>3 DEF Kept
  <1>4. CASE Decide(l)
    <2>1. /\ rec.pc = "decide" /\ row1 = row /\ ran1 = ran
          /\ rec1.pc \in {"mark", "skip", "decide", "final"}
          /\ /\ rec1.pc \in {"mark", "skip"}
             /\ rec1.phase = "execution"
             => row.step["execution"] = "TODO"
      BY <1>4, <1>2, GotoSets, PhaseSets DEF Decide, At, Wanted, Phase, NextPhase
    <2>2. Sound(row1, work'[RowOf(l)])
      BY <1>1, <1>2, <2>1 DEF Sound, Own, AllFinished, Live, Leaving, Phase
    <2>3. Own(rec1, row1, work'[RowOf(l)], clock)
      BY <1>1, <1>2, <2>1 DEF Sound, Own, AllFinished, Live, Leaving, Executing, FailedStates, Phase
    <2>4. QED
      BY <2>2, <2>3 DEF Kept
  <1>5. CASE Mark(l)
    <2>1. /\ rec.pc = "mark" /\ rec1.pc = "flag" /\ rec1.phase = rec.phase /\ ran1 = ran
          /\ row1.state = InProgress[rec.phase] /\ row1.step = row.step
          /\ row1.start = row.start
      BY <1>5, GotoSets, StateSet DEF Mark, At
    <2>2. Sound(row1, work'[RowOf(l)])
      BY <1>1, <1>2, <2>1 DEF Sound, Own, AllFinished, Live, Leaving, Phase, InProgress
    <2>3. Own(rec1, row1, work'[RowOf(l)], clock)
      BY <1>1, <1>2, <2>1 DEF Sound, Own, AllFinished, Live, Leaving, Executing, FailedStates, Phase, InProgress
    <2>4. QED
      BY <2>2, <2>3 DEF Kept
  <1>6. CASE MarkFlag(l)
    <2>1. /\ rec.pc = "flag" /\ rec1.pc = "run" /\ rec1.phase = rec.phase /\ ran1 = ran
          /\ row1.step = [row.step EXCEPT ![rec.phase] = "WORK_IN_PROGRESS"]
          /\ row1.state = row.state /\ row1.start = row.start
      BY <1>6, GotoSets, StepSet DEF MarkFlag, At
    <2>2. Sound(row1, work'[RowOf(l)])
      BY <1>1, <1>2, <2>1 DEF Sound, Own, AllFinished, Live, Leaving, Phase
    <2>3. Own(rec1, row1, work'[RowOf(l)], clock)
      BY <1>1, <1>2, <2>1 DEF Sound, Own, AllFinished, Live, Leaving, Executing, FailedStates, Phase
    <2>4. QED
      BY <2>2, <2>3 DEF Kept
  <1>7. CASE Skip(l)
    <2>1. /\ rec.pc = "skip" /\ rec1.pc = "skipflag" /\ rec1.phase = rec.phase /\ ran1 = ran
          /\ row1.state = Succeeded[rec.phase] /\ row1.step = row.step
          /\ row1.start = row.start
      BY <1>7, GotoSets, StateSet DEF Skip, At
    <2>2. Sound(row1, work'[RowOf(l)])
      BY <1>1, <1>2, <2>1 DEF Sound, Own, AllFinished, Live, Leaving, Phase, Succeeded
    <2>3. Own(rec1, row1, work'[RowOf(l)], clock)
      BY <1>1, <1>2, <2>1 DEF Sound, Own, AllFinished, Live, Leaving, Executing, FailedStates, Phase, Succeeded
    <2>4. QED
      BY <2>2, <2>3 DEF Kept
  <1>8. CASE SkipFlag(l)
    <2>1. /\ rec.pc = "skipflag" /\ rec1.pc \in {"decide", "final"} /\ ran1 = ran
          /\ row1.step = [row.step EXCEPT ![rec.phase] = "IGNORED"]
          /\ row1.state = row.state /\ row1.start = row.start
      BY <1>8, PhaseSets, StepSet DEF SkipFlag, At
    <2>2. Sound(row1, work'[RowOf(l)])
      BY <1>1, <1>2, <2>1 DEF Sound, Own, AllFinished, Live, Leaving, Phase
    <2>3. Own(rec1, row1, work'[RowOf(l)], clock)
      BY <1>1, <1>2, <2>1 DEF Sound, Own, AllFinished, Live, Leaving, Executing, FailedStates, Phase
    <2>4. QED
      BY <2>2, <2>3 DEF Kept
  <1>9. CASE Final(l)
    <2>1. /\ rec.pc = "final" /\ row1 = row /\ ran1 = ran
          /\ rec1.pc \in {"setdone", "resched"}
          /\ rec1.pc = "setdone" => AllFinished(row)
      BY <1>9, GotoSets DEF Final, At
    <2>2. Sound(row1, work'[RowOf(l)])
      BY <1>1, <1>2, <2>1 DEF Sound, Own, AllFinished, Live, Leaving, Phase
    <2>3. Own(rec1, row1, work'[RowOf(l)], clock)
      BY <1>1, <1>2, <2>1 DEF Sound, Own, AllFinished, Live, Leaving, Executing, FailedStates, Phase
    <2>4. QED
      BY <2>2, <2>3 DEF Kept
  <1>10. CASE SetDone(l)
    <2>1. /\ rec.pc = "setdone" /\ rec1.pc = "resched" /\ ran1 = ran
          /\ row1.state = "done" /\ row1.step = row.step
      BY <1>10, GotoSets, StateSet DEF SetDone, At
    <2>2. Sound(row1, work'[RowOf(l)])
      BY <1>1, <1>2, <2>1 DEF Sound, Own, AllFinished, Live, Leaving, Phase
    <2>3. Own(rec1, row1, work'[RowOf(l)], clock)
      BY <1>1, <1>2, <2>1 DEF Sound, Own, AllFinished, Live, Leaving, Executing, FailedStates, Phase
    <2>4. QED
      BY <2>2, <2>3 DEF Kept
  <1>11. QED
    BY <1>3, <1>4, <1>5, <1>6, <1>7, <1>8, <1>9, <1>10

LEMMA SerialRun ==
  ASSUME TypeOK, SerialInv, NEW l \in Launcher, RowOf(l) \in Row,
         Run(l) \/ Result(l) \/ ResultFlag(l)
  PROVE  Kept(l)
  <1> DEFINE rec  == launcher[l]
             rec1 == launcher'[l]
             row  == coh[RowOf(l)]
             row1 == coh'[RowOf(l)]
             ran  == work[RowOf(l)].ran
             ran1 == work'[RowOf(l)].ran
  <1>1. Sound(row, work[RowOf(l)]) /\ (Live(l) => Own(rec, row, work[RowOf(l)], clock))
    BY DEF SerialInv
  <1>2. rec.phase \in Phase /\ ran \in Nat /\ row.step \in [Phase -> Flag]
    BY DEF TypeOK, LauncherType, WorkType, RowType
  <1>3. CASE Run(l)
    <2>1. PICK ok \in BOOLEAN :
             /\ Become(l, [launcher[l] EXCEPT !.pc = "result", !.ok = ok])
             /\ work' = IF ok THEN [work EXCEPT ![RowOf(l)] = Achieved(@, rec.phase)]
                              ELSE work
      BY <1>3 DEF Run
    <2>2. /\ rec1.pc = "result" /\ rec1.phase = rec.phase /\ rec1.ok = ok
      BY <2>1, ResultSets
    <2>3. rec.pc = "run" /\ row1 = row
      BY <1>3 DEF Run, At
    <2>4. ran1 = IF ok /\ rec.phase = "execution" THEN ran + 1 ELSE ran
      BY <1>2, <2>1 DEF Achieved, TypeOK, WorkType, Phase
    <2>5. Sound(row1, work'[RowOf(l)])
      BY <1>1, <1>2, <2>3, <2>4 DEF Sound, Own, Live, Leaving, FailedStates
    <2>6. Own(rec1, row1, work'[RowOf(l)], clock)
      BY <1>1, <1>2, <2>2, <2>3, <2>4 DEF Own, Live, Leaving, Executing
    <2>7. QED
      BY <2>5, <2>6 DEF Kept
  <1>4. CASE Result(l)
    <2>1. /\ rec.pc = "result" /\ rec1.pc = "setflag" /\ rec1.phase = rec.phase
          /\ rec1.ok = rec.ok /\ ran1 = ran
          /\ row1.state = IF rec.ok THEN Succeeded[rec.phase] ELSE Failed[rec.phase]
          /\ row1.step = row.step /\ row1.start = row.start
      BY <1>4, GotoSets, StateSet DEF Result, At
    <2>2. Sound(row1, work'[RowOf(l)])
      BY <1>1, <1>2, <2>1 DEF Sound, Own, Live, Phase, Succeeded, Failed
    <2>3. Own(rec1, row1, work'[RowOf(l)], clock)
      BY <1>1, <1>2, <2>1 DEF Own, Live, Leaving, Executing, FailedStates, Phase,
          Succeeded, Failed
    <2>4. QED
      BY <2>2, <2>3 DEF Kept
  <1>5. CASE ResultFlag(l)
    <2>1. /\ rec.pc = "setflag" /\ ran1 = ran
          /\ row1.step = [row.step EXCEPT ![rec.phase] = IF rec.ok THEN "DONE" ELSE "FAILED"]
          /\ row1.state = row.state /\ row1.start = row.start
      BY <1>5, StepSet DEF ResultFlag, At
    <2>2. \/ rec.ok /\ rec1.pc \in {"decide", "final"}
          \/ ~rec.ok /\ rec1.pc = "free1"
      BY <1>5, PhaseSets, LeaveSets DEF ResultFlag
    <2>3. Sound(row1, work'[RowOf(l)])
      BY <1>1, <1>2, <2>1 DEF Sound, Own, Live, Leaving, Phase
    <2>4. Own(rec1, row1, work'[RowOf(l)], clock)
      BY <1>1, <1>2, <2>1, <2>2 DEF Own, Live, Leaving, Executing
    <2>5. QED
      BY <2>3, <2>4 DEF Kept
  <1>6. QED
    BY <1>3, <1>4, <1>5

\* The columns a new period begins with.
LEMMA PeriodSets ==
  ASSUME TypeOK, NEW l \in Launcher, RowOf(l) \in Row, Update(l)
  PROVE  /\ coh'[RowOf(l)].state = "scheduled"
         /\ coh'[RowOf(l)].step = AllTodo
         /\ coh'[RowOf(l)].attempts = Cmd(l).attempts
         /\ work'[RowOf(l)] = NoWork
         /\ launcher'[l].pc \in {"connfail", "free1"}
         /\ launcher'[l].row = launcher[l].row
  <1>1. coh[RowOf(l)] \in RowType /\ RowOf(l) \in DOMAIN coh /\ RowOf(l) \in DOMAIN work
    BY DEF TypeOK
  <1>2. /\ coh'[RowOf(l)] = NextPeriod(coh[RowOf(l)], Cmd(l), launcher[l].snap)
        /\ work'[RowOf(l)] = NoWork
    BY <1>1 DEF Update
  <1>3. /\ coh'[RowOf(l)].state = "scheduled"
        /\ coh'[RowOf(l)].step = AllTodo
        /\ coh'[RowOf(l)].attempts = Cmd(l).attempts
    BY <1>1, <1>2 DEF NextPeriod, RowType
  <1>4. /\ launcher'[l].pc = AfterResched(l)
        /\ launcher'[l].row = launcher[l].row
    BY LeaveSets DEF Update
  <1>5. QED
    BY <1>2, <1>3, <1>4 DEF AfterResched

LEMMA SerialEnd ==
  ASSUME TypeOK, SerialInv, NEW l \in Launcher, RowOf(l) \in Row,
         Resched(l) \/ Update(l) \/ Crash(l)
  PROVE  Kept(l)
  <1>1. CASE Resched(l)
    <2>1. launcher[l].pc = "resched" /\ launcher'[l].pc \in {"connfail", "free1", "update"}
      <3>1. CASE Leave(l, AfterResched(l))
        BY <1>1, <3>1, LeaveSets DEF Resched, At, AfterResched
      <3>2. CASE ~Leave(l, AfterResched(l))
        BY <1>1, <3>2, UpdateSets DEF Resched, At
      <3>3. QED
        BY <3>1, <3>2
    <2>2. /\ coh'[RowOf(l)].state = coh[RowOf(l)].state
          /\ Unmoved(l)
      BY <1>1, NextSet DEF Resched, Unmoved
    <2>3. QED
      BY <2>1, <2>2, SerialOutside DEF Live, Leaving, Executing
  <1>2. CASE Update(l)
    <2>1. Sound(coh'[RowOf(l)], work'[RowOf(l)])
      BY <1>2, PeriodSets DEF Sound, NoWork
    <2>2. Own(launcher'[l], coh'[RowOf(l)], work'[RowOf(l)], clock)
      BY <1>2, PeriodSets DEF Own, Leaving, Executing
    <2>3. QED
      BY <2>1, <2>2 DEF Kept
  <1>3. CASE Crash(l)
    <2>1. launcher'[l].pc = "dead" /\ coh' = coh /\ work' = work
      BY <1>3, LeaveSets DEF Crash
    <2>2. QED
      BY <2>1 DEF Kept, SerialInv
  <1>4. QED
    BY <1>1, <1>2, <1>3

LEMMA SerialLauncher ==
  ASSUME TypeOK, SerialInv, Exclusive', NEW l \in Launcher, LauncherStep(l) \/ Crash(l)
  PROVE  SerialInv'
  <1>1. Local(l)
    BY StepLocal
  <1>2. RowOf(l) \in Row
    BY <1>1 DEF Local
  <1>3. Kept(l)
    BY <1>2, SerialConnect, SerialExecute, SerialRun, SerialEnd DEF LauncherStep
  <1>4. QED
    BY <1>1, <1>3, SerialStep

\* A button leaves the columns alone, except that play resets the column of a
\* phase whose failure the state shows.
LEMMA ButtonSets ==
  ASSUME TypeOK, NEW r \in Row, Turned(r)
  PROVE  /\ coh'[r].start = coh[r].start
         /\ coh'[r].state \in {coh[r].state, "pause", "scheduled", "stop"}
         /\ \/ coh'[r].step = coh[r].step
            \/ /\ coh[r].state \in Restartable
               /\ coh'[r].state = "scheduled"
               /\ coh'[r].step = [ph \in Phase |-> IF coh[r].state = Failed[ph]
                                                   THEN "TODO" ELSE coh[r].step[ph]]
  <1>1. coh[r] \in RowType
    BY DEF TypeOK
  <1>2. CASE coh'[r] = coh[r]
    BY <1>2
  <1>3. CASE \E from \in {Pausable, {"scheduled"}} : coh'[r] = PauseRow(coh[r], from)
    BY <1>1, <1>3 DEF PauseRow, RowType
  <1>4. CASE coh'[r] = PlayRow(coh[r])
    <2>1. CASE coh[r].state \in Restartable
      <3> DEFINE new == [ph \in Phase |-> IF coh[r].state = Failed[ph]
                                            THEN "TODO" ELSE coh[r].step[ph]]
      <3>1. coh'[r] = [coh[r] EXCEPT !.state = "scheduled", !.step = new]
        BY <1>4, <2>1 DEF PlayRow
      <3> HIDE DEF new
      <3>2. /\ coh'[r].start = coh[r].start /\ coh'[r].state = "scheduled"
            /\ coh'[r].step = new
        BY <1>1, <3>1 DEF RowType
      <3>3. QED
        BY <2>1, <3>2 DEF new
    <2>2. CASE coh[r].state \notin Restartable
      BY <1>4, <2>2 DEF PlayRow
    <2>3. QED
      BY <2>1, <2>2
  <1>5. CASE coh'[r] = ResetRow(coh[r], NoPid)
    BY <1>1, <1>5 DEF ResetRow, RowType
  <1>6. CASE coh'[r] = StopRow(coh[r], NoPid)
    BY <1>1, <1>6 DEF StopRow, RowType
  <1>7. QED
    BY <1>2, <1>3, <1>4, <1>5, <1>6 DEF Turned

LEMMA SerialOperator ==
  ASSUME TypeOK, SerialInv, Exclusive', Operator
  PROVE  SerialInv'
  <1>1. /\ \A r \in Row : Turned(r)
        /\ \A l \in Launcher : Hit(l)
        /\ pass' = pass /\ clock' = clock /\ work' = work
    BY OperatorLocal
  <1>2. ASSUME NEW r \in Row PROVE Sound(coh'[r], work'[r])
    <2>1. Sound(coh[r], work[r]) /\ Turned(r)
      BY <1>1 DEF SerialInv
    <2>2. CASE coh'[r].step = coh[r].step
      BY <1>1, <2>1, <2>2, ButtonSets DEF Sound, AllFinished
    <2>3. CASE coh'[r].step # coh[r].step
      BY <1>1, <2>1, <2>3, ButtonSets DEF Sound, Phase, Failed
    <2>4. QED
      BY <2>2, <2>3
  <1>3. ASSUME NEW l \in Launcher, Live(l)'
        PROVE  Own(launcher'[l], coh'[RowOf(l)'], work'[RowOf(l)'], clock')
    <2>1. Live(l) /\ RowOf(l)' = RowOf(l) /\ RowOf(l) \in Row
      BY <1>1, <1>3, HitStays DEF RowOf, Live, TypeOK
    <2>2. Own(launcher[l], coh[RowOf(l)], work[RowOf(l)], clock)
      BY <2>1 DEF SerialInv
    <2>3. Own(launcher[l], coh'[RowOf(l)], work[RowOf(l)], clock)
      <3>1. CASE coh'[RowOf(l)].step = coh[RowOf(l)].step
        BY <1>1, <2>1, <2>2, <3>1, ButtonSets DEF Own, AllFinished, FailedStates
      <3>2. CASE coh'[RowOf(l)].step # coh[RowOf(l)].step
        <4>1. /\ coh'[RowOf(l)].state = "scheduled"
              /\ coh'[RowOf(l)].start = coh[RowOf(l)].start
              /\ \E ph \in Phase : coh[RowOf(l)].state = Failed[ph]
          <5>1. coh[RowOf(l)].step \in [Phase -> Flag]
            BY <2>1 DEF TypeOK, RowType
          <5>2. QED
            BY <1>1, <2>1, <3>2, <5>1, ButtonSets, ZenonT(30)
        <4>2. coh[RowOf(l)].state \in FailedStates
          BY <4>1 DEF Phase, Failed, FailedStates
        <4>3. launcher[l].pc \in Leaving \/ (launcher[l].pc = "setflag" /\ ~launcher[l].ok)
          BY <2>2, <4>2 DEF Own
        <4>4. QED
          BY <2>2, <4>1, <4>3 DEF Own, Leaving, Executing, FailedStates
      <3>3. QED
        BY <3>1, <3>2
    <2>4. CASE launcher'[l] = launcher[l]
      BY <1>1, <2>1, <2>3, <2>4
    <2>5. CASE launcher'[l] # launcher[l]
      <3>1. /\ At(l, "run")
            /\ launcher'[l] = [launcher[l] EXCEPT !.pc = "result", !.ok = FALSE]
        BY <1>1, <1>3, <2>5, ZenonT(30) DEF Hit, Live, Idle
      <3>2. /\ launcher'[l].pc = "result" /\ launcher'[l].phase = launcher[l].phase
            /\ launcher'[l].ok = FALSE
        BY <3>1 DEF TypeOK, LauncherType
      <3>3. QED
        BY <1>1, <2>1, <2>3, <3>1, <3>2 DEF Own, At, Leaving, Executing
    <2>6. QED
      BY <2>4, <2>5
  <1>4. ASSUME NEW p \in Pass, NEW r \in pass'[p] PROVE Waiting(coh'[r])
    <2>1. r \in Row /\ Waiting(coh[r])
      BY <1>1 DEF SerialInv, TypeOK
    <2>2. QED
      BY <1>1, <2>1, ButtonSets DEF Waiting, FailedStates
  <1>5. QED
    BY <1>2, <1>3, <1>4 DEF SerialInv

LEMMA SerialOthers ==
  ASSUME TypeOK, SerialInv, Exclusive',
         (\E p \in Pass : start_all_commands(p) \/ Spawn(p)) \/ Tick \/ UNCHANGED vars
  PROVE  SerialInv'
  <1>1. ASSUME NEW p \in Pass, start_all_commands(p) PROVE SerialInv'
    <2>1. PICK S \in SUBSET Due : pass' = [pass EXCEPT ![p] = S]
      BY <1>1 DEF start_all_commands
    <2>2. UNCHANGED <<coh, launcher, clock, work>>
      BY <1>1 DEF start_all_commands
    <2>3. \A r \in S : Waiting(coh[r])
      BY DEF Due, Startable, NotStartable, Waiting, FailedStates
    <2>4. \A q \in Pass : \A r \in pass'[q] : Waiting(coh[r])
      BY <2>1, <2>3 DEF SerialInv, TypeOK
    <2>5. QED
      BY <2>2, <2>4 DEF SerialInv, Live, RowOf
  <1>2. ASSUME NEW p \in Pass, Spawn(p) PROVE SerialInv'
    <2>1. PICK r \in pass[p], l \in Launcher :
             /\ launcher[l].pc = "idle"
             /\ Become(l, [Idle EXCEPT !.pc = "start", !.row = r])
             /\ pass' = [pass EXCEPT ![p] = @ \ {r}]
      BY <1>2 DEF Spawn
    <2>2. UNCHANGED <<coh, clock, work>>
      BY <1>2 DEF Spawn
    <2>3. /\ launcher'[l].row = r /\ launcher'[l].pc = "start"
          /\ \A m \in Launcher : m # l => launcher'[m] = launcher[m]
      BY <2>1 DEF Become, Idle, TypeOK
    <2>4. Waiting(coh[r])
      BY DEF SerialInv
    <2>5. Own(launcher'[l], coh[r], work[r], clock)
      BY <2>3, <2>4 DEF Own, Waiting, Leaving, Executing
    <2>6. \A q \in Pass : pass'[q] \subseteq pass[q]
      BY <2>1 DEF TypeOK
    <2>7. \A m \in Launcher :
             Live(m)' => Own(launcher'[m], coh'[RowOf(m)'], work'[RowOf(m)'], clock')
      BY <2>2, <2>3, <2>5 DEF SerialInv, Live, RowOf
    <2>8. QED
      BY <2>2, <2>6, <2>7 DEF SerialInv
  <1>3. CASE Tick
    <2>1. UNCHANGED <<coh, launcher, pass, work>> /\ clock' = clock + 1 /\ clock \in Nat
      BY <1>3 DEF Tick, TypeOK
    <2>2. \A l \in Launcher : Live(l) =>
             Own(launcher[l], coh[RowOf(l)], work[RowOf(l)], clock')
      <3>1. SUFFICES ASSUME NEW l \in Launcher, Live(l)
                     PROVE  Own(launcher[l], coh[RowOf(l)], work[RowOf(l)], clock')
        OBVIOUS
      <3>2. Own(launcher[l], coh[RowOf(l)], work[RowOf(l)], clock)
            /\ coh[RowOf(l)].start \in Nat
        BY <3>1 DEF SerialInv, TypeOK, Live, RowOf, RowType
      <3>3. QED
        BY <2>1, <3>2 DEF Own
    <2>3. QED
      BY <2>1, <2>2 DEF SerialInv, Live, RowOf
  <1>4. CASE UNCHANGED vars
    BY <1>4 DEF vars, SerialInv, Live, RowOf
  <1>5. QED
    BY <1>1, <1>2, <1>3, <1>4

LEMMA SerialInit == Init => SerialInv
  <1>1. Init => Exclusive
    BY DEF Init, Exclusive, Live, Idle
  <1>2. ASSUME Init, NEW r \in Row PROVE Sound(coh[r], work[r])
    BY <1>2 DEF Init, Sound, NewRow, NoWork
  <1>3. QED
    BY <1>1, <1>2 DEF Init, SerialInv, Live, Idle

LEMMA SerialNext ==
  TypeOK /\ Overlap = FALSE /\ SerialInv /\ [Next]_vars => SerialInv'
  <1> SUFFICES ASSUME TypeOK, Overlap = FALSE, SerialInv, [Next]_vars
               PROVE  SerialInv'
    OBVIOUS
  <1>1. Exclusive'
    BY ExclusiveNext DEF SerialInv
  <1>2. QED
    BY <1>1, SerialLauncher, SerialOperator, SerialOthers DEF Next

LEMMA SerialHolds == ASSUME Overlap = FALSE PROVE Spec => [](TypeOK /\ SerialInv)
  <1>1. Init => SerialInv
    BY SerialInit
  <1>2. TypeOK /\ SerialInv /\ [Next]_vars => SerialInv'
    BY SerialNext
  <1>3. QED
    BY <1>1, <1>2, TypeCorrect, PTL DEF Spec

LEMMA SerialImplies ==
  TypeOK /\ SerialInv => ScriptOnce /\ DoneIsFinished /\ NotEarly
  <1> SUFFICES ASSUME TypeOK, SerialInv
               PROVE  ScriptOnce /\ DoneIsFinished /\ NotEarly
    OBVIOUS
  <1>1. ScriptOnce /\ DoneIsFinished
    BY DEF SerialInv, Sound, ScriptOnce, DoneIsFinished
  <1>2. ASSUME NEW l \in Launcher, launcher[l].pc \in {"mark", "flag", "run", "result"}
        PROVE  ~TooEarly(l)
    <2>1. /\ Own(launcher[l], coh[RowOf(l)], work[RowOf(l)], clock)
          /\ coh[RowOf(l)].start \in Nat /\ clock \in Nat
      BY <1>2 DEF SerialInv, Live, TypeOK, RowType, RowOf
    <2>2. QED
      BY <1>2, <2>1 DEF Own, Executing, TooEarly
  <1>3. QED
    BY <1>1, <1>2 DEF NotEarly

\* Without overlap the script of a row succeeds once at most in a period,
\* for every command, with every button and with crashes.
THEOREM SerialScriptOnce ==
  ASSUME Overlap = FALSE PROVE Spec => []ScriptOnce
  BY SerialHolds, SerialImplies, PTL

\* Without overlap a row that is shown as done has every phase DONE or
\* IGNORED: no play or stop reaches a row between the test and the UPDATE.
THEOREM SerialDone ==
  ASSUME Overlap = FALSE PROVE Spec => []DoneIsFinished
  BY SerialHolds, SerialImplies, PTL

\* Without overlap no phase is worked on before start_date, the start_date
\* repeat_resched gives a row included.
THEOREM SerialNotEarly ==
  ASSUME Overlap = FALSE PROVE Spec => []NotEarly
  BY SerialHolds, SerialImplies, PTL

-----------------------------------------------------------------------------
(* The connection attempts.                                                *)

\* The launchers of row r that have, or may have died before they had, an
\* attempt to take away.
Owed(r) == {l \in Launcher : launcher[l].pc \in {"dec", "dead"} /\ RowOf(l) = r}

\* Where $remains_connection_attempt is the column as it is now.
Counted == {"connect", "reach", "unreach", "dec"}

\* The inductive invariant.
BudgetInv ==
    /\ ConnectionBudget
    /\ \A l \in Launcher :
          launcher[l].pc \in Counted => launcher[l].att = coh[RowOf(l)].attempts

LEMMA OwedFinite ==
  ASSUME IsFiniteSet(Launcher), NEW r
  PROVE  /\ IsFiniteSet(Owed(r)) /\ Cardinality(Owed(r)) \in Nat
         /\ \A l \in Owed(r) : Cardinality(Owed(r)) >= 1
  <1>1. IsFiniteSet(Owed(r))
    BY FS_Subset DEF Owed
  <1>2. Cardinality(Owed(r)) \in Nat
    BY <1>1, FS_CardinalityType
  <1>3. ASSUME NEW l \in Owed(r) PROVE Cardinality(Owed(r)) >= 1
    <2>1. Cardinality(Owed(r)) # 0
      BY <1>1, FS_EmptySet
    <2>2. QED
      BY <1>2, <2>1
  <1>4. QED
    BY <1>1, <1>2, <1>3

\* One launcher of row r moves: it joins those that owe, leaves them, or
\* neither.
LEMMA OwedChanges ==
  ASSUME TypeOK, IsFiniteSet(Launcher), NEW l \in Launcher, NEW r,
         \A m \in Launcher : m # l => launcher'[m] = launcher[m]
  PROVE  Cardinality(Owed(r)') =
           Cardinality(Owed(r)) + (IF l \in Owed(r)' THEN 1 ELSE 0)
                                - (IF l \in Owed(r) THEN 1 ELSE 0)
  <1>1. \A m \in Launcher : m # l => (m \in Owed(r)' <=> m \in Owed(r))
    BY DEF Owed, RowOf
  <1>2. Owed(r) \subseteq Launcher /\ Owed(r)' \subseteq Launcher
    BY DEF Owed
  <1>3. IsFiniteSet(Owed(r)) /\ Cardinality(Owed(r)) \in Nat
    BY OwedFinite
  <1>4. CASE l \in Owed(r)' <=> l \in Owed(r)
    <2>1. Owed(r)' = Owed(r)
      BY <1>1, <1>2, <1>4
    <2>2. QED
      BY <1>3, <2>1
  <1>5. CASE l \in Owed(r)' /\ l \notin Owed(r)
    <2>1. Owed(r)' = Owed(r) \cup {l}
      BY <1>1, <1>2, <1>5
    <2>2. Cardinality(Owed(r) \cup {l}) = Cardinality(Owed(r)) + 1
      BY <1>3, <1>5, FS_AddElement
    <2>3. QED
      BY <1>3, <1>5, <2>1, <2>2
  <1>6. CASE l \notin Owed(r)' /\ l \in Owed(r)
    <2>1. Owed(r)' = Owed(r) \ {l}
      BY <1>1, <1>2, <1>6
    <2>2. Cardinality(Owed(r) \ {l}) = Cardinality(Owed(r)) - 1
      BY <1>3, <1>6, FS_RemoveElement
    <2>3. QED
      BY <1>3, <1>6, <2>1, <2>2
  <1>7. QED
    BY <1>4, <1>5, <1>6

\* What a step of launcher l has to keep.
InBudget(l) ==
    /\ \A r \in Row : r = RowOf(l) =>
          work'[r].tries + coh'[r].attempts
             <= Command[r].attempts + Cardinality(Owed(r)')
    /\ launcher'[l].pc \in Counted =>
          launcher'[l].att = coh'[RowOf(l)].attempts

LEMMA BudgetStep ==
  ASSUME TypeOK, IsFiniteSet(Launcher), Exclusive, BudgetInv,
         NEW l \in Launcher, Local(l), InBudget(l)
  PROVE  BudgetInv'
  <1>1. ASSUME NEW r \in Row
        PROVE  work'[r].tries + coh'[r].attempts
                 <= Command[r].attempts + Cardinality(Owed(r)')
    <2>1. CASE r = RowOf(l)
      BY <2>1 DEF InBudget
    <2>2. CASE r # RowOf(l)
      <3>1. l \notin Owed(r) /\ l \notin Owed(r)'
        BY <2>2 DEF Owed, Local, RowOf
      <3>2. Cardinality(Owed(r)') = Cardinality(Owed(r))
        BY <3>1, OwedChanges, OwedFinite DEF Local
      <3>3. work[r].tries + coh[r].attempts <= Command[r].attempts + Cardinality(Owed(r))
        BY DEF BudgetInv, ConnectionBudget, Owed
      <3>4. QED
        BY <2>2, <3>2, <3>3 DEF Local
    <2>3. QED
      BY <2>1, <2>2
  <1>2. ASSUME NEW m \in Launcher, launcher'[m].pc \in Counted
        PROVE  launcher'[m].att = coh'[RowOf(m)'].attempts
    <2>1. CASE m = l
      BY <1>2, <2>1 DEF InBudget, Local, RowOf, Counted
    <2>2. CASE m # l
      <3>1. launcher'[m] = launcher[m] /\ RowOf(m)' = RowOf(m) /\ Live(m)
        BY <1>2, <2>2 DEF Local, RowOf, Live, Counted
      <3>2. RowOf(m) # RowOf(l) /\ RowOf(m) \in Row
        BY <2>2, <3>1 DEF Local, Exclusive, Live, RowOf, TypeOK
      <3>3. coh'[RowOf(m)] = coh[RowOf(m)]
        BY <3>2 DEF Local
      <3>4. QED
        BY <1>2, <3>1, <3>3 DEF BudgetInv
    <2>3. QED
      BY <2>1, <2>2
  <1>3. QED
    BY <1>1, <1>2 DEF BudgetInv, ConnectionBudget, Owed

\* The attempts and the failed connections of the row stay as they are.
Uncounted(l) == /\ work'[RowOf(l)].tries = work[RowOf(l)].tries
                /\ coh'[RowOf(l)].attempts = coh[RowOf(l)].attempts

\* A step that counts nothing.
LEMMA BudgetKept ==
  ASSUME TypeOK, IsFiniteSet(Launcher), BudgetInv, NEW l \in Launcher, Local(l),
         Uncounted(l), launcher[l].pc = "dec" => launcher'[l].pc = "dead",
         launcher'[l].pc \in Counted =>
            launcher[l].pc \in Counted /\ launcher'[l].att = launcher[l].att
  PROVE  InBudget(l)
  <1>1. ASSUME NEW r \in Row, r = RowOf(l)
        PROVE  work'[r].tries + coh'[r].attempts
                 <= Command[r].attempts + Cardinality(Owed(r)')
    <2>1. l \in Owed(r) => l \in Owed(r)'
      BY <1>1 DEF Owed, Local, RowOf, Live
    <2>2. /\ Cardinality(Owed(r)) \in Nat
          /\ Cardinality(Owed(r)') = Cardinality(Owed(r))
                + (IF l \in Owed(r)' THEN 1 ELSE 0) - (IF l \in Owed(r) THEN 1 ELSE 0)
      BY OwedChanges, OwedFinite DEF Local
    <2>3. /\ work[r].tries + coh[r].attempts <= Command[r].attempts + Cardinality(Owed(r))
          /\ work[r].tries \in Nat /\ coh[r].attempts \in Nat /\ Command[r].attempts \in Nat
      BY CommandAssumption DEF BudgetInv, ConnectionBudget, Owed, TypeOK, WorkType,
          RowType, CommandType
    <2>4. QED
      BY <1>1, <2>1, <2>2, <2>3 DEF Uncounted
  <1>2. launcher'[l].pc \in Counted => launcher'[l].att = coh'[RowOf(l)].attempts
    BY DEF BudgetInv, Uncounted
  <1>3. QED
    BY <1>1, <1>2 DEF InBudget

LEMMA BudgetConnect ==
  ASSUME TypeOK, IsFiniteSet(Launcher), BudgetInv, NEW l \in Launcher, Local(l),
         \/ Start(l) \/ ConnFail(l) \/ Free1(l) \/ Free2(l)
         \/ ConnectNot(l) \/ ConnectHalted(l) \/ ConnectLegacy(l) \/ ConnectTry(l)
         \/ Reach(l) \/ NoMac(l) \/ Retry(l) \/ Check(l) \/ Crash(l)
  PROVE  InBudget(l)
  <1> DEFINE pc  == launcher[l].pc
             pc1 == launcher'[l].pc
  <1>0. RowOf(l) \in Row
    BY DEF Local
  <1>1. CASE Start(l)
    <2>1. pc = "start" /\ pc1 \in {"idle", "claim"} /\ Uncounted(l)
      BY <1>1, GotoSets, EndLocal DEF Start, At, Uncounted
    <2>2. QED
      BY <2>1, BudgetKept DEF Counted
  <1>2. CASE ConnFail(l) \/ Free1(l) \/ Free2(l)
    <2>1. SetPid(l, NoPid) /\ work' = work
      BY <1>2 DEF ConnFail, Free1, Free2
    <2>2. Uncounted(l)
      BY <1>0, <2>1, PidSet DEF Uncounted
    <2>3. pc \in {"connfail", "free1", "free2"} /\ pc1 \in {"free2", "idle"}
      BY <1>2, LeaveSets, EndLocal DEF ConnFail, Free1, Free2, At
    <2>4. QED
      BY <2>2, <2>3, BudgetKept DEF Counted
  <1>3. CASE ConnectNot(l)
    <2>1. pc = "connect" /\ pc1 \in {"connfail", "nomac"} /\ Uncounted(l)
      BY <1>3, LeaveSets DEF ConnectNot, At, Uncounted
    <2>2. QED
      BY <2>1, BudgetKept DEF Counted
  <1>4. CASE ConnectHalted(l) \/ ConnectTry(l)
    <2>1. /\ pc = "connect" /\ pc1 \in {"check", "reach", "unreach"} /\ Uncounted(l)
          /\ launcher'[l].att = launcher[l].att
      BY <1>4, GotoSets DEF ConnectHalted, ConnectTry, Connecting, At, Uncounted
    <2>2. QED
      BY <2>1, BudgetKept DEF Counted
  <1>5. CASE ConnectLegacy(l)
    <2>1. pc = "connect" /\ pc1 = "check" /\ Uncounted(l)
      BY <1>0, <1>5, GotoSets, NextSet DEF ConnectLegacy, Connecting, At, Uncounted
    <2>2. QED
      BY <2>1, BudgetKept DEF Counted
  <1>6. CASE Reach(l)
    <2>1. pc = "reach" /\ pc1 = "check" /\ Uncounted(l)
      BY <1>0, <1>6, ReachSets, StateSet DEF Reach, At, Uncounted
    <2>2. QED
      BY <2>1, BudgetKept DEF Counted
  <1>7. CASE NoMac(l)
    <2>1. pc = "nomac" /\ pc1 = "connfail" /\ Uncounted(l)
      BY <1>0, <1>7, GotoSets, StateSet DEF NoMac, At, Uncounted
    <2>2. QED
      BY <2>1, BudgetKept DEF Counted
  <1>8. CASE Retry(l)
    <2>1. pc = "retry" /\ pc1 \in {"connfail", "resched"} /\ Uncounted(l)
      BY <1>0, <1>8, GotoSets, LeaveSets, NextSet DEF Retry, At, Uncounted
    <2>2. QED
      BY <2>1, BudgetKept DEF Counted
  <1>9. CASE Check(l)
    <2>1. pc = "check" /\ pc1 \in {"free1", "decide"} /\ Uncounted(l)
      BY <1>9, GotoSets, LeaveSets DEF Check, At, Uncounted
    <2>2. QED
      BY <2>1, BudgetKept DEF Counted
  <1>10. CASE Crash(l)
    <2>1. pc1 = "dead" /\ Uncounted(l)
      BY <1>10, LeaveSets DEF Crash, Uncounted
    <2>2. QED
      BY <2>1, BudgetKept DEF Counted
  <1>11. QED
    BY <1>1, <1>2, <1>3, <1>4, <1>5, <1>6, <1>7, <1>8, <1>9, <1>10

LEMMA BudgetExecute ==
  ASSUME TypeOK, IsFiniteSet(Launcher), BudgetInv, NEW l \in Launcher, Local(l),
         \/ Decide(l) \/ Mark(l) \/ MarkFlag(l) \/ Run(l) \/ Result(l) \/ ResultFlag(l)
         \/ Skip(l) \/ SkipFlag(l) \/ Final(l) \/ SetDone(l) \/ Resched(l)
  PROVE  InBudget(l)
  <1> DEFINE pc  == launcher[l].pc
             pc1 == launcher'[l].pc
  <1>0. RowOf(l) \in Row
    BY DEF Local
  <1>1. CASE Mark(l) \/ Result(l) \/ Skip(l) \/ SetDone(l)
    <2>1. (\E s : SetState(l, s)) /\ work' = work /\ pc # "dec"
      BY <1>1 DEF Mark, Result, Skip, SetDone, At
    <2>2. Uncounted(l)
      BY <1>0, <2>1, StateSet DEF Uncounted
    <2>3. pc1 \in {"flag", "setflag", "skipflag", "resched"}
      BY <1>1, GotoSets DEF Mark, Result, Skip, SetDone
    <2>4. QED
      BY <2>1, <2>2, <2>3, BudgetKept DEF Counted
  <1>2. CASE MarkFlag(l) \/ ResultFlag(l) \/ SkipFlag(l)
    <2>1. (\E f : SetStep(l, f)) /\ work' = work /\ pc # "dec"
      BY <1>2 DEF MarkFlag, ResultFlag, SkipFlag, At
    <2>2. Uncounted(l)
      BY <1>0, <2>1, StepSet DEF Uncounted
    <2>3. pc1 \in {"run", "decide", "final", "free1"}
      BY <1>2, GotoSets, PhaseSets, LeaveSets DEF MarkFlag, ResultFlag, SkipFlag
    <2>4. QED
      BY <2>1, <2>2, <2>3, BudgetKept DEF Counted
  <1>3. CASE Decide(l) \/ Final(l)
    <2>1. pc # "dec" /\ Uncounted(l)
      BY <1>3 DEF Decide, Final, At, Uncounted
    <2>2. pc1 \in {"mark", "skip", "decide", "final", "setdone", "resched"}
      BY <1>3, GotoSets, PhaseSets DEF Decide, Final
    <2>3. QED
      BY <2>1, <2>2, BudgetKept DEF Counted
  <1>4. CASE Run(l)
    <2>1. pc = "run" /\ coh' = coh
      BY <1>4 DEF Run, At
    <2>2. launcher[l].phase \in Phase
      BY DEF TypeOK, LauncherType
    <2>3. work'[RowOf(l)].tries = work[RowOf(l)].tries
      <3>1. \/ work' = work
            \/ work' = [work EXCEPT ![RowOf(l)] = Achieved(@, launcher[l].phase)]
        BY <1>4 DEF Run
      <3>2. work \in [Row -> WorkType]
        BY DEF TypeOK
      <3>3. Achieved(work[RowOf(l)], launcher[l].phase).tries = work[RowOf(l)].tries
        BY <1>0, <2>2, <3>2 DEF Achieved, WorkType, Phase
      <3>4. QED
        BY <1>0, <3>1, <3>2, <3>3
    <2>4. pc1 = "result"
      <3>1. PICK ok \in BOOLEAN :
               Become(l, [launcher[l] EXCEPT !.pc = "result", !.ok = ok])
        BY <1>4 DEF Run
      <3>2. QED
        BY <3>1, ResultSets
    <2>5. QED
      BY <2>1, <2>3, <2>4, BudgetKept DEF Counted, Uncounted
  <1>5. CASE Resched(l)
    <2>1. pc # "dec" /\ Uncounted(l)
      BY <1>0, <1>5, NextSet DEF Resched, At, Uncounted
    <2>2. pc1 \in {"connfail", "free1", "update"}
      <3>1. CASE Leave(l, AfterResched(l))
        BY <3>1, LeaveSets DEF AfterResched
      <3>2. CASE ~Leave(l, AfterResched(l))
        BY <1>5, <3>2, UpdateSets DEF Resched
      <3>3. QED
        BY <3>1, <3>2
    <2>3. QED
      BY <2>1, <2>2, BudgetKept DEF Counted
  <1>6. QED
    BY <1>1, <1>2, <1>3, <1>4, <1>5

\* The steps that count: the constructor reads the attempts, a connection
\* fails, the attempt is taken away, a new period begins.
LEMMA BudgetCounts ==
  ASSUME TypeOK, IsFiniteSet(Launcher), BudgetInv, NEW l \in Launcher, Local(l),
         Claim(l) \/ Unreach(l) \/ Dec(l) \/ Update(l)
  PROVE  InBudget(l)
  <1> DEFINE r == RowOf(l)
  <1>1. /\ r \in Row /\ Cardinality(Owed(r)) \in Nat
        /\ work[r].tries \in Nat /\ coh[r].attempts \in Nat /\ Command[r].attempts \in Nat
        /\ work[r].tries + coh[r].attempts <= Command[r].attempts + Cardinality(Owed(r))
    BY OwedFinite, CommandAssumption DEF Local, BudgetInv, ConnectionBudget, Owed,
        TypeOK, WorkType, RowType, CommandType
  <1>2. ASSUME NEW q \in Row, q = RowOf(l)
        PROVE  /\ Cardinality(Owed(q)') \in Nat
               /\ Cardinality(Owed(q)') = Cardinality(Owed(r))
                     + (IF launcher'[l].pc \in {"dec", "dead"} THEN 1 ELSE 0)
                     - (IF launcher[l].pc = "dec" THEN 1 ELSE 0)
    <2>1. l \in Owed(q) <=> launcher[l].pc = "dec"
      BY <1>2 DEF Owed, Local, Live
    <2>2. l \in Owed(q)' <=> launcher'[l].pc \in {"dec", "dead"}
      BY <1>2 DEF Owed, Local, RowOf
    <2>3. Cardinality(Owed(q)') = Cardinality(Owed(q))
             + (IF l \in Owed(q)' THEN 1 ELSE 0) - (IF l \in Owed(q) THEN 1 ELSE 0)
      BY OwedChanges DEF Local
    <2>4. l \in Owed(q) => Cardinality(Owed(q)) >= 1
      BY OwedFinite
    <2>5. QED
      BY <1>1, <1>2, <2>1, <2>2, <2>3, <2>4
  <1>3. CASE Claim(l)
    <2>1. launcher[l].pc = "claim" /\ work' = work
      BY <1>3 DEF Claim, At
    <2>2. CASE /\ SetPid(l, l) /\ launcher'[l].pc = "connect"
               /\ launcher'[l].att = coh[r].attempts
      BY <1>1, <1>2, <2>1, <2>2, PidSet DEF InBudget
    <2>3. CASE Leave(l, "free2") /\ coh' = coh
      BY <2>1, <2>3, LeaveSets, BudgetKept DEF Uncounted, Counted
    <2>4. QED
      BY <1>3, <2>2, <2>3, ClaimSets
  <1>4. CASE Unreach(l)
    <2>1. launcher[l].pc = "unreach" /\ launcher'[l].pc = "dec"
          /\ launcher'[l].att = launcher[l].att
      BY <1>4, GotoSets DEF Unreach, At
    <2>2. coh'[r].attempts = coh[r].attempts
      BY <1>1, <1>4, StateSet DEF Unreach
    <2>3. work'[r].tries = work[r].tries + 1
      BY <1>1, <1>4 DEF Unreach, TypeOK, WorkType
    <2>4. launcher[l].att = coh[r].attempts
      BY <2>1 DEF BudgetInv, Counted
    <2>5. QED
      BY <1>1, <1>2, <2>1, <2>2, <2>3, <2>4 DEF InBudget
  <1>5. CASE Dec(l)
    <2>1. launcher[l].pc = "dec" /\ launcher'[l].pc = "retry" /\ work' = work
      BY <1>5, DecSets DEF Dec, At
    <2>2. coh'[r].attempts = launcher[l].att - 1
      BY <1>1, <1>5, AttemptsSet DEF Dec
    <2>3. launcher[l].att = coh[r].attempts
      BY <2>1 DEF BudgetInv, Counted
    <2>4. QED
      BY <1>1, <1>2, <2>1, <2>2, <2>3 DEF InBudget, Counted
  <1>6. CASE Update(l)
    <2>1. /\ coh'[r].attempts = Command[r].attempts /\ work'[r] = NoWork
          /\ launcher'[l].pc \in {"connfail", "free1"}
      BY <1>1, <1>6, PeriodSets DEF Cmd
    <2>2. QED
      BY <1>1, <1>2, <2>1 DEF InBudget, NoWork, Counted
  <1>7. QED
    BY <1>3, <1>4, <1>5, <1>6

LEMMA BudgetOthers ==
  ASSUME TypeOK, IsFiniteSet(Launcher), BudgetInv, "play" \notin Ops,
         \/ \E p \in Pass : start_all_commands(p) \/ Spawn(p)
         \/ Operator \/ Tick \/ UNCHANGED vars
  PROVE  BudgetInv'
  <1>1. ASSUME \A r \in Row : /\ coh'[r].attempts = coh[r].attempts
                              /\ work'[r].tries = work[r].tries
                              /\ Cardinality(Owed(r)') \in Nat
                              /\ Cardinality(Owed(r)') >= Cardinality(Owed(r)),
               \A l \in Launcher : launcher'[l].pc \in Counted =>
                  /\ launcher[l].pc \in Counted
                  /\ launcher'[l].att = launcher[l].att
                  /\ launcher'[l].row = launcher[l].row
        PROVE  BudgetInv'
    <2>1. ASSUME NEW r \in Row
          PROVE  work'[r].tries + coh'[r].attempts
                   <= Command[r].attempts + Cardinality(Owed(r)')
      <3>1. /\ work[r].tries \in Nat /\ coh[r].attempts \in Nat
            /\ Command[r].attempts \in Nat /\ Cardinality(Owed(r)) \in Nat
            /\ work[r].tries + coh[r].attempts
                  <= Command[r].attempts + Cardinality(Owed(r))
        BY OwedFinite, CommandAssumption DEF BudgetInv, ConnectionBudget, Owed,
            TypeOK, WorkType, RowType, CommandType
      <3>2. QED
        BY <1>1, <3>1
    <2>2. ASSUME NEW l \in Launcher, launcher'[l].pc \in Counted
          PROVE  launcher'[l].att = coh'[RowOf(l)'].attempts
      <3>1. RowOf(l) \in Row /\ RowOf(l)' = RowOf(l)
        BY <1>1, <2>2 DEF TypeOK, RowOf, Counted
      <3>2. QED
        BY <1>1, <2>2, <3>1 DEF BudgetInv
    <2>3. QED
      BY <2>1, <2>2 DEF BudgetInv, ConnectionBudget, Owed
  <1>2. CASE (\E p \in Pass : start_all_commands(p)) \/ Tick \/ UNCHANGED vars
    <2>1. coh' = coh /\ launcher' = launcher /\ work' = work
      BY <1>2 DEF start_all_commands, Tick, vars
    <2>2. \A r \in Row : Owed(r)' = Owed(r)
      BY <2>1 DEF Owed, RowOf
    <2>3. QED
      BY <1>1, <2>1, <2>2, OwedFinite
  <1>3. ASSUME NEW p \in Pass, Spawn(p) PROVE BudgetInv'
    <2>1. PICK l \in Launcher : /\ launcher[l].pc = "idle" /\ launcher'[l].pc = "start"
                               /\ \A m \in Launcher : m # l => launcher'[m] = launcher[m]
      <3>1. PICK r \in pass[p], l \in Launcher :
               /\ launcher[l].pc = "idle"
               /\ Become(l, [Idle EXCEPT !.pc = "start", !.row = r])
        BY <1>3 DEF Spawn
      <3>2. launcher'[l].pc = "start" /\ \A m \in Launcher : m # l => launcher'[m] = launcher[m]
        BY <3>1 DEF Become, Idle, TypeOK
      <3>3. QED
        BY <3>1, <3>2
    <2>2. coh' = coh /\ work' = work
      BY <1>3 DEF Spawn
    <2>3. \A r \in Row : Owed(r)' = Owed(r)
      BY <2>1 DEF Owed, RowOf
    <2>4. QED
      BY <1>1, <2>1, <2>2, <2>3, OwedFinite DEF Counted
  <1>4. CASE Operator
    <2>1. /\ \A r \in Row : Turned(r)
          /\ \A l \in Launcher : Hit(l)
          /\ work' = work
      BY <1>4, OperatorLocal
    <2>2. \A r \in Row : coh'[r].attempts = coh[r].attempts
      BY <2>1, ZenonT(30) DEF Turned, PauseRow, PlayRow, StopRow, TypeOK, RowType
    <2>3. \A l \in Launcher : launcher'[l] # launcher[l] =>
             l = operator.pid /\ launcher'[l].pc \in {"dead", "result"}
                             /\ (launcher[l].pc = "dec" => launcher'[l].pc = "dead")
                             /\ launcher'[l].row = launcher[l].row
                             /\ Live(l)
      <3> SUFFICES ASSUME NEW l \in Launcher, launcher'[l] # launcher[l]
                   PROVE  /\ l = operator.pid /\ launcher'[l].pc \in {"dead", "result"}
                          /\ (launcher[l].pc = "dec" => launcher'[l].pc = "dead")
                          /\ launcher'[l].row = launcher[l].row
                          /\ Live(l)
        OBVIOUS
      <3>1. Hit(l)
        BY <2>1
      <3>2. l = operator.pid /\ Live(l)
        BY <3>1 DEF Hit
      <3>3. CASE launcher'[l] = [Idle EXCEPT !.pc = "dead", !.row = RowOf(l)]
        BY <3>2, <3>3 DEF Idle, RowOf
      <3>4. CASE /\ At(l, "run")
                 /\ launcher'[l] = [launcher[l] EXCEPT !.pc = "result", !.ok = FALSE]
        BY <3>2, <3>4 DEF TypeOK, LauncherType, At
      <3>5. QED
        BY <3>1, <3>3, <3>4 DEF Hit
    <2>4. ASSUME NEW r \in Row
          PROVE  /\ Cardinality(Owed(r)') \in Nat
                 /\ Cardinality(Owed(r)') >= Cardinality(Owed(r))
      <3>1. CASE \A l \in Launcher : launcher'[l] = launcher[l]
        <4>1. Owed(r)' = Owed(r)
          BY <3>1 DEF Owed, RowOf
        <4>2. QED
          BY <4>1, OwedFinite
      <3>2. CASE \E l \in Launcher : launcher'[l] # launcher[l]
        <4>1. PICK l \in Launcher : launcher'[l] # launcher[l]
          BY <3>2
        <4>2. \A m \in Launcher : m # l => launcher'[m] = launcher[m]
          BY <2>3, <4>1
        <4>3. l \in Owed(r) => l \in Owed(r)'
          BY <2>3, <4>1 DEF Owed, RowOf, Live
        <4>4. Cardinality(Owed(r)') = Cardinality(Owed(r))
                + (IF l \in Owed(r)' THEN 1 ELSE 0) - (IF l \in Owed(r) THEN 1 ELSE 0)
          BY <4>2, OwedChanges
        <4>5. Cardinality(Owed(r)) \in Nat
          BY OwedFinite
        <4>6. QED
          BY <4>3, <4>4, <4>5
      <3>3. QED
        BY <3>1, <3>2
    <2>5. \A l \in Launcher : launcher'[l].pc \in Counted => launcher'[l] = launcher[l]
      BY <2>3 DEF Counted
    <2>6. QED
      BY <1>1, <2>1, <2>2, <2>4, <2>5
  <1>5. QED
    BY <1>2, <1>3, <1>4

LEMMA BudgetInit == Init => BudgetInv
  <1> SUFFICES ASSUME Init PROVE BudgetInv
    OBVIOUS
  <1>1. \A r \in Row : {l \in Launcher : /\ launcher[l].pc \in {"dec", "dead"}
                                         /\ RowOf(l) = r} = {}
    BY DEF Init, Idle
  <1>2. \A r \in Row : /\ work[r].tries = 0 /\ coh[r].attempts = Command[r].attempts
                       /\ Command[r].attempts \in Nat
    BY CommandAssumption DEF Init, NewRow, NoWork, CommandType
  <1>3. \A l \in Launcher : launcher[l].pc \notin Counted
    BY DEF Init, Idle, Counted
  <1>4. Cardinality({}) = 0
    BY FS_EmptySet
  <1>5. ConnectionBudget
    <2> SUFFICES ASSUME NEW r \in Row
                 PROVE  work[r].tries + coh[r].attempts <= Command[r].attempts
                          + Cardinality({l \in Launcher :
                                           /\ launcher[l].pc \in {"dec", "dead"}
                                           /\ RowOf(l) = r})
      BY DEF ConnectionBudget
    <2>1. Cardinality({l \in Launcher : /\ launcher[l].pc \in {"dec", "dead"}
                                        /\ RowOf(l) = r}) = 0
      BY <1>1, <1>4
    <2>2. QED
      BY <1>2, <2>1
  <1>6. QED
    BY <1>3, <1>5 DEF BudgetInv

\* Without overlap a host is tried max_connection_attempt times in a period
\* and no more, but for attempts whose launcher died before it counted them:
\* for every command, with crashes and every button but play, which gives a
\* row without attempts a new one.  The processes are finitely many.
THEOREM SerialBudget ==
  ASSUME Overlap = FALSE, IsFiniteSet(Launcher), "play" \notin Ops
  PROVE  Spec => []ConnectionBudget
  <1>1. TypeOK /\ SerialInv /\ BudgetInv /\ [Next]_vars => BudgetInv'
    <2> SUFFICES ASSUME TypeOK, SerialInv, BudgetInv, [Next]_vars PROVE BudgetInv'
      OBVIOUS
    <2>1. ASSUME NEW l \in Launcher, LauncherStep(l) \/ Crash(l) PROVE BudgetInv'
      <3>1. Local(l)
        BY <2>1, StepLocal
      <3>2. InBudget(l)
        BY <2>1, <3>1, BudgetConnect, BudgetExecute, BudgetCounts DEF LauncherStep
      <3>3. QED
        BY <3>1, <3>2, BudgetStep DEF SerialInv
    <2>2. QED
      BY <2>1, BudgetOthers DEF Next
  <1>2. BudgetInv => ConnectionBudget
    BY DEF BudgetInv
  <1>3. QED
    BY <1>1, <1>2, BudgetInit, SerialHolds, PTL DEF Spec

-----------------------------------------------------------------------------
(* LscLauncher implements LscPipeline: without overlap, and when nobody    *)
(* presses play, the columns uploaded, executed and deleted of every row   *)
(* go through the phases of a pipeline.                                    *)

\* play takes a failed phase back: the pipeline is about the other buttons.
NoPlay == Ops \cap {"play", "command_play"} = {}

-----------------------------------------------------------------------------
(* The lanes: a launcher at a phase has the row to itself from the SELECT  *)
(* that showed the phase to do until the UPDATE with its result.           *)

Cleared(row, ph) == \A q \in Pipeline!Before[ph] : row.step[q] \in Finished

\* A phase is touched when the ones before it are over; what was not
\* uploaded is not deleted.
InOrder(row) ==
    /\ \A ph \in Phase : row.step[ph] # "TODO" => Cleared(row, ph)
    /\ row.step["upload"] = "IGNORED" => row.step["delete"] \in {"TODO", "IGNORED"}

Lane(rec, row) ==
    /\ rec.pc \in {"mark", "flag"} =>
          /\ row.step[rec.phase] = "TODO" /\ Cleared(row, rec.phase)
          /\ rec.phase = "delete" => row.step["upload"] = "DONE"
    /\ rec.pc \in {"run", "result", "setflag"} =>
          row.step[rec.phase] = "WORK_IN_PROGRESS"
    /\ rec.pc \in {"skip", "skipflag"} =>
          /\ Cleared(row, rec.phase)
          /\ \/ row.step[rec.phase] = "TODO"
             \/ rec.phase = "delete" /\ row.step["upload"] = "IGNORED"
    /\ rec.pc = "update" => Command[rec.row].repeat # 0

\* The inductive invariant.
LaneInv ==
    /\ \A r \in Row : InOrder(coh[r])
    /\ \A l \in Launcher : Live(l) => Lane(launcher[l], coh[RowOf(l)])
    /\ operator.act # "play"

InLane(l) ==
    /\ InOrder(coh'[RowOf(l)])
    /\ launcher'[l].pc \notin {"idle", "dead"} => Lane(launcher'[l], coh'[RowOf(l)])

LEMMA LaneStep ==
  ASSUME TypeOK, Exclusive, LaneInv, NEW l \in Launcher, Local(l), InLane(l)
  PROVE  LaneInv'
  <1>1. ASSUME NEW q \in Row PROVE InOrder(coh'[q])
    BY DEF LaneInv, Local, InLane
  <1>2. ASSUME NEW m \in Launcher, Live(m)'
        PROVE  Lane(launcher'[m], coh'[RowOf(m)'])
    <2>1. CASE m = l
      BY <1>2, <2>1 DEF Local, InLane, Live, RowOf
    <2>2. CASE m # l
      <3>1. launcher'[m] = launcher[m] /\ Live(m) /\ RowOf(m)' = RowOf(m)
        BY <1>2, <2>2 DEF Local, Live, RowOf
      <3>2. RowOf(m) # RowOf(l) /\ RowOf(m) \in Row
        BY <2>2, <3>1 DEF Local, Exclusive, Live, RowOf, TypeOK
      <3>3. coh'[RowOf(m)] = coh[RowOf(m)]
        BY <3>2 DEF Local
      <3>4. QED
        BY <3>1, <3>3 DEF LaneInv
    <2>3. QED
      BY <2>1, <2>2
  <1>3. QED
    BY <1>1, <1>2 DEF LaneInv, Local

\* A row whose columns stay as they are.
LEMMA StepsAlone ==
  ASSUME NEW row, NEW row1, row1.step = row.step
  PROVE  /\ InOrder(row) => InOrder(row1)
         /\ \A rec : Lane(rec, row) => Lane(rec, row1)
  BY DEF InOrder, Lane, Cleared

\* The steps that write no column and are not between two UPDATEs of a phase.
Aside == PC \ {"mark", "flag", "run", "result", "setflag", "skip", "skipflag",
               "update"}

LEMMA LaneAside ==
  ASSUME LaneInv, NEW l \in Launcher, RowOf(l) \in Row,
         coh'[RowOf(l)].step = coh[RowOf(l)].step, launcher'[l].pc \in Aside
  PROVE  InLane(l)
  <1>1. InOrder(coh'[RowOf(l)])
    BY StepsAlone DEF LaneInv
  <1>2. Lane(launcher'[l], coh'[RowOf(l)])
    BY DEF Lane, Aside
  <1>3. QED
    BY <1>1, <1>2 DEF InLane

\* Which steps write no column.
LEMMA ColumnsKept ==
  ASSUME TypeOK, NEW l \in Launcher, RowOf(l) \in Row,
         \/ Start(l) \/ Claim(l) \/ ConnFail(l) \/ Free1(l) \/ Free2(l)
         \/ ConnectNot(l) \/ ConnectHalted(l) \/ ConnectLegacy(l) \/ ConnectTry(l)
         \/ Reach(l) \/ NoMac(l) \/ Unreach(l) \/ Dec(l) \/ Retry(l)
         \/ Check(l) \/ Decide(l) \/ Mark(l) \/ Run(l) \/ Result(l) \/ Skip(l)
         \/ Final(l) \/ SetDone(l) \/ Resched(l) \/ Crash(l)
  PROVE  coh'[RowOf(l)].step = coh[RowOf(l)].step
  <1>1. CASE \/ Start(l) \/ ConnectNot(l) \/ ConnectHalted(l) \/ ConnectTry(l) \/ Check(l)
             \/ Decide(l) \/ Run(l) \/ Final(l) \/ Crash(l)
    BY <1>1 DEF Start, ConnectNot, ConnectHalted, ConnectTry, Check, Decide, Run, Final, Crash
  <1>2. CASE ConnFail(l) \/ Free1(l) \/ Free2(l)
    <2>1. SetPid(l, NoPid)
      BY <1>2 DEF ConnFail, Free1, Free2
    <2>2. QED
      BY <2>1, PidSet
  <1>3. CASE Claim(l)
    <2>1. SetPid(l, l) \/ coh' = coh
      BY <1>3 DEF Claim
    <2>2. QED
      BY <2>1, PidSet
  <1>4. CASE ConnectLegacy(l) \/ Retry(l) \/ Resched(l)
    <2>1. coh' = coh \/ \E d : coh' = [coh EXCEPT ![RowOf(l)].next = d]
      BY <1>4 DEF ConnectLegacy, Retry, Resched
    <2>2. QED
      BY <2>1, NextSet
  <1>5. CASE Dec(l)
    BY <1>5, AttemptsSet DEF Dec
  <1>6. CASE \/ Reach(l) \/ NoMac(l) \/ Unreach(l) \/ Mark(l) \/ Result(l) \/ Skip(l)
             \/ SetDone(l)
    <2>1. \E s : SetState(l, s)
      BY <1>6 DEF Reach, NoMac, Unreach, Mark, Result, Skip, SetDone
    <2>2. QED
      BY <2>1, StateSet
  <1>7. QED
    BY <1>1, <1>2, <1>3, <1>4, <1>5, <1>6

LEMMA LaneConnect ==
  ASSUME TypeOK, LaneInv, NEW l \in Launcher, RowOf(l) \in Row,
         \/ Start(l) \/ Claim(l) \/ ConnFail(l) \/ Free1(l) \/ Free2(l)
         \/ ConnectNot(l) \/ ConnectHalted(l) \/ ConnectLegacy(l) \/ ConnectTry(l)
         \/ Reach(l) \/ NoMac(l) \/ Unreach(l) \/ Dec(l) \/ Retry(l)
         \/ Check(l) \/ Final(l) \/ SetDone(l) \/ Crash(l)
  PROVE  InLane(l)
  <1>1. launcher'[l].pc \in Aside
    <2>1. CASE Start(l) \/ Free2(l)
      <3>1. Become(l, Idle) \/ Goto(l, "claim")
        BY <2>1 DEF Start, Free2
      <3>2. QED
        BY <3>1, EndLocal, GotoSets DEF Aside, PC
    <2>2. CASE Claim(l)
      BY <2>2, ClaimSets, LeaveSets DEF Aside, PC
    <2>3. CASE Reach(l) \/ Dec(l)
      BY <2>3, ReachSets, DecSets DEF Aside, PC
    <2>4. CASE \/ ConnFail(l) \/ Free1(l) \/ ConnectNot(l) \/ ConnectHalted(l)
               \/ ConnectLegacy(l) \/ ConnectTry(l) \/ NoMac(l) \/ Unreach(l)
               \/ Retry(l) \/ Check(l) \/ Final(l) \/ SetDone(l) \/ Crash(l)
      <3>1. \E p \in Aside : Goto(l, p) \/ Leave(l, p)
        BY <2>4 DEF ConnFail, Free1, ConnectNot, ConnectHalted, ConnectLegacy,
            ConnectTry, NoMac, Unreach, Retry, Check, Final, SetDone, Crash, Aside, PC
      <3>2. QED
        BY <3>1, GotoSets, LeaveSets
    <2>5. QED
      BY <2>1, <2>2, <2>3, <2>4
  <1>2. coh'[RowOf(l)].step = coh[RowOf(l)].step
    BY ColumnsKept
  <1>3. QED
    BY <1>1, <1>2, LaneAside

LEMMA BeforePhase ==
  /\ Pipeline!Before["upload"] = {}
  /\ Pipeline!Before["execution"] = {"upload"}
  /\ Pipeline!Before["delete"] = {"upload", "execution"}
  BY DEF Pipeline!Before

\* What the conditions of execute() say about the row just read.
LEMMA WantedMeans ==
  ASSUME TypeOK, NEW l \in Launcher, Wanted(l)
  PROVE  LET row == coh[RowOf(l)]
             ph  == launcher[l].phase
         IN  /\ Cleared(row, ph)
             /\ row.step[ph] = "TODO" \/ (ph = "delete" /\ row.step["upload"] = "IGNORED")
             /\ Enabled(l) => /\ row.step[ph] = "TODO"
                              /\ ph = "delete" => row.step["upload"] = "DONE"
  <1>1. launcher[l].phase \in {"upload", "execution", "delete"}
    BY DEF TypeOK, LauncherType, Phase
  <1>2. CASE launcher[l].phase = "upload"
    BY <1>2, BeforePhase DEF Wanted, Cleared
  <1>3. CASE launcher[l].phase = "execution"
    BY <1>3, BeforePhase DEF Wanted, Cleared
  <1>4. CASE launcher[l].phase = "delete"
    BY <1>4, BeforePhase DEF Wanted, Enabled, Cleared
  <1>5. QED
    BY <1>1, <1>2, <1>3, <1>4

LEMMA LaneExecute ==
  ASSUME TypeOK, LaneInv, NEW l \in Launcher, RowOf(l) \in Row,
         \/ Decide(l) \/ Mark(l) \/ Run(l) \/ Result(l) \/ Skip(l) \/ Resched(l)
  PROVE  InLane(l)
  <1> DEFINE rec  == launcher[l]
             rec1 == launcher'[l]
             row  == coh[RowOf(l)]
             row1 == coh'[RowOf(l)]
  <1>1. InOrder(row) /\ (Live(l) => Lane(rec, row))
    BY DEF LaneInv
  <1>2. row1.step = row.step
    BY ColumnsKept
  <1>3. InOrder(row1)
    BY <1>1, <1>2, StepsAlone
  <1>4. rec.phase \in Phase /\ row.step \in [Phase -> Flag]
    BY DEF TypeOK, LauncherType, RowType
  <1>5. CASE Decide(l)
    <2>1. \/ Wanted(l) /\ Enabled(l) /\ Goto(l, "mark")
          \/ Wanted(l) /\ Goto(l, "skip")
          \/ AfterPhase(l)
      BY <1>5 DEF Decide
    <2>2. CASE Wanted(l) /\ Enabled(l) /\ Goto(l, "mark")
      <3>1. rec1.pc = "mark" /\ rec1.phase = rec.phase
        BY <2>2, GotoSets
      <3>2. /\ row.step[rec.phase] = "TODO" /\ Cleared(row, rec.phase)
            /\ rec.phase = "delete" => row.step["upload"] = "DONE"
        BY <2>2, WantedMeans
      <3>3. Lane(rec1, row)
        BY <3>1, <3>2 DEF Lane
      <3>4. QED
        BY <1>2, <1>3, <3>3, StepsAlone DEF InLane
    <2>3. CASE Wanted(l) /\ Goto(l, "skip")
      <3>1. rec1.pc = "skip" /\ rec1.phase = rec.phase
        BY <2>3, GotoSets
      <3>2. /\ Cleared(row, rec.phase)
            /\ \/ row.step[rec.phase] = "TODO"
               \/ rec.phase = "delete" /\ row.step["upload"] = "IGNORED"
        BY <2>3, WantedMeans
      <3>3. Lane(rec1, row)
        BY <3>1, <3>2 DEF Lane
      <3>4. QED
        BY <1>2, <1>3, <3>3, StepsAlone DEF InLane
    <2>4. CASE AfterPhase(l)
      <3>1. rec1.pc \in Aside
        BY <2>4, PhaseSets DEF Aside, PC
      <3>2. QED
        BY <1>2, <3>1, LaneAside
    <2>5. QED
      BY <2>1, <2>2, <2>3, <2>4
  <1>6. CASE Mark(l) \/ Result(l) \/ Skip(l)
    <2>1. /\ rec1.phase = rec.phase
          /\ \/ rec.pc = "mark" /\ rec1.pc = "flag"
             \/ rec.pc = "result" /\ rec1.pc = "setflag"
             \/ rec.pc = "skip" /\ rec1.pc = "skipflag"
      BY <1>6, GotoSets DEF Mark, Result, Skip, At
    <2>2. Lane(rec1, row)
      BY <1>1, <2>1 DEF Lane, Live
    <2>3. QED
      BY <1>2, <1>3, <2>2, StepsAlone DEF InLane
  <1>7. CASE Run(l)
    <2>1. PICK ok \in BOOLEAN : Become(l, [rec EXCEPT !.pc = "result", !.ok = ok])
      BY <1>7 DEF Run
    <2>2. rec.pc = "run" /\ rec1.pc = "result" /\ rec1.phase = rec.phase
      BY <1>7, <2>1, ResultSets DEF Run, At
    <2>3. Lane(rec1, row)
      BY <1>1, <2>2 DEF Lane, Live
    <2>4. QED
      BY <1>2, <1>3, <2>3, StepsAlone DEF InLane
  <1>8. CASE Resched(l)
    <2>1. CASE Leave(l, AfterResched(l))
      <3>1. rec1.pc \in Aside
        BY <2>1, LeaveSets DEF AfterResched, Aside, PC
      <3>2. QED
        BY <1>2, <3>1, LaneAside
    <2>2. CASE ~Leave(l, AfterResched(l))
      <3>1. PICK snap : Become(l, [rec EXCEPT !.pc = "update", !.snap = snap])
        BY <1>8, <2>2 DEF Resched
      <3>2. Cmd(l).repeat # 0
        BY <1>8, <2>2 DEF Resched
      <3>3. rec1.pc = "update" /\ rec1.row = RowOf(l)
        BY <3>1, UpdateSets DEF RowOf
      <3>4. Lane(rec1, row1)
        BY <3>2, <3>3 DEF Lane, Cmd
      <3>5. QED
        BY <1>3, <3>4 DEF InLane
    <2>3. QED
      BY <2>1, <2>2
  <1>9. QED
    BY <1>5, <1>6, <1>7, <1>8

\* The steps that write a column keep the order of the phases.
LEMMA LaneWrites ==
  ASSUME TypeOK, LaneInv, NEW l \in Launcher, RowOf(l) \in Row,
         MarkFlag(l) \/ ResultFlag(l) \/ SkipFlag(l) \/ Update(l)
  PROVE  InLane(l)
  <1> DEFINE rec  == launcher[l]
             rec1 == launcher'[l]
             row  == coh[RowOf(l)]
             row1 == coh'[RowOf(l)]
  <1>1. InOrder(row) /\ (Live(l) => Lane(rec, row))
    BY DEF LaneInv
  <1>2. rec.phase \in Phase /\ row.step \in [Phase -> Flag]
    BY DEF TypeOK, LauncherType, RowType
  <1>3. CASE MarkFlag(l)
    <2>1. /\ rec.pc = "flag" /\ rec1.pc = "run" /\ rec1.phase = rec.phase
          /\ row1.step = [row.step EXCEPT ![rec.phase] = "WORK_IN_PROGRESS"]
      BY <1>3, GotoSets, StepSet DEF MarkFlag, At
    <2>2. Lane(rec, row)
      BY <1>1, <2>1 DEF Live
    <2>3. InOrder(row1)
      BY <1>1, <1>2, <2>1, <2>2 DEF InOrder, Lane, Cleared, Phase, Pipeline!Before, Finished
    <2>4. Lane(rec1, row1)
      BY <1>2, <2>1 DEF Lane
    <2>5. QED
      BY <2>3, <2>4 DEF InLane
  <1>4. CASE ResultFlag(l)
    <2>1. /\ rec.pc = "setflag"
          /\ row1.step = [row.step EXCEPT ![rec.phase] = IF rec.ok THEN "DONE" ELSE "FAILED"]
      BY <1>4, StepSet DEF ResultFlag, At
    <2>2. rec1.pc \in Aside
      <3>1. CASE rec.ok
        BY <1>4, <3>1, PhaseSets DEF ResultFlag, Aside, PC
      <3>2. CASE ~rec.ok
        BY <1>4, <3>2, LeaveSets DEF ResultFlag, Aside, PC
      <3>3. QED
        BY <3>1, <3>2
    <2>3. Lane(rec, row)
      BY <1>1, <2>1 DEF Live
    <2>4. InOrder(row1)
      BY <1>1, <1>2, <2>1, <2>3 DEF InOrder, Lane, Cleared, Phase, Pipeline!Before, Finished
    <2>5. Lane(rec1, row1)
      BY <2>2 DEF Lane, Aside
    <2>6. QED
      BY <2>4, <2>5 DEF InLane
  <1>5. CASE SkipFlag(l)
    <2>1. /\ rec.pc = "skipflag"
          /\ row1.step = [row.step EXCEPT ![rec.phase] = "IGNORED"]
      BY <1>5, StepSet DEF SkipFlag, At
    <2>2. rec1.pc \in Aside
      BY <1>5, PhaseSets DEF SkipFlag, Aside, PC
    <2>3. Lane(rec, row)
      BY <1>1, <2>1 DEF Live
    <2>4. InOrder(row1)
      BY <1>1, <1>2, <2>1, <2>3 DEF InOrder, Lane, Cleared, Phase, Pipeline!Before, Finished
    <2>5. Lane(rec1, row1)
      BY <2>2 DEF Lane, Aside
    <2>6. QED
      BY <2>4, <2>5 DEF InLane
  <1>6. CASE Update(l)
    <2>1. row1.step = AllTodo /\ rec1.pc \in Aside
      BY <1>6, PeriodSets DEF Aside, PC
    <2>2. InOrder(row1)
      BY <2>1 DEF InOrder, AllTodo, Phase
    <2>3. Lane(rec1, row1)
      BY <2>1 DEF Lane, Aside
    <2>4. QED
      BY <2>2, <2>3 DEF InLane
  <1>7. QED
    BY <1>3, <1>4, <1>5, <1>6

LEMMA LaneLauncher ==
  ASSUME TypeOK, Exclusive, LaneInv, NEW l \in Launcher, LauncherStep(l) \/ Crash(l)
  PROVE  LaneInv'
  <1>1. Local(l) /\ RowOf(l) \in Row
    BY StepLocal DEF Local
  <1>2. InLane(l)
    BY <1>1, LaneConnect, LaneExecute, LaneWrites DEF LauncherStep
  <1>3. QED
    BY <1>1, <1>2, LaneStep

\* Without play no button writes a column.
LEMMA ButtonsAlone ==
  ASSUME TypeOK, NoPlay, LaneInv, Operator
  PROVE  /\ \A r \in Row : coh'[r].step = coh[r].step
         /\ operator'.act # "play"
  <1>1. "play" \notin Ops /\ "command_play" \notin Ops /\ operator.act # "play"
    BY DEF NoPlay, LaneInv
  <1>2. \A r \in Row : Turned(r)
    BY OperatorLocal
  <1>3. ASSUME NEW r \in Row PROVE coh'[r].step = coh[r].step
    <2>1. coh[r] \in RowType
      BY DEF TypeOK
    <2>2. CASE coh'[r] = coh[r]
      BY <2>2
    <2>3. CASE \E from \in {Pausable, {"scheduled"}} : coh'[r] = PauseRow(coh[r], from)
      BY <2>1, <2>3 DEF PauseRow, RowType
    <2>4. CASE coh'[r] = StopRow(coh[r], NoPid)
      BY <2>1, <2>4 DEF StopRow, RowType
    <2>5. QED
      BY <1>1, <1>2, <2>2, <2>3, <2>4 DEF Turned
  <1>4. operator'.act # "play"
    <2>1. operator \in OperatorType
      BY DEF TypeOK
    <2>2. ASSUME Asked PROVE operator'.act # "play"
      BY <1>1, <2>1, <2>2 DEF Asked, OperatorType
    <2>3. ASSUME NEW r, StopSelect(r) PROVE operator'.act # "play"
      BY <2>1, <2>3 DEF StopSelect, OperatorType
    <2>4. ASSUME StopKill \/ StopUpdate PROVE operator'.act # "play"
      BY <2>1, <2>4 DEF StopKill, StopUpdate, OperatorType
    <2>5. QED
      BY <1>1, <2>2, <2>3, <2>4 DEF Operator, HostPause, HostPlayReset, HostStop,
          CommandPause, CommandPlay, CommandStop, HostPlay, Asks
  <1>5. QED
    BY <1>3, <1>4

LEMMA LaneOperator ==
  ASSUME TypeOK, NoPlay, LaneInv, Operator
  PROVE  LaneInv'
  <1>1. /\ \A r \in Row : coh'[r].step = coh[r].step
        /\ operator'.act # "play"
    BY ButtonsAlone
  <1>2. \A l \in Launcher : Hit(l)
    BY OperatorLocal
  <1>3. ASSUME NEW r \in Row PROVE InOrder(coh'[r])
    BY <1>1, StepsAlone DEF LaneInv
  <1>4. ASSUME NEW l \in Launcher, Live(l)'
        PROVE  Lane(launcher'[l], coh'[RowOf(l)'])
    <2>1. Live(l) /\ RowOf(l)' = RowOf(l) /\ RowOf(l) \in Row
      BY <1>2, <1>4, HitStays DEF RowOf, Live, TypeOK
    <2>2. Lane(launcher[l], coh'[RowOf(l)])
      BY <1>1, <2>1, StepsAlone DEF LaneInv
    <2>3. CASE launcher'[l] = launcher[l]
      BY <2>1, <2>2, <2>3
    <2>4. CASE launcher'[l] # launcher[l]
      <3>1. /\ At(l, "run")
            /\ launcher'[l] = [launcher[l] EXCEPT !.pc = "result", !.ok = FALSE]
        BY <1>2, <1>4, <2>4, ZenonT(30) DEF Hit, Live, Idle
      <3>2. launcher'[l].pc = "result" /\ launcher'[l].phase = launcher[l].phase
        BY <3>1 DEF TypeOK, LauncherType
      <3>3. QED
        BY <2>1, <2>2, <3>1, <3>2 DEF Lane, At
    <2>5. QED
      BY <2>3, <2>4
  <1>5. QED
    BY <1>1, <1>3, <1>4 DEF LaneInv

LEMMA LaneOthers ==
  ASSUME TypeOK, LaneInv,
         (\E p \in Pass : start_all_commands(p) \/ Spawn(p)) \/ Tick \/ UNCHANGED vars
  PROVE  LaneInv'
  <1>1. CASE (\E p \in Pass : start_all_commands(p)) \/ Tick \/ UNCHANGED vars
    <2>1. UNCHANGED <<coh, launcher, operator>>
      BY <1>1 DEF start_all_commands, Tick, vars
    <2>2. QED
      BY <2>1 DEF LaneInv, Live, RowOf
  <1>2. ASSUME NEW p \in Pass, Spawn(p) PROVE LaneInv'
    <2>1. PICK r \in pass[p], l \in Launcher :
             Become(l, [Idle EXCEPT !.pc = "start", !.row = r])
      BY <1>2 DEF Spawn
    <2>2. UNCHANGED <<coh, operator>>
      BY <1>2 DEF Spawn
    <2>3. /\ launcher'[l].pc = "start"
          /\ \A m \in Launcher : m # l => launcher'[m] = launcher[m]
      BY <2>1 DEF Become, Idle, TypeOK
    <2>4. \A row : Lane(launcher'[l], row)
      BY <2>3 DEF Lane
    <2>5. \A m \in Launcher : Live(m)' => Lane(launcher'[m], coh'[RowOf(m)'])
      BY <2>2, <2>3, <2>4 DEF LaneInv, Live, RowOf
    <2>6. QED
      BY <2>2, <2>5 DEF LaneInv
  <1>3. QED
    BY <1>1, <1>2

LEMMA LaneInit == Init => LaneInv
  <1>1. SUFFICES ASSUME Init PROVE LaneInv
    OBVIOUS
  <1>2. ASSUME NEW r \in Row PROVE InOrder(coh[r])
    <2>1. coh[r].step = AllTodo
      BY <1>1 DEF Init, NewRow
    <2>2. QED
      BY <2>1 DEF InOrder, AllTodo, Phase
  <1>3. \A l \in Launcher : ~Live(l)
    BY <1>1 DEF Init, Idle, Live
  <1>4. operator.act # "play"
    BY <1>1 DEF Init
  <1>5. QED
    BY <1>2, <1>3, <1>4 DEF LaneInv

LEMMA LaneNext ==
  ASSUME NoPlay, TypeOK, Exclusive, LaneInv, [Next]_vars
  PROVE  LaneInv'
  <1>1. CASE Next
    BY <1>1, LaneLauncher, LaneOperator, LaneOthers DEF Next
  <1>2. CASE UNCHANGED vars
    BY <1>2, LaneOthers
  <1>3. QED
    BY <1>1, <1>2

-----------------------------------------------------------------------------
(* A row that may be launched again is as new.  This needs more than the   *)
(* lanes: where both a launcher may die and a row may be stopped, the stop *)
(* takes the pid of the dead launcher from a row half done.                *)

NoStop == Ops \cap {"stop", "command_stop"} = {}
Tame   == CanCrash = FALSE \/ NoStop

Resting(row) == row.state \notin NotStartable => row.step = AllTodo

\* Before execute() has touched a column, and while the row holds the pid.
Begun  == {"start", "claim", "connect", "reach", "nomac", "unreach", "dec",
           "retry", "check"}
Middle == Executing \cup {"connect", "reach", "nomac", "unreach", "dec", "retry",
                          "check", "resched", "update"}

\* Launcher rec and its row, from AllTodo to the end of the period.
Fresh(rec, row) ==
    /\ rec.pc \in Begun => row.step = AllTodo /\ rec.phase = "upload"
    /\ rec.pc = "decide" => row.step[rec.phase] = "TODO" /\ Cleared(row, rec.phase)
    /\ rec.pc \in {"skip", "skipflag"} => row.step[rec.phase] = "TODO"
    /\ rec.pc = "setflag" /\ ~rec.ok => row.state \in NotStartable
    /\ rec.pc \in {"final", "setdone"} => AllFinished(row)
    /\ rec.pc \in {"resched", "update"} =>
          row.step = AllTodo \/ (AllFinished(row) /\ row.state \in NotStartable)
    /\ rec.pc \in {"connfail", "free1", "free2"} => Resting(row)

\* The launcher may die before its next step.
Threat(l) ==
    \/ CanCrash
    \/ operator.act = "kill" /\ operator.pid = l /\ operator.row = RowOf(l)

Alone(r) == \A l \in Launcher : Live(l) => RowOf(l) # r

\* The inductive invariant.
FreshInv ==
    /\ \A l \in Launcher : Live(l) => Fresh(launcher[l], coh[RowOf(l)])
    /\ \A l \in Launcher :
          launcher[l].pc \in Middle /\ Threat(l) => coh[RowOf(l)].pid = l
    /\ \A r \in Row : Alone(r) /\ coh[r].pid = NoPid => Resting(coh[r])
    /\ \A p \in Pass : \A r \in pass[p] : coh[r].step = AllTodo
    /\ NoStop => operator.act \notin {"kill", "stop"}

\* What a step of launcher l has to keep.
Goes(l) == /\ launcher'[l].pc \notin {"idle", "dead"}
           /\ Fresh(launcher'[l], coh'[RowOf(l)])
Ends(l) == /\ launcher'[l].pc \in {"idle", "dead"}
           /\ coh'[RowOf(l)].pid = NoPid => Resting(coh'[RowOf(l)])
Holds(l) == launcher'[l].pc \in Middle /\ Threat(l) => coh'[RowOf(l)].pid = l

LEMMA FreshStep ==
  ASSUME TypeOK, Exclusive, FreshInv, NEW l \in Launcher, Local(l),
         Goes(l) \/ Ends(l), Holds(l)
  PROVE  FreshInv'
  <1>1. ASSUME NEW m \in Launcher, m # l, Live(m)'
        PROVE  /\ launcher'[m] = launcher[m] /\ Live(m) /\ RowOf(m)' = RowOf(m)
               /\ coh'[RowOf(m)] = coh[RowOf(m)]
    <2>1. launcher'[m] = launcher[m] /\ Live(m) /\ RowOf(m)' = RowOf(m)
      BY <1>1 DEF Local, Live, RowOf
    <2>2. RowOf(m) # RowOf(l) /\ RowOf(m) \in Row
      BY <1>1, <2>1 DEF Local, Exclusive, Live, RowOf, TypeOK
    <2>3. QED
      BY <2>1, <2>2 DEF Local
  <1>2. ASSUME NEW m \in Launcher, Live(m)'
        PROVE  Fresh(launcher'[m], coh'[RowOf(m)'])
    <2>1. CASE m = l
      BY <1>2, <2>1 DEF Local, Goes, Ends, Live, RowOf
    <2>2. CASE m # l
      BY <1>1, <1>2, <2>2 DEF FreshInv
    <2>3. QED
      BY <2>1, <2>2
  <1>3. ASSUME NEW m \in Launcher, launcher'[m].pc \in Middle, Threat(m)'
        PROVE  coh'[RowOf(m)'].pid = m
    <2>1. Live(m)'
      BY <1>3 DEF Middle, Executing, Live
    <2>2. CASE m = l
      <3>1. RowOf(l)' = RowOf(l) /\ operator' = operator
        BY <2>1, <2>2 DEF Local, Live, RowOf
      <3>2. Threat(l)
        BY <1>3, <2>2, <3>1 DEF Threat
      <3>3. QED
        BY <1>3, <2>2, <3>1, <3>2 DEF Holds
    <2>3. CASE m # l
      <3>1. Threat(m)
        BY <1>1, <1>3, <2>1, <2>3 DEF Threat, Local
      <3>2. QED
        BY <1>1, <1>3, <2>1, <2>3, <3>1 DEF FreshInv
    <2>4. QED
      BY <2>2, <2>3
  <1>4. ASSUME NEW r \in Row, Alone(r)', coh'[r].pid = NoPid
        PROVE  Resting(coh'[r])
    <2>1. CASE r = RowOf(l)
      <3>1. launcher'[l].pc \in {"idle", "dead"}
        BY <1>4, <2>1 DEF Alone, Local, Live, RowOf
      <3>2. QED
        BY <1>4, <2>1, <3>1 DEF Goes, Ends
    <2>2. CASE r # RowOf(l)
      <3>1. coh'[r] = coh[r]
        BY <2>2 DEF Local
      <3>2. Alone(r)
        BY <1>4, <2>2 DEF Alone, Local, Live, RowOf
      <3>3. QED
        BY <1>4, <3>1, <3>2 DEF FreshInv
    <2>3. QED
      BY <2>1, <2>2
  <1>5. ASSUME NEW p \in Pass, NEW r \in pass'[p] PROVE coh'[r].step = AllTodo
    <2>1. pass' = pass /\ RowOf(l) \notin pass[p] /\ r \in Row
      BY DEF Local, Exclusive, TypeOK
    <2>2. coh'[r] = coh[r]
      BY <2>1 DEF Local
    <2>3. QED
      BY <2>1, <2>2 DEF FreshInv
  <1>6. QED
    BY <1>2, <1>3, <1>4, <1>5 DEF FreshInv, Local

\* The pid of the row is the launcher's as long as it was.
LEMMA PidsKept ==
  ASSUME TypeOK, NEW l \in Launcher, RowOf(l) \in Row,
         \/ ConnectNot(l) \/ ConnectHalted(l) \/ ConnectLegacy(l) \/ ConnectTry(l)
         \/ Reach(l) \/ NoMac(l) \/ Unreach(l) \/ Dec(l) \/ Retry(l)
         \/ Check(l) \/ Decide(l) \/ Mark(l) \/ MarkFlag(l) \/ Run(l)
         \/ Result(l) \/ ResultFlag(l) \/ Skip(l) \/ SkipFlag(l)
         \/ Final(l) \/ SetDone(l) \/ Resched(l)
  PROVE  launcher[l].pc \in Middle /\ coh'[RowOf(l)].pid = coh[RowOf(l)].pid
  <1>1. launcher[l].pc \in Middle
    BY DEF Middle, Executing, At, ConnectNot, ConnectHalted, ConnectLegacy, ConnectTry,
        Connecting, Reach, NoMac, Unreach, Dec, Retry, Check, Decide, Mark, MarkFlag,
        Run, Result, ResultFlag, Skip, SkipFlag, Final, SetDone, Resched
  <1>2. CASE \/ ConnectNot(l) \/ ConnectHalted(l) \/ ConnectTry(l) \/ Check(l)
             \/ Decide(l) \/ Run(l) \/ Final(l)
    BY <1>1, <1>2 DEF ConnectNot, ConnectHalted, ConnectTry, Check, Decide, Run, Final
  <1>3. CASE ConnectLegacy(l) \/ Retry(l) \/ Resched(l)
    <2>1. coh' = coh \/ \E d : coh' = [coh EXCEPT ![RowOf(l)].next = d]
      BY <1>3 DEF ConnectLegacy, Retry, Resched
    <2>2. QED
      BY <1>1, <2>1, NextSet
  <1>4. CASE Dec(l)
    BY <1>1, <1>4, AttemptsSet DEF Dec
  <1>5. CASE \/ Reach(l) \/ NoMac(l) \/ Unreach(l) \/ Mark(l) \/ Result(l) \/ Skip(l)
             \/ SetDone(l)
    <2>1. \E s : SetState(l, s)
      BY <1>5 DEF Reach, NoMac, Unreach, Mark, Result, Skip, SetDone
    <2>2. QED
      BY <1>1, <2>1, StateSet
  <1>6. CASE MarkFlag(l) \/ ResultFlag(l) \/ SkipFlag(l)
    <2>1. \E f : SetStep(l, f)
      BY <1>6 DEF MarkFlag, ResultFlag, SkipFlag
    <2>2. QED
      BY <1>1, <2>1, StepSet
  <1>7. QED
    BY SMTT(40), <1>2, <1>3, <1>4, <1>5, <1>6

LEMMA FreshHolds ==
  ASSUME TypeOK, FreshInv, NEW l \in Launcher, RowOf(l) \in Row,
         LauncherStep(l) \/ Crash(l)
  PROVE  Holds(l)
  <1>1. CASE Start(l) \/ Free2(l)
    <2>1. Become(l, Idle) \/ Goto(l, "claim")
      BY <1>1 DEF Start, Free2
    <2>2. QED
      BY <2>1, EndLocal, GotoSets DEF Holds, Middle, Executing
  <1>2. CASE Claim(l)
    <2>1. CASE Leave(l, "free2")
      BY <2>1, LeaveSets DEF Holds, Middle, Executing
    <2>2. CASE ~Leave(l, "free2")
      BY <1>2, <2>2, ClaimSets, PidSet DEF Holds
    <2>3. QED
      BY <2>1, <2>2
  <1>3. CASE ConnFail(l) \/ Free1(l) \/ Crash(l)
    <2>1. \E p \in {"free2", "dead"} : Leave(l, p)
      BY <1>3 DEF ConnFail, Free1, Crash
    <2>2. QED
      BY <2>1, LeaveSets DEF Holds, Middle, Executing
  <1>4. CASE Update(l)
    BY <1>4, PeriodSets DEF Holds, Middle, Executing
  <1>5. CASE launcher[l].pc \in Middle /\ coh'[RowOf(l)].pid = coh[RowOf(l)].pid
    BY <1>5 DEF Holds, FreshInv
  <1>6. QED
    BY <1>1, <1>2, <1>3, <1>4, <1>5, PidsKept DEF LauncherStep

\* Every way a launcher ends.
LEMMA FreshEnds ==
  ASSUME TypeOK, FreshInv, NEW l \in Launcher, RowOf(l) \in Row, Live(l),
         Start(l) \/ Free2(l) \/ Crash(l)
  PROVE  Goes(l) \/ Ends(l)
  <1> DEFINE row  == coh[RowOf(l)]
             row1 == coh'[RowOf(l)]
  <1>1. Fresh(launcher[l], row)
    BY DEF FreshInv
  <1>2. CASE Start(l)
    <2>1. row1 = row /\ row.step = AllTodo /\ launcher[l].phase = "upload"
      BY <1>1, <1>2 DEF Start, At, Fresh, Begun
    <2>2. CASE Become(l, Idle)
      BY <2>1, <2>2, EndLocal DEF Ends, Resting
    <2>3. CASE Goto(l, "claim")
      BY <2>1, <2>3, GotoSets DEF Goes, Fresh
    <2>4. QED
      BY <1>2, <2>2, <2>3 DEF Start
  <1>3. CASE Free2(l)
    <2>1. row1.state = row.state /\ row1.step = row.step /\ Resting(row)
      BY <1>1, <1>3, PidSet DEF Free2, At, Fresh
    <2>2. launcher'[l].pc = "idle"
      BY <1>3, EndLocal DEF Free2
    <2>3. QED
      BY <2>1, <2>2 DEF Ends, Resting
  <1>4. CASE Crash(l)
    <2>1. coh' = coh /\ launcher'[l].pc = "dead" /\ CanCrash
      BY <1>4, LeaveSets DEF Crash
    <2>2. launcher[l].pc \in Middle \/ launcher[l].pc \in {"start", "claim", "connfail", "free1", "free2"}
      BY DEF TypeOK, LauncherType, PC, Live, Middle, Executing
    <2>3. CASE launcher[l].pc \in Middle
      BY <2>1, <2>3, NoPidAssumption DEF Ends, FreshInv, Threat
    <2>4. CASE launcher[l].pc \in {"start", "claim", "connfail", "free1", "free2"}
      BY <1>1, <2>1, <2>4 DEF Ends, Fresh, Begun, Resting
    <2>5. QED
      BY <2>2, <2>3, <2>4
  <1>5. QED
    BY <1>2, <1>3, <1>4

LEMMA FreshConnect ==
  ASSUME TypeOK, FreshInv, NEW l \in Launcher, RowOf(l) \in Row, Live(l),
         \/ Claim(l) \/ ConnFail(l) \/ Free1(l)
         \/ ConnectNot(l) \/ ConnectHalted(l) \/ ConnectLegacy(l) \/ ConnectTry(l)
         \/ Reach(l) \/ NoMac(l) \/ Unreach(l) \/ Dec(l) \/ Retry(l) \/ Check(l)
  PROVE  Goes(l)
  <1> DEFINE rec  == launcher[l]
             rec1 == launcher'[l]
             row  == coh[RowOf(l)]
             row1 == coh'[RowOf(l)]
  <1>1. Fresh(rec, row)
    BY DEF FreshInv
  <1>2. row1.step = row.step
    BY ColumnsKept
  <1>3. CASE ConnFail(l) \/ Free1(l)
    <2>1. rec1.pc = "free2" /\ row1.state = row.state
      BY <1>3, LeaveSets, PidSet DEF ConnFail, Free1
    <2>2. Resting(row)
      BY <1>1, <1>3 DEF ConnFail, Free1, At, Fresh
    <2>3. QED
      BY <1>2, <2>1, <2>2 DEF Goes, Fresh, Resting, Begun
  <1>4. CASE ~(ConnFail(l) \/ Free1(l))
    <2>1. rec.pc \in Begun
      BY <1>4 DEF Claim, ConnectNot, ConnectHalted, ConnectLegacy, ConnectTry, Connecting,
          Reach, NoMac, Unreach, Dec, Retry, Check, At, Begun
    <2>2. row1.step = AllTodo /\ rec.phase = "upload"
      BY <1>1, <1>2, <2>1 DEF Fresh
    <2>3. rec1.phase = "upload" /\ rec1.pc \in Begun \cup {"decide", "resched", "connfail", "free1", "free2"}
      <3>1. CASE Claim(l)
        BY <2>2, <3>1, ClaimSets, LeaveSets DEF Begun
      <3>2. CASE Reach(l) \/ Dec(l)
        BY <2>2, <3>2, ReachSets, DecSets DEF Begun
      <3>3. CASE \/ ConnectNot(l) \/ ConnectHalted(l) \/ ConnectLegacy(l) \/ ConnectTry(l)
                 \/ NoMac(l) \/ Unreach(l) \/ Retry(l) \/ Check(l)
        <4>1. \E p \in Begun \cup {"decide", "resched", "connfail", "free1"} :
                 Goto(l, p) \/ Leave(l, p)
          BY <3>3 DEF ConnectNot, ConnectHalted, ConnectLegacy, ConnectTry, NoMac,
              Unreach, Retry, Check, Begun
        <4>2. QED
          BY <2>2, <4>1, GotoSets, LeaveSets
      <3>4. QED
        BY <1>4, <3>1, <3>2, <3>3
    <2>4. row1.step["upload"] = "TODO" /\ Cleared(row1, "upload")
      BY <2>2, BeforePhase DEF AllTodo, Phase, Cleared
    <2>5. QED
      BY <2>2, <2>3, <2>4 DEF Goes, Fresh, Resting, Begun
  <1>5. QED
    BY <1>3, <1>4

\* When a phase is over the next one is to do, or all is finished.
LEMMA NextTodo ==
  ASSUME NEW row, row.step \in [Phase -> Flag], InOrder(row), NEW ph \in Phase,
         row.step[ph] \notin Finished, Cleared(row, ph), NEW f \in Finished,
         NEW row1, row1.step = [row.step EXCEPT ![ph] = f]
  PROVE  IF ph = "delete"
           THEN AllFinished(row1)
           ELSE row1.step[NextPhase[ph]] = "TODO" /\ Cleared(row1, NextPhase[ph])
  <1>1. CASE ph = "upload"
    BY <1>1, BeforePhase DEF InOrder, Cleared, Phase, NextPhase
  <1>2. CASE ph = "execution"
    BY <1>2, BeforePhase DEF InOrder, Cleared, Phase, NextPhase
  <1>3. CASE ph = "delete"
    BY <1>3, BeforePhase DEF Cleared, Phase, AllFinished
  <1>4. QED
    BY <1>1, <1>2, <1>3 DEF Phase

LEMMA FreshAfter ==
  ASSUME TypeOK, LaneInv, NEW l \in Launcher, RowOf(l) \in Row, AfterPhase(l),
         Cleared(coh[RowOf(l)], launcher[l].phase),
         coh[RowOf(l)].step[launcher[l].phase] \notin Finished,
         NEW f \in Finished, SetStep(l, f)
  PROVE  Goes(l)
  <1> DEFINE ph   == launcher[l].phase
             row  == coh[RowOf(l)]
             row1 == coh'[RowOf(l)]
             rec1 == launcher'[l]
  <1>1. ph \in Phase /\ row.step \in [Phase -> Flag] /\ InOrder(row)
    BY DEF TypeOK, LauncherType, RowType, LaneInv
  <1>2. row1.step = [row.step EXCEPT ![ph] = f]
    BY StepSet
  <1>3. IF ph = "delete"
          THEN AllFinished(row1)
          ELSE row1.step[NextPhase[ph]] = "TODO" /\ Cleared(row1, NextPhase[ph])
    BY <1>1, <1>2, NextTodo
  <1>4. /\ rec1.pc = IF ph = "delete" THEN "final" ELSE "decide"
        /\ rec1.phase = NextPhase[ph]
    BY PhaseSets
  <1>5. QED
    BY <1>3, <1>4 DEF Goes, Fresh, Begun

LEMMA FreshExecute ==
  ASSUME TypeOK, LaneInv, FreshInv, NEW l \in Launcher, RowOf(l) \in Row, Live(l),
         \/ Decide(l) \/ Mark(l) \/ MarkFlag(l) \/ Run(l) \/ Result(l) \/ ResultFlag(l)
         \/ Skip(l) \/ SkipFlag(l)
  PROVE  Goes(l)
  <1> DEFINE rec  == launcher[l]
             rec1 == launcher'[l]
             row  == coh[RowOf(l)]
             row1 == coh'[RowOf(l)]
  <1>1. Fresh(rec, row) /\ Lane(rec, row) /\ InOrder(row)
    BY DEF FreshInv, LaneInv
  <1>2. rec.phase \in Phase /\ row.step \in [Phase -> Flag] /\ rec.ok \in BOOLEAN
    BY DEF TypeOK, LauncherType, RowType
  <1>3. CASE Decide(l)
    <2>1. row.step[rec.phase] = "TODO" /\ Cleared(row, rec.phase) /\ row1 = row
      BY <1>1, <1>3 DEF Decide, At, Fresh
    <2>2. Wanted(l)
      <3>1. CASE rec.phase = "upload"
        BY <2>1, <3>1 DEF Wanted
      <3>2. CASE rec.phase = "execution"
        BY <2>1, <3>2, BeforePhase DEF Wanted, Cleared
      <3>3. CASE rec.phase = "delete"
        BY <2>1, <3>3, BeforePhase DEF Wanted, Cleared
      <3>4. QED
        BY <1>2, <3>1, <3>2, <3>3 DEF Phase
    <2>3. \E p \in {"mark", "skip"} : Goto(l, p)
      BY <1>3, <2>2 DEF Decide
    <2>4. rec1.pc \in {"mark", "skip"} /\ rec1.phase = rec.phase
      BY <2>3, GotoSets
    <2>5. QED
      BY <2>1, <2>4 DEF Goes, Fresh, Begun
  <1>4. CASE Mark(l) \/ MarkFlag(l)
    <2>1. rec1.pc \in {"flag", "run"}
      BY <1>4, GotoSets DEF Mark, MarkFlag
    <2>2. QED
      BY <2>1 DEF Goes, Fresh, Begun
  <1>5. CASE Run(l)
    <2>1. PICK ok \in BOOLEAN : Become(l, [rec EXCEPT !.pc = "result", !.ok = ok])
      BY <1>5 DEF Run
    <2>2. rec1.pc = "result"
      BY <2>1, ResultSets
    <2>3. QED
      BY <2>2 DEF Goes, Fresh, Begun
  <1>6. CASE Result(l)
    <2>1. /\ rec1.pc = "setflag" /\ rec1.ok = rec.ok
          /\ row1.state = IF rec.ok THEN Succeeded[rec.phase] ELSE Failed[rec.phase]
      BY <1>6, GotoSets, StateSet DEF Result
    <2>2. Failed[rec.phase] \in NotStartable
      BY <1>2 DEF Phase, Failed, NotStartable
    <2>3. QED
      BY <2>1, <2>2 DEF Goes, Fresh, Begun
  <1>7. CASE ResultFlag(l)
    <2>1. rec.pc = "setflag" /\ row.step[rec.phase] = "WORK_IN_PROGRESS"
      BY <1>1, <1>7 DEF ResultFlag, At, Lane
    <2>2. CASE rec.ok
      <3>1. SetStep(l, "DONE") /\ AfterPhase(l)
        BY <1>7, <2>2 DEF ResultFlag
      <3>2. Cleared(row, rec.phase) /\ row.step[rec.phase] \notin Finished /\ "DONE" \in Finished
        BY <1>1, <1>2, <2>1 DEF InOrder, Finished
      <3>3. QED
        BY <3>1, <3>2, FreshAfter
    <2>3. CASE ~rec.ok
      <3>1. row1.state = row.state /\ rec1.pc = "free1"
        BY <1>7, <2>3, StepSet, LeaveSets DEF ResultFlag
      <3>2. row.state \in NotStartable
        BY <1>1, <2>1, <2>3 DEF Fresh
      <3>3. QED
        BY <3>1, <3>2 DEF Goes, Fresh, Begun, Resting
    <2>4. QED
      BY <2>2, <2>3
  <1>8. CASE Skip(l)
    <2>1. rec.pc = "skip" /\ rec1.pc = "skipflag" /\ rec1.phase = rec.phase /\ row1.step = row.step
      BY <1>8, GotoSets, StateSet DEF Skip, At
    <2>2. QED
      BY <1>1, <2>1 DEF Goes, Fresh, Begun
  <1>9. CASE SkipFlag(l)
    <2>1. row.step[rec.phase] = "TODO" /\ Cleared(row, rec.phase)
      BY <1>1, <1>9 DEF SkipFlag, At, Fresh, Lane
    <2>2. SetStep(l, "IGNORED") /\ AfterPhase(l)
      BY <1>9 DEF SkipFlag
    <2>3. row.step[rec.phase] \notin Finished /\ "IGNORED" \in Finished
      BY <2>1 DEF Finished
    <2>4. QED
      BY <2>1, <2>2, <2>3, FreshAfter
  <1>10. QED
    BY <1>3, <1>4, <1>5, <1>6, <1>7, <1>8, <1>9

LEMMA FreshFinal ==
  ASSUME TypeOK, FreshInv, NEW l \in Launcher, RowOf(l) \in Row, Live(l),
         Final(l) \/ SetDone(l) \/ Resched(l) \/ Update(l)
  PROVE  Goes(l)
  <1> DEFINE rec  == launcher[l]
             rec1 == launcher'[l]
             row  == coh[RowOf(l)]
             row1 == coh'[RowOf(l)]
  <1>1. Fresh(rec, row)
    BY DEF FreshInv
  <1>2. CASE Final(l)
    <2>1. AllFinished(row) /\ row1 = row
      BY <1>1, <1>2 DEF Final, At, Fresh
    <2>2. rec1.pc = "setdone"
      BY <1>2, <2>1, GotoSets DEF Final
    <2>3. QED
      BY <2>1, <2>2 DEF Goes, Fresh, Begun
  <1>3. CASE SetDone(l)
    <2>1. AllFinished(row)
      BY <1>1, <1>3 DEF SetDone, At, Fresh
    <2>2. rec1.pc = "resched" /\ row1.state = "done" /\ row1.step = row.step
      BY <1>3, GotoSets, StateSet DEF SetDone
    <2>3. QED
      BY <2>1, <2>2 DEF Goes, Fresh, Begun, AllFinished, NotStartable
  <1>4. CASE Resched(l)
    <2>1. row.step = AllTodo \/ (AllFinished(row) /\ row.state \in NotStartable)
      BY <1>1, <1>4 DEF Resched, At, Fresh
    <2>2. row1.step = row.step /\ row1.state = row.state
      <3>1. coh' = coh \/ \E d : coh' = [coh EXCEPT ![RowOf(l)].next = d]
        BY <1>4 DEF Resched
      <3>2. QED
        BY <3>1, NextSet
    <2>3. rec1.pc \in {"update", "connfail", "free1"}
      <3>1. CASE Leave(l, AfterResched(l))
        BY <3>1, LeaveSets DEF AfterResched
      <3>2. CASE ~Leave(l, AfterResched(l))
        BY <1>4, <3>2, UpdateSets DEF Resched
      <3>3. QED
        BY <3>1, <3>2
    <2>4. QED
      BY <2>1, <2>2, <2>3 DEF Goes, Fresh, Begun, AllFinished, Resting
  <1>5. CASE Update(l)
    BY <1>5, PeriodSets DEF Goes, Fresh, Begun, Resting
  <1>6. QED
    BY <1>2, <1>3, <1>4, <1>5

LEMMA FreshLauncher ==
  ASSUME TypeOK, Exclusive, LaneInv, FreshInv, NEW l \in Launcher,
         LauncherStep(l) \/ Crash(l)
  PROVE  FreshInv'
  <1>1. Local(l) /\ RowOf(l) \in Row /\ Live(l)
    BY StepLocal DEF Local
  <1>2. Goes(l) \/ Ends(l)
    BY <1>1, FreshEnds, FreshConnect, FreshExecute, FreshFinal DEF LauncherStep
  <1>3. Holds(l)
    BY <1>1, FreshHolds
  <1>4. QED
    BY <1>1, <1>2, <1>3, FreshStep

\* A button halts a row or leaves its state; stop takes its pid.
LEMMA ButtonRow ==
  ASSUME TypeOK, NoPlay, LaneInv, Operator, NEW r \in Row
  PROVE  /\ coh'[r].step = coh[r].step
         /\ coh'[r].state = coh[r].state \/ coh'[r].state \in NotStartable
         /\ \/ coh'[r].pid = coh[r].pid
            \/ operator.act = "stop" /\ coh'[r].state \in NotStartable
  <1>1. coh'[r].step = coh[r].step
    BY ButtonsAlone
  <1>2. "play" \notin Ops /\ "command_play" \notin Ops /\ operator.act # "play"
    BY DEF NoPlay, LaneInv
  <1>3. Turned(r) /\ coh[r] \in RowType
    BY OperatorLocal DEF TypeOK
  <1>4. CASE coh'[r] = coh[r]
    BY <1>4
  <1>5. CASE \E from \in {Pausable, {"scheduled"}} : coh'[r] = PauseRow(coh[r], from)
    <2>1. /\ coh'[r].state = coh[r].state \/ coh'[r].state = "pause"
          /\ coh'[r].pid = coh[r].pid
      BY <1>3, <1>5 DEF PauseRow, RowType
    <2>2. QED
      BY <1>1, <2>1 DEF NotStartable
  <1>6. CASE coh'[r] = StopRow(coh[r], NoPid) /\ operator.act = "stop"
    <2>1. coh'[r].state = "stop"
      BY <1>3, <1>6 DEF StopRow, RowType
    <2>2. QED
      BY <1>1, <1>6, <2>1 DEF NotStartable
  <1>7. QED
    BY <1>2, <1>3, <1>4, <1>5, <1>6 DEF Turned

\* Which buttons bring a threat: a stop, to the launcher that holds the row.
LEMMA ButtonThreat ==
  ASSUME TypeOK, NoPlay, LaneInv, Operator
  PROVE  /\ \/ operator'.act \notin {"kill", "stop"}
            \/ operator.act \in {"kill", "stop"} /\ operator'.act = "stop"
            \/ ~NoStop /\ operator'.act \in {"kill", "stop"}
         /\ operator'.act = "kill" =>
               /\ coh[operator'.row].pid = operator'.pid
               /\ coh' = coh /\ launcher' = launcher
  <1>1. operator \in OperatorType /\ "play" \notin Ops /\ "command_play" \notin Ops
        /\ operator.act # "play"
    BY DEF TypeOK, NoPlay, LaneInv
  <1>2. ASSUME Asked, operator.act = "none" PROVE operator'.act = "none"
    BY <1>1, <1>2 DEF Asked, OperatorType
  <1>3. ASSUME NEW r, StopSelect(r)
        PROVE  /\ operator'.act \in {"kill", "stop"} /\ operator'.pid = coh[r].pid
               /\ operator'.row = r /\ coh' = coh /\ launcher' = launcher
    BY <1>1, <1>3 DEF StopSelect, OperatorType
  <1>4. ASSUME StopKill PROVE operator.act = "kill" /\ operator'.act = "stop"
    BY <1>1, <1>4 DEF StopKill, OperatorType
  <1>5. ASSUME StopUpdate PROVE operator'.act = "none"
    BY <1>1, <1>5 DEF StopUpdate, OperatorType
  <1>6. CASE \E r \in Row : HostPause(r) \/ CommandPause(Command[r].id)
    BY <1>2, <1>6 DEF HostPause, CommandPause, Asks
  <1>7. CASE \E r \in Row : HostStop(r) \/ CommandStop(Command[r].id)
    <2>1. ~NoStop /\ \E r \in Row : StopSelect(r)
      BY <1>7 DEF HostStop, CommandStop, Asks, NoStop, RowsOf
    <2>2. QED
      BY <1>3, <2>1
  <1>8. CASE StopKill \/ StopUpdate
    BY <1>4, <1>5, <1>8
  <1>9. QED
    BY <1>1, <1>6, <1>7, <1>8 DEF Operator, HostPlayReset, CommandPlay, HostPlay, Asks

LEMMA FreshOperator ==
  ASSUME TypeOK, NoPlay, Tame, LaneInv, FreshInv, Operator
  PROVE  FreshInv'
  <1>1. /\ \A l \in Launcher : Hit(l)
        /\ pass' = pass
    BY OperatorLocal
  <1>2. ASSUME NEW l \in Launcher, Live(l)'
        PROVE  /\ Live(l) /\ RowOf(l)' = RowOf(l) /\ RowOf(l) \in Row
               /\ \/ launcher'[l] = launcher[l]
                  \/ launcher[l].pc = "run" /\ launcher'[l].pc = "result"
    <2>1. Live(l) /\ RowOf(l)' = RowOf(l) /\ RowOf(l) \in Row
      BY <1>1, <1>2, HitStays DEF RowOf, Live, TypeOK
    <2>2. CASE launcher'[l] = launcher[l]
      BY <2>1, <2>2
    <2>3. CASE launcher'[l] # launcher[l]
      <3>1. /\ At(l, "run")
            /\ launcher'[l] = [launcher[l] EXCEPT !.pc = "result", !.ok = FALSE]
        BY <1>1, <1>2, <2>3 DEF Hit, Live, Idle
      <3>2. launcher'[l].pc = "result"
        BY <3>1 DEF TypeOK, LauncherType
      <3>3. QED
        BY SMTT(40), <2>1, <3>1, <3>2 DEF At
    <2>4. QED
      BY <2>2, <2>3
  <1>3. ASSUME NEW l \in Launcher, Live(l)'
        PROVE  Fresh(launcher'[l], coh'[RowOf(l)'])
    <2>1. CASE launcher'[l].pc = "result"
      BY <2>1 DEF Fresh, Begun
    <2>2. CASE launcher'[l] = launcher[l]
      <3>1. Live(l) /\ RowOf(l)' = RowOf(l) /\ RowOf(l) \in Row
        BY <1>2, <1>3
      <3>2. Fresh(launcher[l], coh[RowOf(l)])
        BY <3>1 DEF FreshInv
      <3>3. /\ coh'[RowOf(l)].step = coh[RowOf(l)].step
            /\ \/ coh'[RowOf(l)].state = coh[RowOf(l)].state
               \/ coh'[RowOf(l)].state \in NotStartable
        BY <3>1, ButtonRow
      <3>4. Fresh(launcher[l], coh'[RowOf(l)])
        BY <3>2, <3>3 DEF Fresh, Cleared, AllFinished, Resting
      <3>5. QED
        BY <2>2, <3>1, <3>4
    <2>3. QED
      BY <1>2, <1>3, <2>1, <2>2
  <1>4. ASSUME NEW l \in Launcher, launcher'[l].pc \in Middle, Threat(l)'
        PROVE  coh'[RowOf(l)'].pid = l
    <2>1. /\ RowOf(l)' = RowOf(l) /\ RowOf(l) \in Row
          /\ launcher[l].pc \in Middle
      BY <1>2, <1>4 DEF Middle, Executing, Live
    <2>2. CASE CanCrash
      <3>1. operator.act # "stop" /\ Threat(l)
        BY <2>2 DEF Tame, FreshInv, Threat
      <3>2. coh'[RowOf(l)].pid = coh[RowOf(l)].pid
        BY <2>1, <3>1, ButtonRow
      <3>3. QED
        BY <2>1, <3>1, <3>2 DEF FreshInv
    <2>3. CASE ~CanCrash
      <3>1. operator'.act = "kill" /\ operator'.pid = l /\ operator'.row = RowOf(l)
        BY <1>4, <2>1, <2>3 DEF Threat
      <3>2. QED
        BY <2>1, <3>1, ButtonThreat
    <2>4. QED
      BY <2>2, <2>3
  <1>5. ASSUME NEW r \in Row, Alone(r)', coh'[r].pid = NoPid
        PROVE  Resting(coh'[r])
    <2>1. /\ coh'[r].step = coh[r].step
          /\ coh'[r].state = coh[r].state \/ coh'[r].state \in NotStartable
      BY ButtonRow
    <2>2. CASE coh'[r].state \in NotStartable
      BY <2>2 DEF Resting
    <2>3. CASE coh'[r].state \notin NotStartable
      <3>1. coh[r].pid = NoPid
        BY <1>5, <2>3, ButtonRow
      <3>2. CASE Alone(r)
        BY <2>1, <3>1, <3>2 DEF FreshInv, Resting
      <3>3. CASE ~Alone(r)
        <4>1. PICK l \in Launcher : Live(l) /\ RowOf(l) = r
          BY <3>3 DEF Alone
        <4>2. launcher'[l] # launcher[l]
          BY SMTT(40), <1>5, <4>1 DEF Alone, Live, RowOf
        <4>3. Threat(l)
          BY <1>1, <4>2 DEF Hit, Threat
        <4>4. launcher[l].pc \notin Middle
          BY <3>1, <4>1, <4>3, NoPidAssumption DEF FreshInv
        <4>5. launcher[l].pc \in {"start", "claim", "connfail", "free1", "free2"}
          BY <4>1, <4>4 DEF TypeOK, LauncherType, PC, Live, Middle, Executing
        <4>6. Fresh(launcher[l], coh[r])
          BY <4>1 DEF FreshInv
        <4>7. QED
          BY <2>1, <4>5, <4>6 DEF Fresh, Begun, Resting
      <3>4. QED
        BY <3>2, <3>3
    <2>4. QED
      BY <2>2, <2>3
  <1>6. ASSUME NEW p \in Pass, NEW r \in pass'[p] PROVE coh'[r].step = AllTodo
    <2>1. r \in Row /\ coh[r].step = AllTodo
      BY <1>1 DEF FreshInv, TypeOK
    <2>2. QED
      BY <2>1, ButtonRow
  <1>7. ASSUME NoStop PROVE operator'.act \notin {"kill", "stop"}
    <2>1. operator.act \notin {"kill", "stop"}
      BY <1>7 DEF FreshInv
    <2>2. QED
      BY <1>7, <2>1, ButtonThreat
  <1>8. QED
    BY <1>3, <1>4, <1>5, <1>6, <1>7 DEF FreshInv

LEMMA FreshOthers ==
  ASSUME Overlap = FALSE, TypeOK, FreshInv,
         (\E p \in Pass : start_all_commands(p) \/ Spawn(p)) \/ Tick \/ UNCHANGED vars
  PROVE  FreshInv'
  <1>1. ASSUME NEW p \in Pass, start_all_commands(p) PROVE FreshInv'
    <2>1. PICK S \in SUBSET Due : pass' = [pass EXCEPT ![p] = S]
      BY <1>1 DEF start_all_commands
    <2>2. UNCHANGED <<coh, launcher, operator>> /\ Quiet
      BY <1>1 DEF start_all_commands
    <2>3. ASSUME NEW r \in S PROVE coh[r].step = AllTodo
      <3>1. r \in Row /\ coh[r].pid = NoPid /\ coh[r].state \notin NotStartable
        BY DEF Due, Startable
      <3>2. Alone(r)
        BY <2>2 DEF Quiet, Alone, RowOf
      <3>3. QED
        BY <3>1, <3>2 DEF FreshInv, Resting
    <2>4. \A q \in Pass : \A r \in pass'[q] : coh[r].step = AllTodo
      BY <2>1, <2>3 DEF FreshInv, TypeOK
    <2>5. QED
      BY <2>2, <2>4 DEF FreshInv, Live, RowOf, Alone, Threat
  <1>2. ASSUME NEW p \in Pass, Spawn(p) PROVE FreshInv'
    <2>1. PICK r \in pass[p], l \in Launcher :
             /\ launcher[l].pc = "idle"
             /\ Become(l, [Idle EXCEPT !.pc = "start", !.row = r])
             /\ pass' = [pass EXCEPT ![p] = @ \ {r}]
      BY <1>2 DEF Spawn
    <2>2. UNCHANGED <<coh, operator>>
      BY <1>2 DEF Spawn
    <2>3. /\ launcher'[l].row = r /\ launcher'[l].pc = "start"
          /\ launcher'[l].phase = "upload"
          /\ \A m \in Launcher : m # l => launcher'[m] = launcher[m]
      BY <2>1 DEF Become, Idle, TypeOK
    <2>4. Fresh(launcher'[l], coh[r])
      BY <2>3 DEF FreshInv, Fresh, Begun
    <2>5. \A m \in Launcher : Live(m)' => Fresh(launcher'[m], coh'[RowOf(m)'])
      BY <2>2, <2>3, <2>4 DEF FreshInv, Live, RowOf
    <2>6. ASSUME NEW m \in Launcher, launcher'[m].pc \in Middle, Threat(m)'
          PROVE  coh'[RowOf(m)'].pid = m
      <3>1. m # l
        BY <2>3, <2>6 DEF Middle, Executing
      <3>2. QED
        BY <2>2, <2>3, <2>6, <3>1 DEF FreshInv, RowOf, Threat
    <2>7. \A q \in Row : Alone(q)' => Alone(q)
      BY <2>1, <2>3 DEF Alone, Live, RowOf
    <2>8. \A q \in Pass : pass'[q] \subseteq pass[q]
      BY <2>1 DEF TypeOK
    <2>9. QED
      BY <2>2, <2>5, <2>6, <2>7, <2>8 DEF FreshInv
  <1>3. CASE Tick \/ UNCHANGED vars
    <2>1. UNCHANGED <<coh, launcher, pass, operator>>
      BY <1>3 DEF Tick, vars
    <2>2. QED
      BY <2>1 DEF FreshInv, Live, RowOf, Alone, Threat
  <1>4. QED
    BY <1>1, <1>2, <1>3

LEMMA FreshInit == Init => FreshInv
  <1>1. SUFFICES ASSUME Init PROVE FreshInv
    OBVIOUS
  <1>2. \A r \in Row : coh[r].step = AllTodo
    BY <1>1 DEF Init, NewRow
  <1>3. \A l \in Launcher : launcher[l].pc = "idle"
    BY <1>1 DEF Init, Idle
  <1>4. QED
    BY <1>1, <1>2, <1>3 DEF Init, FreshInv, Live, Middle, Executing, Resting

LEMMA FreshNext ==
  ASSUME Overlap = FALSE, NoPlay, Tame, TypeOK, Exclusive, LaneInv, FreshInv, [Next]_vars
  PROVE  FreshInv'
  <1>1. CASE Next
    BY <1>1, FreshLauncher, FreshOperator, FreshOthers DEF Next
  <1>2. CASE UNCHANGED vars
    BY <1>2, FreshOthers
  <1>3. QED
    BY <1>1, <1>2

LEMMA LaneHolds ==
  ASSUME Overlap = FALSE, NoPlay
  PROVE  Spec => [](TypeOK /\ Exclusive /\ LaneInv)
  <1>1. TypeOK /\ SerialInv => Exclusive
    BY DEF SerialInv
  <1>2. TypeOK /\ Exclusive /\ LaneInv /\ [Next]_vars => LaneInv'
    BY LaneNext
  <1>3. QED
    BY <1>1, <1>2, LaneInit, SerialHolds, PTL DEF Spec

LEMMA FreshHolding ==
  ASSUME Overlap = FALSE, NoPlay, Tame
  PROVE  Spec => [](TypeOK /\ Exclusive /\ LaneInv /\ FreshInv)
  <1>1. TypeOK /\ Exclusive /\ LaneInv /\ FreshInv /\ [Next]_vars => FreshInv'
    BY FreshNext
  <1>2. QED
    BY <1>1, FreshInit, LaneHolds, PTL DEF Spec

\* Without overlap and without play a row that will be launched again has
\* something to do, as long as launchers do not die or nobody presses stop:
\* every way out of execute() leaves a row halted, failed, done or as new.
THEOREM SerialRelaunchable ==
  ASSUME Overlap = FALSE, NoPlay, Tame
  PROVE  Spec => []Relaunchable
  <1>1. TypeOK /\ FreshInv => Relaunchable
    <2> SUFFICES ASSUME TypeOK, FreshInv, NEW r \in Due, ~Started(r),
                        NEW ph \in Phase
                 PROVE  coh[r].step[ph] \notin {"FAILED", "WORK_IN_PROGRESS"}
      BY DEF Relaunchable
    <2>1. r \in Row /\ coh[r].pid = NoPid /\ coh[r].state \notin NotStartable
      BY DEF Due, Startable
    <2>2. Alone(r)
      BY DEF Started, Alone
    <2>3. coh[r].step = AllTodo
      BY <2>1, <2>2 DEF FreshInv, Resting
    <2>4. QED
      BY <2>3 DEF AllTodo
  <1>2. QED
    BY <1>1, FreshHolding, PTL

-----------------------------------------------------------------------------
(* The refinement.  The columns of one row at a time change, and they      *)
(* change as a step of the pipeline says.                                  *)

Columns == [r \in Row |-> coh[r].step]

\* repeat_resched starts a row over that is finished or as new.
Renewable(l) == /\ At(l, "update")
                => \/ coh[RowOf(l)].step = AllTodo
                   \/ AllFinished(coh[RowOf(l)])

LEMMA ColumnsChange ==
  ASSUME TypeOK, NEW l \in Launcher, Local(l), NEW f, SetStep(l, f),
         NEW rr \in Row, rr = RowOf(l), NEW ph, ph = launcher[l].phase
  PROVE  Pipeline!Change(rr, ph, f)
  <1>1. RowOf(l) \in Row
    BY DEF Local
  <1>2. ASSUME NEW r \in Row
        PROVE  coh'[r].step = IF r = RowOf(l)
                                THEN [coh[r].step EXCEPT ![launcher[l].phase] = f]
                                ELSE coh[r].step
    BY <1>1, StepSet DEF Local
  <1>3. QED
    BY <1>1, <1>2 DEF Pipeline!Change

LEMMA PipelineLauncher ==
  ASSUME TypeOK, LaneInv, NEW l \in Launcher, Renewable(l), LauncherStep(l) \/ Crash(l)
  PROVE  Pipeline!Next \/ UNCHANGED Columns
  <1>0. Local(l) /\ RowOf(l) \in Row /\ Live(l) /\ launcher[l].phase \in Phase
    BY StepLocal DEF Local, TypeOK, LauncherType
  <1> PICK rr \in Row, ph \in Phase : rr = RowOf(l) /\ ph = launcher[l].phase
    BY <1>0
  <1> DEFINE row == coh[rr]
  <1>1. Local(l) /\ rr \in Row /\ Live(l) /\ ph \in Phase
    BY <1>0
  <1>2. Lane(launcher[l], row)
    BY <1>1 DEF LaneInv
  <1>3. ASSUME coh'[rr].step = row.step PROVE UNCHANGED Columns
    BY <1>1, <1>3 DEF Local, Columns
  <1>4. Cleared(row, ph) => Pipeline!Ready(rr, ph)
    BY <1>1 DEF Cleared, Pipeline!Ready, Finished, Pipeline!Finished
  <1>5. \A p \in Phase : Pipeline!Begin(rr, p) \/ Pipeline!End(rr, p) \/ Pipeline!LeaveOut(rr, p)
           => Pipeline!Next
    BY <1>1 DEF Pipeline!Next, Phase, Pipeline!Phase
  <1>6. CASE MarkFlag(l)
    <2>1. row.step[ph] = "TODO" /\ Cleared(row, ph)
      BY <1>2, <1>6 DEF MarkFlag, At, Lane
    <2>2. Pipeline!Change(rr, ph, "WORK_IN_PROGRESS")
      BY <1>1, <1>6, ColumnsChange DEF MarkFlag
    <2>3. Pipeline!Begin(rr, ph)
      BY <1>1, <1>4, <2>1, <2>2 DEF Pipeline!Begin
    <2>4. QED
      BY <1>1, <1>5, <2>3
  <1>7. CASE ResultFlag(l)
    <2>1. row.step[ph] = "WORK_IN_PROGRESS"
      BY <1>2, <1>7 DEF ResultFlag, At, Lane
    <2>2. \E f \in {"DONE", "FAILED"} : Pipeline!Change(rr, ph, f)
      BY <1>1, <1>7, ColumnsChange DEF ResultFlag
    <2>3. Pipeline!End(rr, ph)
      BY <1>1, <2>1, <2>2 DEF Pipeline!End
    <2>4. QED
      BY <1>1, <1>5, <2>3
  <1>8. CASE SkipFlag(l)
    <2>1. /\ Cleared(row, ph) /\ SetStep(l, "IGNORED")
          /\ row.step[ph] = "TODO" \/ (ph = "delete" /\ row.step["upload"] = "IGNORED")
      BY <1>2, <1>8 DEF SkipFlag, At, Lane
    <2>2. CASE row.step[ph] = "TODO"
      <3>1. Pipeline!Change(rr, ph, "IGNORED")
        BY <1>1, <2>1, ColumnsChange
      <3>2. Pipeline!LeaveOut(rr, ph)
        BY <1>1, <1>4, <2>1, <2>2, <3>1 DEF Pipeline!LeaveOut
      <3>3. QED
        BY <1>1, <1>5, <3>2
    <2>3. CASE row.step[ph] # "TODO"
      <3>1. row.step["delete"] \in {"TODO", "IGNORED"} /\ ph = "delete"
        BY <1>1, <2>1, <2>3 DEF LaneInv, InOrder
      <3>2. row.step \in [Phase -> Flag]
        BY <1>1 DEF TypeOK, RowType
      <3>3. coh'[rr].step = [row.step EXCEPT ![ph] = "IGNORED"]
        BY <1>1, <2>1, StepSet
      <3>4. coh'[rr].step = row.step
        BY <2>3, <3>1, <3>2, <3>3
      <3>5. QED
        BY <1>3, <3>4
    <2>4. QED
      BY <2>2, <2>3
  <1>9. CASE Update(l)
    <2>1. coh'[rr].step = AllTodo /\ At(l, "update")
      BY <1>1, <1>9, PeriodSets DEF Update
    <2>2. CASE row.step = AllTodo
      BY <1>3, <2>1, <2>2
    <2>3. CASE AllFinished(row)
      <3>1. \A q \in Pipeline!Phase : row.step[q] \in Pipeline!Finished
        BY <2>3 DEF AllFinished, Phase, Pipeline!Phase, Finished, Pipeline!Finished
      <3>2. Pipeline!AllTodo = AllTodo
        BY DEF AllTodo, Pipeline!AllTodo, Phase, Pipeline!Phase
      <3>3. Columns' = [Columns EXCEPT ![rr] = AllTodo]
        BY <1>1, <2>1 DEF Local, Columns
      <3>4. Pipeline!NewPeriod(rr)
        BY <1>1, <3>1, <3>2, <3>3 DEF Pipeline!NewPeriod, Columns
      <3>5. QED
        BY <1>1, <3>4 DEF Pipeline!Next
    <2>4. QED
      BY <2>1, <2>2, <2>3 DEF Renewable
  <1>10. CASE ~(MarkFlag(l) \/ ResultFlag(l) \/ SkipFlag(l) \/ Update(l))
    <2>1. coh'[rr].step = row.step
      BY <1>1, <1>10, ColumnsKept DEF LauncherStep
    <2>2. QED
      BY <1>3, <2>1
  <1>11. QED
    BY <1>6, <1>7, <1>8, <1>9, <1>10

LEMMA PipelineStep ==
  ASSUME NoPlay, TypeOK, LaneInv, \A l \in Launcher : Renewable(l), [Next]_vars
  PROVE  [Pipeline!Next]_Columns
  <1>1. ASSUME NEW l \in Launcher, LauncherStep(l) \/ Crash(l)
        PROVE  Pipeline!Next \/ UNCHANGED Columns
    BY <1>1, PipelineLauncher
  <1>2. CASE Operator
    BY <1>2, ButtonsAlone DEF Columns
  <1>3. CASE (\E p \in Pass : start_all_commands(p) \/ Spawn(p)) \/ Tick \/ UNCHANGED vars
    <2>1. coh' = coh
      BY <1>3 DEF start_all_commands, Spawn, Tick, vars
    <2>2. QED
      BY <2>1 DEF Columns
  <1>4. QED
    BY <1>1, <1>2, <1>3 DEF Next

LEMMA PipelineInit == Init => Pipeline!Init
  <1>1. SUFFICES ASSUME Init PROVE Pipeline!Init
    OBVIOUS
  <1>2. \A r \in Row : coh[r].step = AllTodo
    BY <1>1 DEF Init, NewRow
  <1>3. QED
    BY <1>2 DEF Pipeline!Init, AllTodo, Pipeline!AllTodo, Phase, Pipeline!Phase

\* The launcher implements the pipeline: without overlap and without play
\* the columns of every row go through the phases as LscPipeline says.  A
\* command that is repeated needs Tame: repeat_resched does not look at the
\* columns it starts over.
THEOREM LauncherImplementsPipeline ==
  ASSUME Overlap = FALSE, NoPlay, Tame \/ \A r \in Row : Command[r].repeat = 0
  PROVE  Spec => PipelineSpec
  <1>1. CASE Tame
    <2>1. TypeOK /\ FreshInv => \A l \in Launcher : Renewable(l)
      BY DEF FreshInv, Renewable, Fresh, At, Live
    <2>2. TypeOK /\ LaneInv /\ FreshInv /\ [Next]_vars => [Pipeline!Next]_Columns
      BY <2>1, PipelineStep
    <2>3. QED
      BY <1>1, <2>2, PipelineInit, FreshHolding, PTL DEF Spec, PipelineSpec, Pipeline!Spec, Columns
  <1>2. CASE \A r \in Row : Command[r].repeat = 0
    <2>1. TypeOK /\ LaneInv => \A l \in Launcher : Renewable(l)
      BY <1>2 DEF LaneInv, Lane, Renewable, At, Live, RowOf, TypeOK
    <2>2. TypeOK /\ LaneInv /\ [Next]_vars => [Pipeline!Next]_Columns
      BY <2>1, PipelineStep
    <2>3. QED
      BY <2>2, PipelineInit, LaneHolds, PTL DEF Spec, PipelineSpec, Pipeline!Spec, Columns
  <1>3. QED
    BY <1>1, <1>2
=============================================================================
