-------------------------- MODULE LscLauncherProofs --------------------------
(* Theorems about LscLauncher, for every set of rows, launchers, passes    *)
(* and commands.                                                           *)
EXTENDS LscLauncher, TLAPS

LEMMA IdleType == Idle \in LauncherType
  BY DEF Idle, LauncherType, PC, Phase, Pid

LEMMA StateNames ==
  /\ \A ph \in Phase : /\ InProgress[ph] \in State
                       /\ Succeeded[ph] \in State
                       /\ Failed[ph] \in State
  /\ {"scheduled", "not_reachable", "done", "pause", "stop"} \subseteq State
  BY DEF Phase, InProgress, Succeeded, Failed, State

LEMMA PhaseNames ==
  \A ph \in Phase : NextPhase[ph] \in Phase
  BY DEF Phase, NextPhase

\* What a launcher may become: a well-formed record, with a row unless idle,
\* and an attempt left when it is about to be counted.
Fits(rec) == /\ rec.pc # "idle" => rec.row \in Row
             /\ rec.pc \in {"reach", "unreach", "dec"} => rec.att > 0
LType == /\ launcher' \in [Launcher -> LauncherType]
         /\ \A m \in Launcher : Fits(launcher'[m])

LEMMA BecomeType ==
  ASSUME TypeOK, NEW l \in Launcher, NEW rec \in LauncherType,
         Fits(rec), Become(l, rec)
  PROVE  LType
  BY DEF TypeOK, Become, LType, Fits

LEMMA LeaveType ==
  ASSUME TypeOK, NEW l \in Launcher, launcher[l].row \in Row,
         NEW p \in PC \ {"reach", "unreach", "dec"}, Leave(l, p)
  PROVE  LType
  <1>1. [Idle EXCEPT !.pc = p, !.row = launcher[l].row] \in LauncherType
    BY IdleType DEF LauncherType, Idle
  <1>2. QED
    BY <1>1, BecomeType DEF Leave, Idle, Fits

LEMMA GotoType ==
  ASSUME TypeOK, NEW l \in Launcher, launcher[l].row \in Row, NEW p \in PC,
         p \in {"reach", "unreach", "dec"} => launcher[l].att > 0, Goto(l, p)
  PROVE  LType
  <1>1. [launcher[l] EXCEPT !.pc = p] \in LauncherType
    BY DEF TypeOK, LauncherType
  <1>2. Fits([launcher[l] EXCEPT !.pc = p])
    BY DEF TypeOK, LauncherType, Fits
  <1>3. QED
    BY <1>1, <1>2, BecomeType DEF Goto

\* The changes of several fields at once.
LEMMA PhaseField ==
  ASSUME NEW rec \in LauncherType, NEW p \in PC, NEW ph \in Phase, NEW b \in BOOLEAN
  PROVE  [rec EXCEPT !.pc = p, !.phase = ph, !.ok = b] \in LauncherType
  BY DEF LauncherType

LEMMA ClaimFields ==
  ASSUME NEW rec \in LauncherType, NEW p \in PC, NEW n \in Nat,
         NEW b \in BOOLEAN, NEW c \in BOOLEAN
  PROVE  [rec EXCEPT !.pc = p, !.att = n, !.zero = b, !.legacy = c] \in LauncherType
  BY DEF LauncherType

LEMMA OkField ==
  ASSUME NEW rec \in LauncherType, NEW p \in PC, NEW b \in BOOLEAN
  PROVE  [rec EXCEPT !.pc = p, !.ok = b] \in LauncherType
  BY DEF LauncherType

LEMMA AttField ==
  ASSUME NEW rec \in LauncherType, NEW p \in PC, NEW n \in Nat
  PROVE  [rec EXCEPT !.pc = p, !.att = n] \in LauncherType
  BY DEF LauncherType

LEMMA SessionFields ==
  ASSUME NEW rec \in LauncherType, NEW p \in PC, NEW b \in BOOLEAN, NEW c \in BOOLEAN
  PROVE  [rec EXCEPT !.pc = p, !.sess = b, !.zero = c] \in LauncherType
  BY DEF LauncherType

LEMMA SnapField ==
  ASSUME NEW rec \in LauncherType, NEW p \in PC, NEW s \in [next: Nat, pid: Pid]
  PROVE  [rec EXCEPT !.pc = p, !.snap = s] \in LauncherType
  BY DEF LauncherType

\* One UPDATE of a column of the launcher's own row.
LEMMA SetStateType ==
  ASSUME TypeOK, NEW l \in Launcher, launcher[l].row \in Row, NEW s \in State,
         SetState(l, s)
  PROVE  coh' \in [Row -> RowType]
  BY DEF TypeOK, SetState, RowOf, RowType

LEMMA SetPidType ==
  ASSUME TypeOK, NEW l \in Launcher, launcher[l].row \in Row, NEW i \in Pid,
         SetPid(l, i)
  PROVE  coh' \in [Row -> RowType]
  BY DEF TypeOK, SetPid, RowOf, RowType

LEMMA SetStepType ==
  ASSUME TypeOK, NEW l \in Launcher, launcher[l].row \in Row, NEW f \in Flag,
         SetStep(l, f)
  PROVE  coh' \in [Row -> RowType]
  BY SMTT(30) DEF TypeOK, SetStep, RowOf, RowType, LauncherType

\* The operator's changes of a row.
LEMMA RowChangeType ==
  ASSUME NEW row \in RowType
  PROVE  /\ \A from : PauseRow(row, from) \in RowType
         /\ PlayRow(row) \in RowType
         /\ StopRow(row, NoPid) \in RowType
         /\ ResetRow(row, NoPid) \in RowType
  <1>1. NoPid \in Pid
    BY DEF Pid
  <1>2. \A from : PauseRow(row, from) \in RowType
    BY StateNames DEF PauseRow, RowType
  <1>3. PlayRow(row) \in RowType
    <2>1. [ph \in Phase |-> IF row.state = Failed[ph] THEN "TODO"
                                                     ELSE row.step[ph]]
             \in [Phase -> Flag]
      BY DEF RowType, Flag
    <2>2. QED
      BY <2>1, StateNames DEF PlayRow, RowType
  <1>4. StopRow(row, NoPid) \in RowType
    BY <1>1, StateNames DEF StopRow, RowType
  <1>5. ResetRow(row, NoPid) \in RowType
    BY <1>1 DEF ResetRow, RowType
  <1>6. QED
    BY <1>2, <1>3, <1>4, <1>5

LEMMA InitType == Init => TypeOK
  <1>1. \A r \in Row : NewRow(Command[r], NoPid) \in RowType
    BY CommandAssumption, StateNames
    DEF NewRow, RowType, CommandType, AllTodo, Flag, Pid
  <1>2. QED
    BY <1>1, IdleType, BoundAssumption
    DEF Init, TypeOK, OperatorType, WorkType, NoWork, Idle, Pid, Fits

\* What a launcher that takes a step works with.
LEMMA Context ==
  ASSUME TypeOK, NEW l \in Launcher, launcher[l].pc # "idle"
  PROVE  /\ RowOf(l) \in Row /\ launcher[l].row \in Row
         /\ launcher[l] \in LauncherType
         /\ coh[RowOf(l)] \in RowType /\ Cmd(l) \in CommandType
         /\ work[RowOf(l)] \in WorkType
         /\ l \in Pid /\ NoPid \in Pid
         /\ launcher[l].phase \in Phase
  BY CommandAssumption DEF TypeOK, RowOf, Cmd, Pid, LauncherType

LEMMA AfterPhaseType ==
  ASSUME TypeOK, NEW l \in Launcher, launcher[l].pc # "idle", AfterPhase(l)
  PROVE  LType
  <1> DEFINE p == IF launcher[l].phase = "delete" THEN "final" ELSE "decide"
             rec == [launcher[l] EXCEPT !.pc = p,
                       !.phase = NextPhase[launcher[l].phase], !.ok = FALSE]
  <1>1. rec \in LauncherType
    <2>1. p \in PC
      BY DEF PC
    <2>2. NextPhase[launcher[l].phase] \in Phase
      BY Context, PhaseNames
    <2>3. QED
      BY <2>1, <2>2, Context, PhaseField, Zenon
  <1>2. Fits(rec)
    BY Context DEF Fits, LauncherType
  <1>3. QED
    BY <1>1, <1>2, BecomeType DEF AfterPhase

\* What a phase that succeeds leaves behind.
LEMMA AchievedType ==
  ASSUME NEW w \in WorkType, NEW ph \in Phase
  PROVE  Achieved(w, ph) \in WorkType
  <1>1. [w EXCEPT !.up = TRUE] \in WorkType
    BY DEF WorkType
  <1>2. [w EXCEPT !.ran = @ + 1] \in WorkType
    BY DEF WorkType
  <1>3. QED
    BY <1>1, <1>2, Zenon DEF Achieved, Phase

\* A step of a launcher is well typed when its three effects are.
LEMMA EffectType ==
  ASSUME TypeOK, UNCHANGED <<pass, operator, clock>>,
         coh' \in [Row -> RowType], LType, work' \in [Row -> WorkType]
  PROVE  TypeOK'
  BY DEF TypeOK, LType, Fits

\* Each step of a launcher keeps the types.
LEMMA LauncherStepType ==
  ASSUME TypeOK, NEW l \in Launcher, LauncherStep(l) \/ Crash(l)
  PROVE  TypeOK'
  <1>1. launcher[l].pc # "idle"
    BY DEF LauncherStep, Crash, Live, At, Start, Claim, ConnFail, Free1, Free2,
        ConnectNot, ConnectHalted, ConnectLegacy, ConnectTry, Connecting, Reach,
        NoMac, Unreach, Dec, Retry, Check, Decide, Mark, MarkFlag, Run, Result,
        ResultFlag, Skip, SkipFlag, Final, SetDone, Resched, Update
  <1>2. /\ coh' = coh => coh' \in [Row -> RowType]
        /\ work' = work => work' \in [Row -> WorkType]
        /\ Become(l, Idle) => LType
        /\ AfterPhase(l) => LType
    BY <1>1, IdleType, BecomeType, AfterPhaseType DEF TypeOK, Idle, Fits
  <1>3. /\ \A p \in PC : Goto(l, p) /\ p \notin {"reach", "unreach", "dec"} => LType
        /\ \A p \in PC \ {"reach", "unreach", "dec"} : Leave(l, p) => LType
    BY <1>1, Context, GotoType, LeaveType
  <1>4. CASE Start(l)
    BY <1>2, <1>3, <1>4, EffectType DEF Start, PC
  <1>5. CASE Claim(l)
    <2>1. coh' \in [Row -> RowType]
      BY <1>1, <1>2, <1>5, Context, SetPidType DEF Claim
    <2>2. LType
      <3> DEFINE b == coh[RowOf(l)].next = 0
                 c == coh[RowOf(l)].next = 0 /\ coh[RowOf(l)].start # 0
                 rec == [launcher[l] EXCEPT !.pc = "connect",
                            !.att = coh[RowOf(l)].attempts, !.zero = b, !.legacy = c]
      <3>1. rec \in LauncherType
        <4>1. coh[RowOf(l)].attempts \in Nat
          BY <1>1, Context DEF RowType
        <4>2. b \in BOOLEAN /\ c \in BOOLEAN /\ "connect" \in PC
          BY DEF PC
        <4> HIDE DEF b, c
        <4>3. QED
          BY <1>1, <4>1, <4>2, Context, ClaimFields, Zenon DEF rec
      <3>2. Fits(rec)
        BY <1>1, Context DEF Fits, LauncherType
      <3>3. Become(l, rec) => LType
        BY <3>1, <3>2, BecomeType
      <3>4. Become(l, rec) \/ Leave(l, "free2")
        BY <1>5 DEF Claim
      <3>5. QED
        BY <1>3, <3>3, <3>4 DEF PC
    <2>3. QED
      BY <1>2, <1>5, <2>1, <2>2, EffectType DEF Claim
  <1>6. CASE ConnFail(l) \/ Free1(l) \/ Free2(l)
    <2>1. coh' \in [Row -> RowType]
      BY <1>1, <1>6, Context, SetPidType DEF ConnFail, Free1, Free2
    <2>2. QED
      BY <1>2, <1>3, <1>6, <2>1, EffectType DEF ConnFail, Free1, Free2, PC
  <1>7. CASE ConnectNot(l) \/ ConnectHalted(l)
    BY <1>2, <1>3, <1>7, EffectType DEF ConnectNot, ConnectHalted, PC
  <1>8. CASE ConnectLegacy(l)
    <2>1. coh' \in [Row -> RowType]
      BY <1>1, <1>8, Context DEF ConnectLegacy, TypeOK, RowType
    <2>2. QED
      BY <1>2, <1>3, <1>8, <2>1, EffectType DEF ConnectLegacy, PC
  <1>9. CASE ConnectTry(l)
    <2>1. LType
      BY <1>1, <1>9, Context, GotoType DEF ConnectTry, Connecting, PC
    <2>2. QED
      BY <1>2, <1>9, <2>1, EffectType DEF ConnectTry
  <1>10. CASE Reach(l)
    <2>1. coh' \in [Row -> RowType]
      BY <1>1, <1>10, Context, SetStateType, StateNames DEF Reach
    <2>2. LType
      <3> DEFINE rec == [launcher[l] EXCEPT !.pc = "check", !.sess = TRUE, !.zero = FALSE]
      <3>1. rec \in LauncherType
        BY <1>1, Context, SessionFields DEF PC
      <3>2. Fits(rec)
        BY <1>1, Context DEF Fits, LauncherType
      <3>3. QED
        BY <1>10, <3>1, <3>2, BecomeType DEF Reach
    <2>3. QED
      BY <1>2, <1>10, <2>1, <2>2, EffectType DEF Reach
  <1>11. CASE NoMac(l)
    <2>1. coh' \in [Row -> RowType]
      BY <1>1, <1>11, Context, SetStateType, StateNames DEF NoMac
    <2>2. QED
      BY <1>2, <1>3, <1>11, <2>1, EffectType DEF NoMac, PC
  <1>12. CASE Unreach(l)
    <2>1. coh' \in [Row -> RowType]
      BY <1>1, <1>12, Context, SetStateType, StateNames DEF Unreach
    <2>2. work' \in [Row -> WorkType]
      BY <1>1, <1>12, Context DEF Unreach, TypeOK, WorkType
    <2>3. LType
      BY <1>1, <1>12, Context, GotoType DEF Unreach, At, TypeOK, PC
    <2>4. QED
      BY <1>12, <2>1, <2>2, <2>3, EffectType DEF Unreach
  <1>13. CASE Dec(l)
    <2>1. launcher[l].att \in Nat /\ launcher[l].att - 1 \in Nat
      BY <1>1, <1>13, Context DEF Dec, At, TypeOK, LauncherType
    <2>2. coh' \in [Row -> RowType]
      BY <1>1, <1>13, <2>1, Context DEF Dec, TypeOK, RowType
    <2>3. LType
      <3> DEFINE n == launcher[l].att - 1
                 rec == [launcher[l] EXCEPT !.pc = "retry", !.att = n]
      <3>1. rec \in LauncherType
        <4> HIDE DEF n
        <4>1. n \in Nat
          BY <2>1 DEF n
        <4>2. QED
          BY <1>1, <4>1, Context, AttField, Zenon DEF PC
      <3>2. Fits(rec)
        BY <1>1, Context DEF Fits, LauncherType
      <3>3. QED
        BY <1>13, <3>1, <3>2, BecomeType DEF Dec
    <2>4. QED
      BY <1>2, <1>13, <2>2, <2>3, EffectType DEF Dec
  <1>14. CASE Retry(l)
    <2>1. coh' \in [Row -> RowType]
      <3> DEFINE base == IF launcher[l].zero THEN clock ELSE coh[RowOf(l)].next
                 n == IF launcher[l].att > 0 THEN base + Cmd(l).delay ELSE base
      <3>1. base \in Nat
        BY <1>1, Context DEF RowType, TypeOK
      <3>2. n \in Nat
        BY <1>1, <3>1, Context DEF CommandType
      <3>3. coh' = [coh EXCEPT ![RowOf(l)].next = n]
        BY <1>14 DEF Retry
      <3> HIDE DEF n
      <3>4. QED
        BY <1>1, <3>2, <3>3, Context DEF TypeOK, RowType
    <2>2. LType
      BY <1>3, <1>14 DEF Retry, PC
    <2>3. QED
      BY <1>2, <1>14, <2>1, <2>2, EffectType DEF Retry
  <1>15. CASE Check(l) \/ Decide(l) \/ Final(l) \/ Crash(l)
    BY <1>2, <1>3, <1>15, EffectType DEF Check, Decide, Final, Crash, PC
  <1>16. CASE Mark(l) \/ Result(l) \/ Skip(l) \/ SetDone(l)
    <2>1. coh' \in [Row -> RowType]
      BY <1>1, <1>16, Context, SetStateType, StateNames DEF Mark, Result, Skip, SetDone
    <2>2. QED
      BY <1>2, <1>3, <1>16, <2>1, EffectType DEF Mark, Result, Skip, SetDone, PC
  <1>17. CASE MarkFlag(l) \/ ResultFlag(l) \/ SkipFlag(l)
    <2>1. coh' \in [Row -> RowType]
      BY <1>1, <1>17, Context, SetStepType DEF MarkFlag, ResultFlag, SkipFlag, Flag
    <2>2. QED
      BY <1>2, <1>3, <1>17, <2>1, EffectType DEF MarkFlag, ResultFlag, SkipFlag, PC
  <1>18. CASE Run(l)
    <2>1. PICK ok \in BOOLEAN :
             /\ Become(l, [launcher[l] EXCEPT !.pc = "result", !.ok = ok])
             /\ work' = IF ok THEN [work EXCEPT ![RowOf(l)] =
                                      Achieved(@, launcher[l].phase)]
                              ELSE work
      BY <1>18 DEF Run
    <2>2. LType
      <3>1. [launcher[l] EXCEPT !.pc = "result", !.ok = ok] \in LauncherType
        BY <1>1, Context, OkField, Zenon DEF PC
      <3>2. Fits([launcher[l] EXCEPT !.pc = "result", !.ok = ok])
        BY <1>1, Context DEF Fits, LauncherType
      <3>3. QED
        BY <2>1, <3>1, <3>2, BecomeType
    <2>3. work' \in [Row -> WorkType]
      <3>1. Achieved(work[RowOf(l)], launcher[l].phase) \in WorkType
        BY <1>1, Context, AchievedType
      <3>2. QED
        BY <1>1, <2>1, <3>1, Context DEF TypeOK
    <2>4. QED
      BY <1>2, <1>18, <2>2, <2>3, EffectType DEF Run
  <1>19. CASE Resched(l)
    <2> DEFINE date == coh[RowOf(l)].start + Cmd(l).repeat
               s == [next |-> date, pid |-> coh[RowOf(l)].pid]
               rec == [launcher[l] EXCEPT !.pc = "update", !.snap = s]
    <2>1. date \in Nat /\ s \in [next: Nat, pid: Pid]
      BY <1>1, Context DEF RowType, CommandType
    <2>2. coh' \in [Row -> RowType]
      BY <1>1, <1>19, <2>1, Context DEF Resched, TypeOK, RowType
    <2>3. rec \in LauncherType
      <3> HIDE DEF s
      <3>1. QED
        BY <1>1, <2>1, Context, SnapField, Zenon DEF PC
    <2>4. Fits(rec)
      BY <1>1, Context DEF Fits, LauncherType
    <2>5. Become(l, rec) \/ Leave(l, AfterResched(l))
      BY <1>19 DEF Resched
    <2>6. LType
      BY <1>3, <2>3, <2>4, <2>5, BecomeType DEF AfterResched, PC
    <2>7. QED
      BY <1>2, <1>19, <2>2, <2>6, EffectType DEF Resched
  <1>20. CASE Update(l)
    <2>1. NextPeriod(coh[RowOf(l)], Cmd(l), launcher[l].snap) \in RowType
      <3>1. /\ launcher[l].snap.next \in Nat /\ launcher[l].snap.pid \in Pid
            /\ Cmd(l).attempts \in Nat /\ AllTodo \in [Phase -> Flag]
        BY <1>1, Context DEF LauncherType, CommandType, AllTodo, Flag
      <3>2. QED
        BY <1>1, <3>1, Context, StateNames DEF NextPeriod, RowType
    <2>2. coh' \in [Row -> RowType]
      BY <1>1, <1>20, <2>1, Context DEF Update, TypeOK
    <2>3. work' \in [Row -> WorkType]
      BY <1>1, <1>20, Context DEF Update, TypeOK, WorkType, NoWork
    <2>4. LType
      BY <1>3, <1>20 DEF Update, AfterResched, PC
    <2>5. QED
      BY <1>20, <2>2, <2>3, <2>4, EffectType DEF Update
  <1>21. QED
    BY <1>4, <1>5, <1>6, <1>7, <1>8, <1>9, <1>10, <1>11, <1>12, <1>13, <1>14, <1>15,
       <1>16, <1>17, <1>18, <1>19, <1>20 DEF LauncherStep

\* A record of the operator, field by field.
LEMMA OperatorFields ==
  ASSUME operator \in OperatorType, NEW a \in {"none", "kill", "stop", "play"},
         NEW r \in Row \cup {0}, NEW i \in Pid, NEW n \in Nat
  PROVE  /\ [operator EXCEPT !.act = a, !.row = r, !.left = n] \in OperatorType
         /\ [operator EXCEPT !.act = a, !.row = r, !.pid = i, !.left = n] \in OperatorType
         /\ [operator EXCEPT !.left = n] \in OperatorType
         /\ [operator EXCEPT !.act = a] \in OperatorType
         /\ [operator EXCEPT !.act = a, !.row = r] \in OperatorType
         /\ [operator EXCEPT !.act = a, !.row = r, !.pid = i] \in OperatorType
  BY DEF OperatorType

OType == /\ operator' \in OperatorType
         /\ operator'.act # "none" => operator'.row \in Row
         /\ operator'.act = "kill" => operator'.pid \in Launcher

\* A step of the operator is well typed when its effects are.
LEMMA OperatorEffectType ==
  ASSUME TypeOK, UNCHANGED <<pass, clock, work>>,
         coh' \in [Row -> RowType], LType, OType
  PROVE  TypeOK'
  BY DEF TypeOK, LType, Fits, OType


LEMMA StopSelectType ==
  ASSUME TypeOK, NEW r \in Row, operator.left > 0, StopSelect(r)
  PROVE  TypeOK'
  <1> DEFINE a == IF coh[r].pid = NoPid THEN "stop" ELSE "kill"
             i == coh[r].pid
             n == operator.left - 1
             rec == [operator EXCEPT !.act = a, !.row = r, !.pid = i, !.left = n]
  <1>1. i \in Pid /\ n \in Nat /\ a \in {"stop", "kill"} /\ (a = "kill" => i \in Launcher)
    BY DEF TypeOK, RowType, OperatorType, Pid
  <1>2. operator' = rec
    BY DEF StopSelect
  <1>3. OType
    <2> HIDE DEF a, i, n
    <2>1. operator' \in OperatorType
      BY <1>1, <1>2, OperatorFields DEF TypeOK
    <2>2. operator'.act = a /\ operator'.row = r /\ operator'.pid = i
      BY <1>2 DEF TypeOK, OperatorType
    <2>3. QED
      BY <1>1, <2>1, <2>2 DEF OType
  <1>4. QED
    BY <1>3, OperatorEffectType DEF StopSelect, TypeOK, LType, Fits

\* Each step of an operator keeps the types.
LEMMA OperatorStepType ==
  ASSUME TypeOK, Operator
  PROVE  TypeOK'
  <1>1. launcher' = launcher => LType
    BY DEF TypeOK, LType, Fits
  <1>2. Asked /\ operator.act = "none" /\ operator.left > 0 => OType
    BY DEF Asked, OType, TypeOK, OperatorType
  <1>3. ASSUME NEW r \in Row, HostPause(r)
        PROVE  TypeOK'
    <2>1. coh' \in [Row -> RowType]
      BY <1>3, RowChangeType DEF HostPause, TypeOK
    <2>2. QED
      BY <1>1, <1>2, <1>3, <2>1, OperatorEffectType DEF HostPause, Asks
  <1>4. ASSUME NEW r \in Row, HostPlayReset(r)
        PROVE  TypeOK'
    <2>1. coh' \in [Row -> RowType]
      BY <1>4, RowChangeType DEF HostPlayReset, TypeOK
    <2>2. OType
      <3> DEFINE n == operator.left - 1
      <3>1. n \in Nat
        BY <1>4 DEF HostPlayReset, Asks, TypeOK, OperatorType
      <3>2. operator' = [operator EXCEPT !.act = "play", !.row = r, !.left = n]
        BY <1>4 DEF HostPlayReset
      <3> HIDE DEF n
      <3>3. QED
        BY <3>1, <3>2 DEF OType, TypeOK, OperatorType
    <2>3. QED
      BY <1>1, <1>4, <2>1, <2>2, OperatorEffectType DEF HostPlayReset
  <1>5. ASSUME NEW r \in Row, HostStop(r)
        PROVE  TypeOK'
    BY <1>5, StopSelectType DEF HostStop, Asks
  <1>6. ASSUME NEW r \in Row, CommandPause(Command[r].id)
        PROVE  TypeOK'
    <2>1. coh' \in [Row -> RowType]
      BY <1>6, RowChangeType DEF CommandPause, TypeOK
    <2>2. QED
      BY <1>1, <1>2, <1>6, <2>1, OperatorEffectType DEF CommandPause, Asks
  <1>7. ASSUME NEW r \in Row, CommandPlay(Command[r].id)
        PROVE  TypeOK'
    <2>1. coh' \in [Row -> RowType]
      BY <1>7, RowChangeType DEF CommandPlay, TypeOK
    <2>2. QED
      BY <1>1, <1>2, <1>7, <2>1, OperatorEffectType DEF CommandPlay, Asks
  <1>8. ASSUME NEW r \in Row, CommandStop(Command[r].id)
        PROVE  TypeOK'
    BY <1>8, StopSelectType DEF CommandStop, Asks, RowsOf
  <1>9. CASE HostPlay
    <2>1. coh' \in [Row -> RowType]
      BY <1>9, RowChangeType DEF HostPlay, TypeOK
    <2>2. OType
      BY <1>9 DEF HostPlay, OType, TypeOK, OperatorType
    <2>3. QED
      BY <1>1, <1>9, <2>1, <2>2, OperatorEffectType DEF HostPlay
  <1>10. CASE StopKill
    <2>1. LType
      <3> DEFINE k == operator.pid
      <3>1. k \in Launcher
        BY <1>10 DEF StopKill, TypeOK
      <3>2. launcher' # launcher => Live(k) /\ Killed(k)
        BY <1>10 DEF StopKill
      <3> HIDE DEF k
      <3>3. ASSUME Live(k), Killed(k), launcher' # launcher
            PROVE  LType
        <4>1. launcher[k].pc # "idle"
          BY <3>3 DEF Live
        <4>2. CASE Leave(k, "dead")
          BY <3>1, <4>1, <4>2, Context, LeaveType DEF PC
        <4>3. CASE Become(k, [launcher[k] EXCEPT !.pc = "result", !.ok = FALSE])
          <5>1. [launcher[k] EXCEPT !.pc = "result", !.ok = FALSE] \in LauncherType
            BY <3>1, <4>1, Context, OkField, Zenon DEF PC
          <5>2. Fits([launcher[k] EXCEPT !.pc = "result", !.ok = FALSE])
            BY <3>1, <4>1, Context DEF Fits, LauncherType
          <5>3. QED
            BY <3>1, <4>3, <5>1, <5>2, BecomeType
        <4>4. QED
          BY <3>3, <4>2, <4>3 DEF Killed
      <3>4. QED
        BY <1>1, <3>2, <3>3
    <2>2. OType
      BY <1>10 DEF StopKill, OType, TypeOK, OperatorType
    <2>3. QED
      BY <1>10, <2>1, <2>2, OperatorEffectType DEF StopKill, TypeOK
  <1>11. CASE StopUpdate
    <2>1. coh' \in [Row -> RowType]
      BY <1>11, RowChangeType DEF StopUpdate, TypeOK
    <2>2. OType
      BY <1>11 DEF StopUpdate, OType, TypeOK, OperatorType, Pid
    <2>3. QED
      BY <1>1, <1>11, <2>1, <2>2, OperatorEffectType DEF StopUpdate
  <1>12. QED
    BY <1>3, <1>4, <1>5, <1>6, <1>7, <1>8, <1>9, <1>10, <1>11 DEF Operator

\* Passes and the clock.
LEMMA PassType ==
  ASSUME TypeOK, (\E p \in Pass : start_all_commands(p) \/ Spawn(p)) \/ Tick
  PROVE  TypeOK'
  <1>1. ASSUME NEW p \in Pass, start_all_commands(p)
        PROVE  TypeOK'
    BY <1>1 DEF start_all_commands, Due, TypeOK
  <1>2. ASSUME NEW p \in Pass, Spawn(p)
        PROVE  TypeOK'
    <2>1. PICK r \in pass[p], l \in Launcher :
             /\ Become(l, [Idle EXCEPT !.pc = "start", !.row = r])
             /\ pass' = [pass EXCEPT ![p] = @ \ {r}]
      BY <1>2 DEF Spawn
    <2>2. r \in Row
      BY DEF TypeOK
    <2>3. [Idle EXCEPT !.pc = "start", !.row = r] \in LauncherType
      BY <2>2, IdleType DEF LauncherType, Idle, PC
    <2>4. LType
      BY <2>1, <2>2, <2>3, BecomeType DEF Fits, Idle
    <2>5. pass' \in [Pass -> SUBSET Row]
      BY <2>1 DEF TypeOK
    <2>6. QED
      BY <1>2, <2>4, <2>5 DEF Spawn, TypeOK, LType, Fits
  <1>3. CASE Tick
    BY <1>3 DEF Tick, TypeOK
  <1>4. QED
    BY <1>1, <1>2, <1>3

LEMMA NextType == TypeOK /\ [Next]_vars => TypeOK'
  <1>1. TypeOK /\ UNCHANGED vars => TypeOK'
    BY DEF TypeOK, vars
  <1>2. TypeOK /\ Next => TypeOK'
    BY LauncherStepType, OperatorStepType, PassType DEF Next
  <1>3. QED
    BY <1>1, <1>2

\* Every reachable state is well typed, and number_attempt_connection_remains
\* never goes below 0, whatever the launchers, passes and operators do.
THEOREM TypeCorrect == Spec => []TypeOK
  <1>1. QED
    BY InitType, NextType, PTL DEF Spec

-----------------------------------------------------------------------------
(* The order of the phases on a host, proved for a command that is not     *)
(* repeated: any number of launchers on a row, any crash, any operator.    *)

\* The commands are not repeated: no launcher starts a period over.
Once == \A r \in Row : Command[r].repeat = 0

\* What the columns of a row say about the host is true.
Recorded(step, cmd, w) ==
    /\ step["upload"] = "DONE" => w.up
    /\ step["upload"] = "IGNORED" => ~cmd.files
    /\ step["execution"] = "DONE" => w.ran > 0
    /\ step["execution"] = "IGNORED" => ~cmd.script

\* What a launcher is about to do, or about to record, is justified by what
\* was done on the host.
Justified(rec, cmd, w) ==
    /\ rec.pc # "update"
    /\ rec.pc \in {"mark", "flag", "run"} =>
          /\ rec.phase = "execution" => ~cmd.files \/ w.up
          /\ rec.phase = "delete" => ~cmd.script \/ w.ran > 0
    /\ rec.pc \in {"result", "setflag"} /\ rec.ok =>
          /\ rec.phase = "upload" => w.up
          /\ rec.phase = "execution" => w.ran > 0
    /\ rec.pc \in {"skip", "skipflag"} =>
          /\ rec.phase = "upload" => ~cmd.files
          /\ rec.phase = "execution" => ~cmd.script

\* The inductive invariant.
OrderInv ==
    /\ \A r \in Row : Recorded(coh[r].step, Command[r], work[r])
    /\ \A l \in Launcher : launcher[l].pc # "idle" =>
          Justified(launcher[l], Command[launcher[l].row], work[launcher[l].row])

\* A launcher elsewhere has nothing to justify.
Elsewhere == PC \ {"update", "mark", "flag", "run", "result", "setflag", "skip",
                   "skipflag"}

LEMMA ElsewhereJustified ==
  ASSUME NEW rec, rec.pc \in Elsewhere, NEW cmd, NEW w
  PROVE  Justified(rec, cmd, w)
  BY DEF Elsewhere, Justified

\* What was done on a host stays done.
Grows == \A r \in Row : /\ work[r].up => work'[r].up
                        /\ work[r].ran > 0 => work'[r].ran > 0

StepsKept == \A r \in Row : coh'[r].step = coh[r].step

\* A step that turns flags to TODO at most, and leaves the launchers alone
\* or sends them elsewhere.
LEMMA OrderKept ==
  ASSUME OrderInv, Grows,
         \A r \in Row : \A ph \in Phase :
            coh'[r].step[ph] \in {coh[r].step[ph], "TODO", "WORK_IN_PROGRESS", "FAILED"},
         \A l \in Launcher : launcher'[l] = launcher[l] \/ launcher'[l].pc = "idle"
                             \/ Justified(launcher'[l], Command[launcher'[l].row],
                                          work'[launcher'[l].row]),
         \A l \in Launcher : launcher[l].pc # "idle" => launcher[l].row \in Row
  PROVE  OrderInv'
  <1>1. ASSUME NEW r \in Row
        PROVE  Recorded(coh'[r].step, Command[r], work'[r])
    <2>1. Recorded(coh[r].step, Command[r], work[r])
      BY DEF OrderInv
    <2>2. /\ coh'[r].step["upload"] \in {coh[r].step["upload"], "TODO",
                                          "WORK_IN_PROGRESS", "FAILED"}
          /\ coh'[r].step["execution"] \in {coh[r].step["execution"], "TODO",
                                             "WORK_IN_PROGRESS", "FAILED"}
      BY DEF Phase
    <2>3. QED
      BY <2>1, <2>2 DEF Recorded, Grows
  <1>2. ASSUME NEW l \in Launcher, launcher'[l].pc # "idle"
        PROVE  Justified(launcher'[l], Command[launcher'[l].row],
                         work'[launcher'[l].row])
    BY <1>2 DEF OrderInv, Justified, Grows
  <1>3. QED
    BY <1>1, <1>2 DEF OrderInv

\* A step of launcher l that makes it rec.
LEMMA OrderStep ==
  ASSUME TypeOK, OrderInv, Grows, NEW l \in Launcher, NEW rec, Become(l, rec),
         rec.pc = "idle" \/ Justified(rec, Command[rec.row], work'[rec.row]),
         \A r \in Row : \A ph \in Phase :
            coh'[r].step[ph] \in {coh[r].step[ph], "TODO", "WORK_IN_PROGRESS", "FAILED"}
  PROVE  OrderInv'
  BY OrderKept DEF TypeOK, Become

LEMMA WorkKept == work' = work => Grows
  BY DEF Grows

LEMMA StepsFit ==
  StepsKept => \A r \in Row : \A ph \in Phase :
     coh'[r].step[ph] \in {coh[r].step[ph], "TODO", "WORK_IN_PROGRESS", "FAILED"}
  BY DEF StepsKept

\* Every step of a launcher outside the phases, with the records it may become.
LEMMA OrderOutside ==
  ASSUME TypeOK, OrderInv, Grows, StepsKept, NEW l \in Launcher, NEW rec,
         Become(l, rec), rec.pc \in Elsewhere
  PROVE  OrderInv'
  BY OrderStep, ElsewhereJustified, StepsFit

LEMMA OrderGoto ==
  ASSUME TypeOK, OrderInv, Grows, StepsKept, NEW l \in Launcher,
         NEW p \in Elsewhere, Goto(l, p) \/ Leave(l, p)
  PROVE  OrderInv'
  <1>1. /\ [launcher[l] EXCEPT !.pc = p].pc = p
        /\ [Idle EXCEPT !.pc = p, !.row = launcher[l].row].pc = p
    BY DEF TypeOK, LauncherType, Idle
  <1>2. QED
    BY <1>1, OrderOutside DEF Goto, Leave

\* An UPDATE of another column leaves the flags alone.
LEMMA ColumnKept ==
  ASSUME TypeOK, NEW r \in Row
  PROVE  /\ \A v : coh' = [coh EXCEPT ![r].state = v] => StepsKept
         /\ \A v : coh' = [coh EXCEPT ![r].pid = v] => StepsKept
         /\ \A v : coh' = [coh EXCEPT ![r].next = v] => StepsKept
         /\ \A v : coh' = [coh EXCEPT ![r].attempts = v] => StepsKept
         /\ coh' = coh => StepsKept
  <1>1. ASSUME NEW v, coh' = [coh EXCEPT ![r].state = v] PROVE StepsKept
    BY <1>1 DEF TypeOK, RowType, StepsKept
  <1>2. ASSUME NEW v, coh' = [coh EXCEPT ![r].pid = v] PROVE StepsKept
    BY <1>2 DEF TypeOK, RowType, StepsKept
  <1>3. ASSUME NEW v, coh' = [coh EXCEPT ![r].next = v] PROVE StepsKept
    BY <1>3 DEF TypeOK, RowType, StepsKept
  <1>4. ASSUME NEW v, coh' = [coh EXCEPT ![r].attempts = v] PROVE StepsKept
    BY <1>4 DEF TypeOK, RowType, StepsKept
  <1>5. coh' = coh => StepsKept
    BY DEF StepsKept
  <1>6. QED
    BY <1>1, <1>2, <1>3, <1>4, <1>5, Zenon

\* The steps of a launcher outside the three phases.
LEMMA OrderConnect ==
  ASSUME TypeOK, OrderInv, Once, NEW l \in Launcher,
         \/ Start(l) \/ Claim(l) \/ ConnFail(l) \/ Free1(l) \/ Free2(l)
         \/ ConnectNot(l) \/ ConnectHalted(l) \/ ConnectLegacy(l) \/ ConnectTry(l)
         \/ Reach(l) \/ NoMac(l) \/ Dec(l) \/ Retry(l) \/ Check(l)
         \/ Final(l) \/ SetDone(l) \/ Resched(l) \/ Crash(l)
  PROVE  OrderInv'
  <1>1. launcher[l].pc # "idle"
    BY DEF Crash, Live, At, Start, Claim, ConnFail, Free1, Free2,
        ConnectNot, ConnectHalted, ConnectLegacy, ConnectTry, Connecting, Reach,
        NoMac, Dec, Retry, Check, Final, SetDone, Resched
  <1>2. Grows
    BY WorkKept DEF Crash, Start, Claim, ConnFail, Free1, Free2,
        ConnectNot, ConnectHalted, ConnectLegacy, ConnectTry, Reach,
        NoMac, Dec, Retry, Check, Final, SetDone, Resched
  <1>3. Cmd(l).repeat = 0
    BY <1>1, Context DEF Once, Cmd
  <1>4. StepsKept
    <2>1. CASE coh' = coh
      BY <2>1 DEF StepsKept
    <2>2. CASE \E v : SetState(l, v) \/ SetPid(l, v)
      BY <1>1, <2>2, Context, ColumnKept, Zenon DEF SetState, SetPid
    <2>3. CASE \E v : \/ coh' = [coh EXCEPT ![RowOf(l)].next = v]
                      \/ coh' = [coh EXCEPT ![RowOf(l)].attempts = v]
      BY <1>1, <2>3, Context, ColumnKept, Zenon
    <2>4. QED
      BY <1>3, <2>1, <2>2, <2>3, Zenon
      DEF Crash, Start, Claim, ConnFail, Free1, Free2,
        ConnectNot, ConnectHalted, ConnectLegacy, ConnectTry, Reach,
        NoMac, Dec, Retry, Check, Final, SetDone, Resched
  <1>5. \A p \in Elsewhere : Goto(l, p) \/ Leave(l, p) => OrderInv'
    BY <1>2, <1>4, OrderGoto
  <1>6. CASE Claim(l) \/ Start(l) \/ Free2(l)
    <2>1. Become(l, Idle) => OrderInv'
      BY <1>2, <1>4, OrderOutside DEF Idle, Elsewhere, PC
    <2>2. ASSUME NEW n, NEW z, NEW y,
                 Become(l, [launcher[l] EXCEPT !.pc = "connect", !.att = n,
                                               !.zero = z, !.legacy = y])
          PROVE  OrderInv'
      <3>1. [launcher[l] EXCEPT !.pc = "connect", !.att = n,
                                !.zero = z, !.legacy = y].pc = "connect"
        BY <1>1, Context DEF LauncherType
      <3>2. QED
        BY <1>2, <1>4, <2>2, <3>1, OrderOutside DEF Elsewhere, PC
    <2>3. QED
      BY <1>5, <1>6, <2>1, <2>2, Zenon DEF Claim, Start, Free2, Elsewhere, PC
  <1>7. CASE Reach(l) \/ Dec(l)
    <2>1. /\ [launcher[l] EXCEPT !.pc = "check", !.sess = TRUE,
                                 !.zero = FALSE].pc = "check"
          /\ [launcher[l] EXCEPT !.pc = "retry", !.att = @ - 1].pc = "retry"
      BY <1>1, Context DEF LauncherType
    <2>2. QED
      BY <1>2, <1>4, <1>7, <2>1, OrderOutside DEF Reach, Dec, Elsewhere, PC
  <1>8. QED
    BY <1>3, <1>5, <1>6, <1>7
    DEF Crash, ConnFail, Free1, ConnectNot, ConnectHalted, ConnectLegacy, ConnectTry,
        NoMac, Retry, Check, Final, SetDone, Resched, AfterResched, Elsewhere, PC

LEMMA OrderUnreach ==
  ASSUME TypeOK, OrderInv, NEW l \in Launcher, Unreach(l)
  PROVE  OrderInv'
  <1>1. launcher[l].pc # "idle"
    BY DEF Unreach, At
  <1>2. Grows
    BY <1>1, Context DEF Unreach, Grows, TypeOK, WorkType
  <1>3. StepsKept
    BY <1>1, Context, ColumnKept, Zenon DEF Unreach, SetState
  <1>4. QED
    BY <1>2, <1>3, OrderGoto DEF Unreach, Elsewhere, PC

LEMMA OrderAfterPhase ==
  ASSUME TypeOK, OrderInv, NEW l \in Launcher, launcher[l].pc # "idle",
         AfterPhase(l), Grows,
         \A r \in Row : Recorded(coh'[r].step, Command[r], work'[r])
  PROVE  OrderInv'
  <1>1. launcher'[l].pc \in Elsewhere
    BY Context DEF AfterPhase, Become, TypeOK, LauncherType, Elsewhere, PC
  <1>2. \A m \in Launcher : m # l => launcher'[m] = launcher[m]
    BY DEF AfterPhase, Become, TypeOK
  <1>3. ASSUME NEW m \in Launcher, launcher'[m].pc # "idle"
        PROVE  Justified(launcher'[m], Command[launcher'[m].row],
                         work'[launcher'[m].row])
    <2>1. CASE m = l
      BY <1>1, <2>1, ElsewhereJustified
    <2>2. CASE m # l
      BY <1>2, <1>3, <2>2 DEF OrderInv, Justified, Grows, TypeOK
    <2>3. QED
      BY <2>1, <2>2
  <1>4. QED
    BY <1>3 DEF OrderInv

\* The test in front of a phase: what the columns say is true of the host.
LEMMA OrderDecide ==
  ASSUME TypeOK, OrderInv, NEW l \in Launcher, Decide(l)
  PROVE  OrderInv'
  <1>1. launcher[l].pc # "idle"
    BY DEF Decide, At
  <1>2. Grows /\ StepsKept
    BY WorkKept DEF Decide, StepsKept
  <1>3. Recorded(coh[RowOf(l)].step, Cmd(l), work[RowOf(l)])
    BY <1>1, Context DEF OrderInv, Cmd
  <1>4. CASE Wanted(l) /\ Goto(l, IF Enabled(l) THEN "mark" ELSE "skip")
    <2> DEFINE p == IF Enabled(l) THEN "mark" ELSE "skip"
               rec == [launcher[l] EXCEPT !.pc = p]
    <2>1. rec.pc = p /\ rec.row = RowOf(l) /\ rec.phase = launcher[l].phase
      BY <1>1, Context DEF LauncherType, RowOf
    <2>2. Justified(rec, Cmd(l), work[RowOf(l)])
      <3> HIDE DEF rec
      <3>1. CASE launcher[l].phase = "upload"
        BY <1>3, <2>1, <3>1 DEF Justified, Enabled
      <3>2. CASE launcher[l].phase = "execution"
        BY <1>3, <1>4, <2>1, <3>2 DEF Justified, Enabled, Wanted, Recorded, Finished
      <3>3. CASE launcher[l].phase = "delete"
        BY <1>3, <1>4, <2>1, <3>3 DEF Justified, Enabled, Wanted, Recorded, Finished
      <3>4. QED
        BY <1>1, <3>1, <3>2, <3>3, Context DEF Phase
    <2>3. QED
      BY <1>2, <1>4, <2>1, <2>2, OrderStep, StepsFit DEF Decide, Goto, Cmd, RowOf
  <1>5. CASE AfterPhase(l)
    <2>1. \A r \in Row : Recorded(coh'[r].step, Command[r], work'[r])
      BY DEF OrderInv, Decide
    <2>2. QED
      BY <1>1, <1>2, <1>5, <2>1, OrderAfterPhase
  <1>6. QED
    BY <1>4, <1>5 DEF Decide

\* The UPDATEs of current_state: the launcher goes on to the column.
LEMMA OrderState ==
  ASSUME TypeOK, OrderInv, NEW l \in Launcher, Mark(l) \/ Result(l) \/ Skip(l)
  PROVE  OrderInv'
  <1>1. launcher[l].pc # "idle"
    BY DEF Mark, Result, Skip, At
  <1>2. Grows
    BY WorkKept DEF Mark, Result, Skip
  <1>3. StepsKept
    BY <1>1, Context, ColumnKept, Zenon DEF Mark, Result, Skip, SetState
  <1>4. PICK p \in {"flag", "setflag", "skipflag"} :
           /\ Goto(l, p)
           /\ p = "flag" => launcher[l].pc = "mark"
           /\ p = "setflag" => launcher[l].pc = "result"
           /\ p = "skipflag" => launcher[l].pc = "skip"
    BY DEF Mark, Result, Skip, At
  <1> DEFINE rec == [launcher[l] EXCEPT !.pc = p]
  <1>5. /\ rec.pc = p /\ rec.row = launcher[l].row /\ rec.ok = launcher[l].ok
        /\ rec.phase = launcher[l].phase
    BY <1>1, Context DEF LauncherType
  <1>6. Justified(launcher[l], Command[launcher[l].row], work[launcher[l].row])
    BY <1>1 DEF OrderInv
  <1>7. work' = work
    BY DEF Mark, Result, Skip
  <1>8. Justified(rec, Command[rec.row], work'[rec.row])
    <2> HIDE DEF rec
    <2>1. QED
      BY <1>4, <1>5, <1>6, <1>7 DEF Justified
  <1>9. QED
    BY <1>2, <1>3, <1>4, <1>8, OrderStep, StepsFit DEF Goto

LEMMA OrderFlag ==
  ASSUME TypeOK, OrderInv, NEW l \in Launcher, MarkFlag(l)
  PROVE  OrderInv'
  <1>1. launcher[l].pc # "idle"
    BY DEF MarkFlag, At
  <1>2. Grows
    BY WorkKept DEF MarkFlag
  <1>3. \A r \in Row : \A ph \in Phase :
            coh'[r].step[ph] \in {coh[r].step[ph], "TODO", "WORK_IN_PROGRESS", "FAILED"}
    BY <1>1, Context DEF MarkFlag, SetStep, TypeOK, RowType
  <1> DEFINE rec == [launcher[l] EXCEPT !.pc = "run"]
  <1>4. rec.pc = "run" /\ rec.row = launcher[l].row /\ rec.phase = launcher[l].phase
    BY <1>1, Context DEF LauncherType
  <1>5. Justified(launcher[l], Command[launcher[l].row], work[launcher[l].row])
    BY <1>1 DEF OrderInv
  <1>6. Justified(rec, Command[rec.row], work'[rec.row])
    <2> HIDE DEF rec
    <2>1. QED
      BY <1>4, <1>5 DEF Justified, MarkFlag, At
  <1>7. QED
    BY <1>2, <1>3, <1>6, OrderStep DEF MarkFlag, Goto

\* The remote command: success is recorded as work done on the host.
LEMMA OrderRun ==
  ASSUME TypeOK, OrderInv, NEW l \in Launcher, Run(l)
  PROVE  OrderInv'
  <1>1. launcher[l].pc # "idle"
    BY DEF Run, At
  <1>2. PICK ok \in BOOLEAN :
           /\ Become(l, [launcher[l] EXCEPT !.pc = "result", !.ok = ok])
           /\ work' = IF ok THEN [work EXCEPT ![RowOf(l)] =
                                    Achieved(@, launcher[l].phase)]
                            ELSE work
    BY DEF Run
  <1> DEFINE w == work[RowOf(l)]
             ph == launcher[l].phase
             a == Achieved(w, ph)
  <1>3. /\ w.up => a.up
        /\ w.ran > 0 => a.ran > 0
        /\ ph = "upload" => a.up
        /\ ph = "execution" => a.ran > 0
    <2>1. w \in WorkType /\ ph \in Phase
      BY <1>1, Context
    <2>2. CASE ph = "upload"
      BY <2>1, <2>2 DEF Achieved, WorkType
    <2>3. CASE ph = "execution"
      <3>1. a = [w EXCEPT !.ran = @ + 1]
        BY <2>3 DEF Achieved
      <3>2. QED
        BY <2>1, <2>3, <3>1 DEF WorkType
    <2>4. CASE ph = "delete"
      <3>1. a = w
        BY <2>4 DEF Achieved
      <3>2. QED
        BY <2>4, <3>1
    <2>5. QED
      BY <2>1, <2>2, <2>3, <2>4 DEF Phase
  <1>4. ok => work'[RowOf(l)] = a
    BY <1>1, <1>2, Context DEF TypeOK
  <1>5. Grows
    <2>1. CASE ok
      <3>1. \A r \in Row : r # RowOf(l) => work'[r] = work[r]
        BY <1>2, <2>1 DEF TypeOK
      <3>2. QED
        BY <1>3, <1>4, <2>1, <3>1 DEF Grows
    <2>2. CASE ~ok
      BY <1>2, <2>2, WorkKept
    <2>3. QED
      BY <2>1, <2>2
  <1> DEFINE rec == [launcher[l] EXCEPT !.pc = "result", !.ok = ok]
  <1>6. rec.pc = "result" /\ rec.row = RowOf(l) /\ rec.phase = ph /\ rec.ok = ok
    BY <1>1, Context DEF LauncherType, RowOf
  <1>7. Justified(rec, Command[rec.row], work'[rec.row])
    <2> HIDE DEF rec, a, w, ph
    <2>1. QED
      BY <1>3, <1>4, <1>6 DEF Justified
  <1>8. StepsKept
    BY DEF Run, StepsKept
  <1>9. QED
    BY <1>2, <1>5, <1>7, <1>8, OrderStep, StepsFit

\* The result of a phase in its column.
LEMMA OrderResult ==
  ASSUME TypeOK, OrderInv, NEW l \in Launcher, ResultFlag(l) \/ SkipFlag(l)
  PROVE  OrderInv'
  <1>1. launcher[l].pc # "idle"
    BY DEF ResultFlag, SkipFlag, At
  <1>2. Grows /\ work' = work
    BY WorkKept DEF ResultFlag, SkipFlag
  <1>3. Justified(launcher[l], Command[launcher[l].row], work[launcher[l].row])
    BY <1>1 DEF OrderInv
  <1>4. PICK f \in {"DONE", "FAILED", "IGNORED"} :
           /\ SetStep(l, f)
           /\ f = "DONE" => launcher[l].pc = "setflag" /\ launcher[l].ok
           /\ f = "IGNORED" => launcher[l].pc = "skipflag"
           /\ AfterPhase(l) \/ (Leave(l, "free1") /\ f = "FAILED")
    BY DEF ResultFlag, SkipFlag, At
  <1>5. ASSUME NEW r \in Row
        PROVE  Recorded(coh'[r].step, Command[r], work'[r])
    <2>1. Recorded(coh[r].step, Command[r], work[r])
      BY DEF OrderInv
    <2>2. CASE r # RowOf(l)
      <3>1. coh'[r] = coh[r]
        BY <1>4, <2>2 DEF SetStep, TypeOK
      <3>2. QED
        BY <1>2, <2>1, <3>1
    <2>3. CASE r = RowOf(l)
      <3>1. coh'[r].step = [coh[r].step EXCEPT ![launcher[l].phase] = f]
        BY <1>4, <2>3 DEF SetStep, TypeOK, RowType
      <3>2. coh[r].step \in [Phase -> Flag] /\ launcher[l].phase \in Phase
        BY <1>1, Context DEF TypeOK, RowType
      <3>3. \A ph \in Phase : coh'[r].step[ph] = IF ph = launcher[l].phase THEN f
                                                ELSE coh[r].step[ph]
        BY <3>1, <3>2
      <3>4. /\ coh'[r].step["upload"] = IF launcher[l].phase = "upload" THEN f
                                         ELSE coh[r].step["upload"]
            /\ coh'[r].step["execution"] = IF launcher[l].phase = "execution" THEN f
                                            ELSE coh[r].step["execution"]
        BY <3>3 DEF Phase
      <3>5. QED
        BY <1>2, <1>3, <1>4, <2>1, <2>3, <3>4 DEF Justified, Recorded, RowOf
    <2>4. QED
      BY <2>2, <2>3
  <1>6. CASE AfterPhase(l)
    BY <1>1, <1>2, <1>5, <1>6, OrderAfterPhase
  <1>7. CASE Leave(l, "free1") /\ f = "FAILED"
    <2>1. \A r \in Row : \A ph \in Phase :
            coh'[r].step[ph] \in {coh[r].step[ph], "TODO", "WORK_IN_PROGRESS", "FAILED"}
      BY <1>1, <1>4, <1>7, Context DEF SetStep, TypeOK, RowType
    <2>2. [Idle EXCEPT !.pc = "free1", !.row = launcher[l].row].pc \in Elsewhere
      BY DEF Idle, Elsewhere, PC
    <2>3. QED
      BY <1>2, <1>7, <2>1, <2>2, OrderStep, ElsewhereJustified DEF Leave
  <1>8. QED
    BY <1>4, <1>6, <1>7

LEMMA OrderLauncher ==
  ASSUME TypeOK, OrderInv, Once, NEW l \in Launcher, LauncherStep(l) \/ Crash(l)
  PROVE  OrderInv'
  <1>1. ~Update(l)
    BY DEF OrderInv, Justified, Update, At
  <1>2. QED
    BY <1>1, OrderConnect, OrderUnreach, OrderDecide, OrderState, OrderFlag, OrderRun,
       OrderResult DEF LauncherStep

\* Passes start launchers at "start"; a killed launcher is dead, or takes the
\* killed ssh for a failure; play turns FAILED to TODO.
LEMMA OrderOthers ==
  ASSUME TypeOK, OrderInv,
         \/ \E p \in Pass : start_all_commands(p) \/ Spawn(p)
         \/ Operator \/ Tick
  PROVE  OrderInv'
  <1>1. work' = work
    BY DEF start_all_commands, Spawn, Operator, Tick, HostPause, HostPlayReset,
           HostStop, StopSelect, CommandPause, CommandPlay, CommandStop, HostPlay,
           StopKill, StopUpdate
  <1>2. Grows
    BY <1>1, WorkKept
  <1>3. \A l \in Launcher : launcher[l].pc # "idle" => launcher[l].row \in Row
    BY DEF TypeOK
  <1>4. /\ \A row \in RowType : \A from : PauseRow(row, from).step = row.step
        /\ \A row \in RowType : /\ StopRow(row, NoPid).step = row.step
                                /\ ResetRow(row, NoPid).step = row.step
                                /\ \A ph \in Phase :
                                     PlayRow(row).step[ph] \in {row.step[ph], "TODO"}
    <2>1. ASSUME NEW row \in RowType, NEW from
          PROVE  PauseRow(row, from).step = row.step
      BY DEF PauseRow, RowType
    <2>2. ASSUME NEW row \in RowType
          PROVE  StopRow(row, NoPid).step = row.step
      BY DEF StopRow, RowType
    <2>3. ASSUME NEW row \in RowType
          PROVE  ResetRow(row, NoPid).step = row.step
      BY DEF ResetRow, RowType
    <2>4. ASSUME NEW row \in RowType, NEW ph \in Phase
          PROVE  PlayRow(row).step[ph] \in {row.step[ph], "TODO"}
      <3> DEFINE st == [q \in Phase |-> IF row.state = Failed[q] THEN "TODO"
                                                                ELSE row.step[q]]
      <3>1. st[ph] \in {row.step[ph], "TODO"}
        OBVIOUS
      <3>2. CASE row.state \in Restartable
        <4>1. PlayRow(row) = [row EXCEPT !.state = "scheduled", !.step = st]
          BY <3>2 DEF PlayRow
        <4> HIDE DEF st
        <4>2. PlayRow(row).step = st
          BY <4>1 DEF RowType
        <4>3. QED
          BY <3>1, <4>2
      <3>3. CASE row.state \notin Restartable
        BY <3>3 DEF PlayRow
      <3>4. QED
        BY <3>2, <3>3
    <2>5. QED
      BY <2>1, <2>2, <2>3, <2>4
  <1>5. \A r \in Row : \A ph \in Phase :
            coh'[r].step[ph] \in {coh[r].step[ph], "TODO", "WORK_IN_PROGRESS", "FAILED"}
    <2>1. \A r \in Row : coh[r] \in RowType
      BY DEF TypeOK
    <2>2. CASE coh' = coh
      BY <2>2
    <2>3. ASSUME NEW r \in Row, NEW q \in Row, NEW ph \in Phase,
                 \/ HostPause(q) \/ HostPlayReset(q)
                 \/ CommandPause(Command[q].id) \/ CommandPlay(Command[q].id)
          PROVE  coh'[r].step[ph] \in {coh[r].step[ph], "TODO"}
      <3>1. \/ coh'[r] = coh[r]
            \/ coh'[r] = PauseRow(coh[r], Pausable)
            \/ coh'[r] = ResetRow(coh[r], NoPid)
            \/ coh'[r] = PauseRow(coh[r], {"scheduled"})
            \/ coh'[r] = PlayRow(coh[r])
        BY <2>3 DEF HostPause, HostPlayReset, CommandPause, CommandPlay, TypeOK
      <3>2. QED
        BY <1>4, <2>1, <3>1
    <2>4. ASSUME NEW r \in Row, NEW ph \in Phase, HostPlay \/ StopUpdate
          PROVE  coh'[r].step[ph] \in {coh[r].step[ph], "TODO"}
      <3>1. \/ coh'[r] = coh[r]
            \/ coh'[r] = PlayRow(coh[r])
            \/ coh'[r] = StopRow(coh[r], NoPid)
        BY <2>4 DEF HostPlay, StopUpdate, TypeOK
      <3>2. QED
        BY <1>4, <2>1, <3>1
    <2>5. QED
      BY <2>2, <2>3, <2>4
      DEF start_all_commands, Spawn, Operator, Tick, HostStop, StopSelect, CommandStop,
          StopKill
  <1>6. \A l \in Launcher :
           \/ launcher'[l] = launcher[l] \/ launcher'[l].pc = "idle"
           \/ Justified(launcher'[l], Command[launcher'[l].row], work'[launcher'[l].row])
    <2>1. CASE launcher' = launcher
      BY <2>1
    <2>2. ASSUME NEW p \in Pass, Spawn(p), NEW l \in Launcher
          PROVE  launcher'[l] = launcher[l] \/ launcher'[l].pc \in Elsewhere
      <3>1. PICK r \in pass[p], m \in Launcher :
               Become(m, [Idle EXCEPT !.pc = "start", !.row = r])
        BY <2>2 DEF Spawn
      <3>2. QED
        BY <3>1 DEF Become, TypeOK, Idle, Elsewhere, PC
    <2>3. ASSUME StopKill, NEW l \in Launcher
          PROVE  \/ launcher'[l] = launcher[l]
                 \/ launcher'[l].pc \in Elsewhere
                 \/ launcher'[l].pc = "result" /\ ~launcher'[l].ok
      <3> DEFINE k == operator.pid
      <3>1. launcher' = launcher \/ Killed(k)
        BY <2>3 DEF StopKill
      <3> HIDE DEF k
      <3>2. CASE Leave(k, "dead")
        BY <3>2 DEF Leave, Become, TypeOK, Idle, Elsewhere, PC
      <3>3. CASE Become(k, [launcher[k] EXCEPT !.pc = "result", !.ok = FALSE])
        <4>1. CASE l # k
          BY <3>3, <4>1 DEF Become, TypeOK
        <4>2. CASE l = k
          BY <3>3, <4>2 DEF Become, TypeOK, LauncherType
        <4>3. QED
          BY <4>1, <4>2
      <3>4. QED
        BY <3>1, <3>2, <3>3 DEF Killed
    <2>4. ASSUME NEW rec, rec.pc = "result", ~rec.ok, NEW cmd, NEW w
          PROVE  Justified(rec, cmd, w)
      BY <2>4 DEF Justified
    <2>5. QED
      BY <2>1, <2>2, <2>3, <2>4, ElsewhereJustified
      DEF start_all_commands, Operator, Tick, HostStop, StopSelect, CommandStop,
          HostPause, HostPlayReset, CommandPause, CommandPlay, HostPlay, StopUpdate
  <1>7. QED
    BY <1>2, <1>3, <1>5, <1>6, OrderKept

LEMMA OrderInit == Init => OrderInv
  BY DEF Init, OrderInv, Recorded, Justified, NewRow, AllTodo, Phase, Idle

LEMMA OrderNext ==
  ASSUME Once
  PROVE  TypeOK /\ OrderInv /\ [Next]_vars => OrderInv'
  <1>1. TypeOK /\ OrderInv /\ Next => OrderInv'
    BY OrderLauncher, OrderOthers DEF Next
  <1>2. OrderInv /\ UNCHANGED vars => OrderInv'
    BY DEF OrderInv, vars
  <1>3. QED
    BY <1>1, <1>2

LEMMA OrderImplies == TypeOK /\ OrderInv => UploadedFirst /\ RanBeforeDelete
  BY DEF TypeOK, OrderInv, Justified, UploadedFirst, RanBeforeDelete, At, Cmd, RowOf

\* The script of a command that is not repeated is started only where its
\* files were copied, for any number of hosts, launchers on one row, passes,
\* crashes and presses of play, pause and stop.
THEOREM FilesBeforeScript ==
  ASSUME Once
  PROVE  Spec => []UploadedFirst
  <1>1. TypeOK /\ OrderInv /\ [Next]_vars => OrderInv'
    BY OrderNext
  <1>2. QED
    BY <1>1, TypeCorrect, OrderInit, OrderImplies, PTL DEF Spec

\* ... and its files are deleted only after the script has succeeded.
THEOREM ScriptBeforeDelete ==
  ASSUME Once
  PROVE  Spec => []RanBeforeDelete
  <1>1. TypeOK /\ OrderInv /\ [Next]_vars => OrderInv'
    BY OrderNext
  <1>2. QED
    BY <1>1, TypeCorrect, OrderInit, OrderImplies, PTL DEF Spec

-----------------------------------------------------------------------------
(* Who holds a row: current_pid is a process that works on the row, one    *)
(* that a stop has killed and is about to clear, or one that has died at   *)
(* work.  Proved for commands that are not repeated: update() writes back  *)
(* a current_pid it has read before.                                       *)

\* A launcher that has claimed its row.
Holding == PC \ {"idle", "start", "claim", "dead"}

\* Process i may be the current_pid of row r: it works on r, or it was killed
\* by a stop of r or died of itself.
MayHold(i, r) ==
    /\ launcher[i].row = r
    /\ \/ launcher[i].pc \in Holding
       \/ /\ launcher[i].pc = "dead"
          /\ CanCrash \/ (operator.act = "stop" /\ operator.row = r)

\* The inductive invariant.
ClaimInv == \A r \in Row : coh[r].pid # NoPid => MayHold(coh[r].pid, r)

\* A launcher at p goes on or leaves, and remains who it was.
LEMMA HoldGoes ==
  ASSUME TypeOK, NEW l \in Launcher, launcher[l].pc # "idle", NEW p \in PC,
         Goto(l, p) \/ Leave(l, p)
  PROVE  launcher'[l].row = launcher[l].row /\ launcher'[l].pc = p
  BY ZenonT(30) DEF TypeOK, LauncherType, Goto, Leave, Become, Idle

\* Nobody else moves.
LEMMA OnlyOne ==
  ASSUME TypeOK, NEW l \in Launcher, NEW rec, Become(l, rec)
  PROVE  launcher'[l] = rec /\ \A m \in Launcher : m # l => launcher'[m] = launcher[m]
  BY DEF TypeOK, Become

\* A step that gives no row to anyone: rows keep their pid or lose it, and
\* the holders stay holders.
LEMMA ClaimKept ==
  ASSUME TypeOK, ClaimInv,
         \A r \in Row : coh'[r].pid \in {coh[r].pid, NoPid},
         \A r \in Row : coh'[r].pid # NoPid /\ MayHold(coh[r].pid, r)
                        => MayHold(coh[r].pid, r)'
  PROVE  ClaimInv'
  BY DEF ClaimInv, MayHold

\* The pids after one UPDATE.
LEMMA PidKept ==
  ASSUME TypeOK, NEW l \in Launcher, RowOf(l) \in Row
  PROVE  /\ \A v : SetState(l, v) => \A r \in Row : coh'[r].pid = coh[r].pid
         /\ \A v : SetStep(l, v) => \A r \in Row : coh'[r].pid = coh[r].pid
         /\ \A v : coh' = [coh EXCEPT ![RowOf(l)].next = v]
                   => \A r \in Row : coh'[r].pid = coh[r].pid
         /\ \A v : coh' = [coh EXCEPT ![RowOf(l)].attempts = v]
                   => \A r \in Row : coh'[r].pid = coh[r].pid
         /\ \A v : SetPid(l, v) => \A r \in Row :
                      coh'[r].pid = IF r = RowOf(l) THEN v ELSE coh[r].pid
  <1>1. ASSUME NEW v, SetState(l, v) PROVE \A r \in Row : coh'[r].pid = coh[r].pid
    BY <1>1 DEF TypeOK, RowType, SetState
  <1>2. ASSUME NEW v, SetStep(l, v) PROVE \A r \in Row : coh'[r].pid = coh[r].pid
    BY <1>2 DEF TypeOK, RowType, SetStep
  <1>3. ASSUME NEW v, coh' = [coh EXCEPT ![RowOf(l)].next = v]
        PROVE  \A r \in Row : coh'[r].pid = coh[r].pid
    BY <1>3 DEF TypeOK, RowType
  <1>4. ASSUME NEW v, coh' = [coh EXCEPT ![RowOf(l)].attempts = v]
        PROVE  \A r \in Row : coh'[r].pid = coh[r].pid
    BY <1>4 DEF TypeOK, RowType
  <1>5. ASSUME NEW v, SetPid(l, v)
        PROVE  \A r \in Row : coh'[r].pid = IF r = RowOf(l) THEN v ELSE coh[r].pid
    BY <1>5 DEF TypeOK, RowType, SetPid
  <1>6. QED
    BY <1>1, <1>2, <1>3, <1>4, <1>5, Zenon

\* A launcher that holds a row and stays in Holding.
LEMMA ClaimStays ==
  ASSUME TypeOK, ClaimInv, NEW l \in Launcher, NEW rec, Become(l, rec),
         rec.row = launcher[l].row, rec.pc \in Holding, operator' = operator,
         \A r \in Row : coh'[r].pid \in {coh[r].pid, NoPid}
  PROVE  ClaimInv'
  <1>1. launcher'[l] = rec /\ \A m \in Launcher : m # l => launcher'[m] = launcher[m]
    BY OnlyOne
  <1>2. \A r \in Row : coh[r].pid # NoPid => coh[r].pid \in Launcher
    BY DEF TypeOK, RowType, Pid
  <1>3. ASSUME NEW r \in Row, coh'[r].pid # NoPid, MayHold(coh[r].pid, r)
        PROVE  MayHold(coh[r].pid, r)'
    <2>1. coh'[r].pid = coh[r].pid
      BY <1>3
    <2>2. MayHold(coh[r].pid, r)' <=>
             /\ launcher'[coh'[r].pid].row = r
             /\ \/ launcher'[coh'[r].pid].pc \in Holding
                \/ /\ launcher'[coh'[r].pid].pc = "dead"
                   /\ CanCrash \/ (operator'.act = "stop" /\ operator'.row = r)
      BY DEF MayHold
    <2>3. QED
      BY <1>1, <1>2, <1>3, <2>1, <2>2 DEF MayHold
  <1>4. QED
    BY <1>3, ClaimKept

\* The steps of a launcher that has its row and keeps or gives back it.
LEMMA ClaimWork ==
  ASSUME TypeOK, OrderInv, Once, ClaimInv, NEW l \in Launcher,
         \/ ConnFail(l) \/ Free1(l)
         \/ ConnectNot(l) \/ ConnectHalted(l) \/ ConnectLegacy(l) \/ ConnectTry(l)
         \/ Reach(l) \/ NoMac(l) \/ Unreach(l) \/ Dec(l) \/ Retry(l) \/ Check(l)
         \/ Decide(l) \/ Mark(l) \/ MarkFlag(l) \/ Run(l) \/ Result(l)
         \/ ResultFlag(l) \/ Skip(l) \/ SkipFlag(l) \/ Final(l) \/ SetDone(l)
         \/ Resched(l)
  PROVE  ClaimInv'
  <1>1. launcher[l].pc # "idle"
    BY DEF At, ConnFail, Free1, ConnectNot, ConnectHalted, ConnectLegacy, ConnectTry,
        Connecting, Reach, NoMac, Unreach, Dec, Retry, Check, Decide, Mark, MarkFlag,
        Run, Result, ResultFlag, Skip, SkipFlag, Final, SetDone, Resched
  <1>2. RowOf(l) \in Row /\ Cmd(l).repeat = 0
    BY <1>1, Context DEF Once, Cmd
  <1>3. operator' = operator
    BY DEF ConnFail, Free1, ConnectNot, ConnectHalted, ConnectLegacy, ConnectTry,
        Reach, NoMac, Unreach, Dec, Retry, Check, Decide, Mark, MarkFlag,
        Run, Result, ResultFlag, Skip, SkipFlag, Final, SetDone, Resched
  <1>4. \A r \in Row : coh'[r].pid \in {coh[r].pid, NoPid}
    <2>1. CASE coh' = coh
      BY <2>1
    <2>2. CASE \E v : SetState(l, v) \/ SetStep(l, v)
      BY <1>2, <2>2, PidKept, Zenon
    <2>3. CASE \E v : \/ coh' = [coh EXCEPT ![RowOf(l)].next = v]
                      \/ coh' = [coh EXCEPT ![RowOf(l)].attempts = v]
      BY <1>2, <2>3, PidKept, Zenon
    <2>4. CASE SetPid(l, NoPid)
      BY <1>2, <2>4, PidKept, Zenon
    <2>5. QED
      BY <1>2, <2>1, <2>2, <2>3, <2>4, Zenon
      DEF ConnFail, Free1, ConnectNot, ConnectHalted, ConnectLegacy, ConnectTry,
        Reach, NoMac, Unreach, Dec, Retry, Check, Decide, Mark, MarkFlag,
        Run, Result, ResultFlag, Skip, SkipFlag, Final, SetDone, Resched
  <1>5. launcher'[l].row = launcher[l].row /\ launcher'[l].pc \in Holding
    <2>1. \A p \in Holding : Goto(l, p) \/ Leave(l, p) =>
             launcher'[l].row = launcher[l].row /\ launcher'[l].pc \in Holding
      BY <1>1, HoldGoes DEF Holding
    <2>2. AfterPhase(l) =>
             launcher'[l].row = launcher[l].row /\ launcher'[l].pc \in Holding
      BY DEF AfterPhase, Become, TypeOK, LauncherType, Holding, PC
    <2>3. CASE Reach(l) \/ Dec(l)
      <3>1. CASE Reach(l)
        BY <3>1 DEF Reach, Become, TypeOK, LauncherType, Holding, PC
      <3>2. CASE Dec(l)
        <4> DEFINE n == launcher[l].att - 1
        <4>1. Become(l, [launcher[l] EXCEPT !.pc = "retry", !.att = n])
          BY <3>2 DEF Dec
        <4> HIDE DEF n
        <4>2. QED
          BY <4>1 DEF Become, TypeOK, LauncherType, Holding, PC
      <3>3. QED
        BY <2>3, <3>1, <3>2
    <2>4. CASE Run(l)
      <3>1. PICK ok \in BOOLEAN :
               Become(l, [launcher[l] EXCEPT !.pc = "result", !.ok = ok])
        BY <2>4 DEF Run
      <3>2. QED
        BY <3>1 DEF Become, TypeOK, LauncherType, Holding, PC
    <2>5. QED
      BY <1>2, <2>1, <2>2, <2>3, <2>4
      DEF ConnFail, Free1, ConnectNot, ConnectHalted, ConnectLegacy, ConnectTry,
        NoMac, Unreach, Retry, Check, Decide, Mark, MarkFlag, Result, ResultFlag,
        Skip, SkipFlag, Final, SetDone, Resched, AfterResched, Holding, PC
  <1>6. \E rec : Become(l, rec)
    <2>1. (\E p : Goto(l, p) \/ Leave(l, p)) \/ AfterPhase(l) => \E rec : Become(l, rec)
      BY Zenon DEF Goto, Leave, AfterPhase
    <2>2. (\E p : Goto(l, p) \/ Leave(l, p)) \/ AfterPhase(l) \/ Reach(l) \/ Dec(l) \/ Run(l)
      BY <1>2
      DEF ConnFail, Free1, ConnectNot, ConnectHalted, ConnectLegacy, ConnectTry,
        NoMac, Unreach, Retry, Check, Decide, Mark, MarkFlag, Result, ResultFlag,
        Skip, SkipFlag, Final, SetDone, Resched
    <2>3. QED
      BY <2>1, <2>2, Zenon DEF Reach, Dec, Run
  <1>7. QED
    <2>1. PICK rec : Become(l, rec)
      BY <1>6
    <2>2. launcher'[l] = rec
      BY <2>1, OnlyOne
    <2>3. QED
      BY <1>3, <1>4, <1>5, <2>1, <2>2, ClaimStays

\* A launcher that holds no row may become anything.
LEMMA ClaimFree ==
  ASSUME TypeOK, ClaimInv, NEW l \in Launcher, NEW rec, Become(l, rec),
         operator' = operator,
         \A r \in Row : coh'[r].pid \in {coh[r].pid, NoPid} \ {l}
  PROVE  ClaimInv'
  <1>1. launcher'[l] = rec /\ \A m \in Launcher : m # l => launcher'[m] = launcher[m]
    BY OnlyOne
  <1>2. \A r \in Row : coh[r].pid # NoPid => coh[r].pid \in Launcher
    BY DEF TypeOK, RowType, Pid
  <1>3. ASSUME NEW r \in Row, coh'[r].pid # NoPid
        PROVE  MayHold(coh[r].pid, r)'
    <2>1. coh'[r].pid = coh[r].pid /\ coh[r].pid \in Launcher \ {l}
      BY <1>2, <1>3
    <2>2. launcher'[coh'[r].pid] = launcher[coh[r].pid]
      BY <1>1, <2>1
    <2>3. MayHold(coh[r].pid, r)
      BY <1>3, <2>1 DEF ClaimInv
    <2>4. QED
      BY <2>1, <2>2, <2>3 DEF MayHold
  <1>4. QED
    BY <1>3, ClaimKept

LEMMA ClaimBegin ==
  ASSUME TypeOK, ClaimInv, NEW l \in Launcher, Start(l) \/ Claim(l) \/ Free2(l)
  PROVE  ClaimInv'
  <1>1. launcher[l].pc # "idle"
    BY DEF Start, Claim, Free2, At
  <1>2. RowOf(l) \in Row /\ launcher[l].row = RowOf(l) /\ l # NoPid
    BY <1>1, Context, NoPidAssumption DEF RowOf
  <1>3. \A r \in Row : coh[r].pid = l => launcher[l].row = r /\ launcher[l].pc \in Holding \cup {"dead"}
    BY <1>2 DEF ClaimInv, MayHold
  <1>4. CASE Start(l)
    <2>1. \A r \in Row : coh'[r].pid \in {coh[r].pid, NoPid} \ {l}
      BY <1>3, <1>4 DEF Start, At, Holding
    <2>2. QED
      BY <1>4, <2>1, ClaimFree DEF Start, Goto
  <1>5. CASE Free2(l)
    <2>1. \A r \in Row : coh'[r].pid = IF r = RowOf(l) THEN NoPid ELSE coh[r].pid
      BY <1>2, <1>5, PidKept, Zenon DEF Free2
    <2>2. \A r \in Row : coh'[r].pid \in {coh[r].pid, NoPid} \ {l}
      BY <1>2, <1>3, <2>1
    <2>3. QED
      BY <1>5, <2>2, ClaimFree DEF Free2
  <1>6. CASE Claim(l)
    <2>1. CASE Leave(l, "free2") /\ coh' = coh
      <3>1. \A r \in Row : coh'[r].pid \in {coh[r].pid, NoPid} \ {l}
        BY <1>3, <1>6, <2>1 DEF Claim, At, Holding
      <3>2. QED
        BY <1>6, <2>1, <3>1, ClaimFree DEF Claim, Leave
    <2>2. CASE /\ SetPid(l, l)
               /\ \E n, z, y : Become(l, [launcher[l] EXCEPT
                                 !.pc = "connect", !.att = n, !.zero = z, !.legacy = y])
      <3>1. launcher'[l].row = RowOf(l) /\ launcher'[l].pc = "connect"
        <4>1. PICK n, z, y : Become(l, [launcher[l] EXCEPT
                                 !.pc = "connect", !.att = n, !.zero = z, !.legacy = y])
          BY <2>2
        <4>2. QED
          BY <4>1 DEF Become, TypeOK, LauncherType, RowOf
      <3>2. \A m \in Launcher : m # l => launcher'[m] = launcher[m]
        BY <2>2, OnlyOne, Zenon
      <3>3. \A r \in Row : coh'[r].pid = IF r = RowOf(l) THEN l ELSE coh[r].pid
        BY <1>2, <2>2, PidKept, Zenon
      <3>4. \A r \in Row : coh[r].pid # l
        BY <1>3, <1>6 DEF Claim, At, Holding
      <3>5. ASSUME NEW r \in Row, coh'[r].pid # NoPid
            PROVE  MayHold(coh[r].pid, r)'
        <4>1. CASE r = RowOf(l)
          BY <3>1, <3>3, <4>1 DEF MayHold, Holding, PC
        <4>2. CASE r # RowOf(l)
          <5>1. coh'[r].pid = coh[r].pid /\ coh[r].pid \in Launcher
            BY <3>3, <3>5, <4>2 DEF TypeOK, RowType, Pid
          <5>2. launcher'[coh'[r].pid] = launcher[coh[r].pid]
            BY <3>2, <3>4, <5>1
          <5>3. operator' = operator
            BY <1>6 DEF Claim
          <5>4. MayHold(coh[r].pid, r)
            BY <3>5, <5>1 DEF ClaimInv
          <5>5. QED
            BY <5>1, <5>2, <5>3, <5>4 DEF MayHold
        <4>3. QED
          BY <4>1, <4>2
      <3>6. QED
        BY <3>5 DEF ClaimInv
    <2>3. QED
      BY <1>6, <2>1, <2>2, Zenon DEF Claim
  <1>7. QED
    BY <1>4, <1>5, <1>6

\* Passes start launchers that hold no row; the operator's kill leaves a dead
\* holder only for the stop that clears it.
LEMMA ClaimOthers ==
  ASSUME TypeOK, ClaimInv,
         \/ \E p \in Pass : start_all_commands(p) \/ Spawn(p)
         \/ Operator \/ Tick
  PROVE  ClaimInv'
  <1>1. \A r \in Row : coh[r].pid # NoPid =>
           coh[r].pid \in Launcher /\ MayHold(coh[r].pid, r)
    BY DEF TypeOK, RowType, Pid, ClaimInv
  <1>2. ASSUME NEW p \in Pass, Spawn(p)
        PROVE  ClaimInv'
    <2>1. PICK r \in pass[p], l \in Launcher :
             /\ launcher[l].pc = "idle"
             /\ Become(l, [Idle EXCEPT !.pc = "start", !.row = r])
      BY <1>2 DEF Spawn
    <2>2. \A q \in Row : coh'[q].pid \in {coh[q].pid, NoPid} \ {l}
      <3>1. coh' = coh /\ l # NoPid
        BY <1>2, NoPidAssumption DEF Spawn
      <3>2. \A q \in Row : coh[q].pid # l
        BY <1>1, <2>1, <3>1 DEF MayHold, Holding
      <3>3. QED
        BY <3>1, <3>2
    <2>3. QED
      BY <1>2, <2>1, <2>2, ClaimFree DEF Spawn
  <1>3. ASSUME launcher' = launcher, operator.act # "stop",
               \A r \in Row : coh'[r].pid \in {coh[r].pid, NoPid}
        PROVE  ClaimInv'
    BY <1>1, <1>3 DEF ClaimInv, MayHold
  <1>4. /\ \A row \in RowType : \A from : PauseRow(row, from).pid = row.pid
        /\ \A row \in RowType : /\ StopRow(row, NoPid).pid = NoPid
                                /\ ResetRow(row, NoPid).pid = NoPid
                                /\ PlayRow(row).pid = row.pid
    <2>1. ASSUME NEW row \in RowType, NEW from
          PROVE  PauseRow(row, from).pid = row.pid
      BY DEF PauseRow, RowType
    <2>2. ASSUME NEW row \in RowType
          PROVE  StopRow(row, NoPid).pid = NoPid
      BY DEF StopRow, RowType
    <2>3. ASSUME NEW row \in RowType
          PROVE  ResetRow(row, NoPid).pid = NoPid
      BY DEF ResetRow, RowType
    <2>4. ASSUME NEW row \in RowType
          PROVE  PlayRow(row).pid = row.pid
      <3> DEFINE st == [q \in Phase |-> IF row.state = Failed[q] THEN "TODO"
                                                                ELSE row.step[q]]
      <3>1. PlayRow(row) = IF row.state \in Restartable
                             THEN [row EXCEPT !.state = "scheduled", !.step = st]
                             ELSE row
        BY DEF PlayRow
      <3> HIDE DEF st
      <3>2. QED
        BY <3>1 DEF RowType
    <2>5. QED
      BY <2>1, <2>2, <2>3, <2>4
  <1>5. \A r \in Row : coh[r] \in RowType
    BY DEF TypeOK
  <1>6. ASSUME NEW q \in Row,
               \/ HostPause(q) \/ HostPlayReset(q)
               \/ CommandPause(Command[q].id) \/ CommandPlay(Command[q].id)
        PROVE  ClaimInv'
    <2>1. ASSUME NEW r \in Row
          PROVE  coh'[r].pid \in {coh[r].pid, NoPid}
      <3>1. \/ coh'[r] = coh[r]
            \/ coh'[r] = PauseRow(coh[r], Pausable)
            \/ coh'[r] = ResetRow(coh[r], NoPid)
            \/ coh'[r] = PauseRow(coh[r], {"scheduled"})
            \/ coh'[r] = PlayRow(coh[r])
        BY <1>6 DEF HostPause, HostPlayReset, CommandPause, CommandPlay, TypeOK
      <3>2. QED
        BY <1>4, <1>5, <3>1
    <2>2. QED
      BY <1>3, <1>6, <2>1
      DEF HostPause, HostPlayReset, CommandPause, CommandPlay, Asks
  <1>7. CASE HostPlay
    <2>1. ASSUME NEW r \in Row
          PROVE  coh'[r].pid \in {coh[r].pid, NoPid}
      <3>1. coh'[r] = coh[r] \/ coh'[r] = PlayRow(coh[r])
        BY <1>7 DEF HostPlay, TypeOK
      <3>2. QED
        BY <1>4, <1>5, <3>1
    <2>2. QED
      BY <1>3, <1>7, <2>1 DEF HostPlay
  <1>8. ASSUME NEW q \in Row, HostStop(q) \/ CommandStop(Command[q].id)
        PROVE  ClaimInv'
    <2>1. launcher' = launcher /\ operator.act # "stop" /\ coh' = coh
      BY <1>8 DEF HostStop, CommandStop, StopSelect, Asks
    <2>2. QED
      BY <1>3, <2>1
  <1>9. CASE StopKill
    <2> DEFINE k == operator.pid
               q == operator.row
    <2>1. /\ k \in Launcher /\ coh' = coh
          /\ operator'.act = "stop" /\ operator'.row = q
          /\ \A r \in Row : ~(operator.act = "stop" /\ operator.row = r)
      BY <1>9 DEF StopKill, TypeOK, OperatorType
    <2>2. launcher' = launcher \/ (Killed(k) /\ Live(k) /\ RowOf(k) = q)
      BY <1>9 DEF StopKill
    <2> HIDE DEF k, q
    <2>3. ASSUME NEW m \in Launcher, launcher[m].pc \in Holding
          PROVE  /\ launcher'[m].row = launcher[m].row
                 /\ \/ launcher'[m].pc \in Holding
                    \/ launcher'[m].pc = "dead" /\ launcher[m].row = q
      <3>1. CASE launcher'[m] = launcher[m]
        BY <2>3, <3>1
      <3>2. CASE Leave(k, "dead") /\ RowOf(k) = q
        BY <2>3, <3>2 DEF Leave, Become, TypeOK, Idle, RowOf
      <3>3. CASE Become(k, [launcher[k] EXCEPT !.pc = "result", !.ok = FALSE])
        <4>1. CASE m # k
          BY <2>3, <3>3, <4>1 DEF Become, TypeOK
        <4>2. CASE m = k
          BY <3>3, <4>2 DEF Become, TypeOK, LauncherType, Holding, PC
        <4>3. QED
          BY <4>1, <4>2
      <3>4. QED
        BY <2>2, <3>1, <3>2, <3>3 DEF Killed
    <2>4. ASSUME NEW m \in Launcher, launcher[m].pc = "dead"
          PROVE  launcher'[m] = launcher[m]
      <3>1. CASE launcher' = launcher
        BY <3>1
      <3>2. CASE Killed(k) /\ Live(k)
        BY <2>4, <3>2 DEF Killed, Live, Leave, Become, TypeOK
      <3>3. QED
        BY <2>2, <3>1, <3>2
    <2>5. QED
      BY <1>1, <2>1, <2>3, <2>4 DEF ClaimInv, MayHold
  <1>10. CASE StopUpdate
    <2> DEFINE q == operator.row
    <2>1. /\ q \in Row /\ launcher' = launcher
          /\ coh'[q] = StopRow(coh[q], NoPid)
          /\ \A r \in Row : r # q => coh'[r] = coh[r]
      BY <1>10 DEF StopUpdate, TypeOK
    <2>2. coh'[q].pid = NoPid
      BY <1>4, <1>5, <2>1
    <2>3. QED
      BY <1>1, <2>1, <2>2 DEF ClaimInv, MayHold
  <1>11. ASSUME UNCHANGED <<coh, launcher, operator>>
         PROVE  ClaimInv'
    BY <1>11 DEF ClaimInv, MayHold
  <1>12. QED
    BY <1>2, <1>6, <1>7, <1>8, <1>9, <1>10, <1>11
    DEF start_all_commands, Operator, Tick

\* A launcher that dies keeps what it holds.
LEMMA ClaimCrash ==
  ASSUME TypeOK, ClaimInv, NEW l \in Launcher, Crash(l)
  PROVE  ClaimInv'
  <1>1. CanCrash /\ Live(l) /\ Leave(l, "dead") /\ coh' = coh
    BY DEF Crash
  <1>2. launcher'[l].row = launcher[l].row /\ launcher'[l].pc = "dead"
    BY <1>1, HoldGoes DEF Live, PC
  <1>3. \A m \in Launcher : m # l => launcher'[m] = launcher[m]
    BY <1>1, OnlyOne DEF Leave
  <1>4. ASSUME NEW r \in Row, coh[r].pid # NoPid
        PROVE  MayHold(coh[r].pid, r)'
    <2>1. MayHold(coh[r].pid, r) /\ coh[r].pid \in Launcher
      BY <1>4 DEF ClaimInv, TypeOK, RowType, Pid
    <2>2. operator' = operator
      BY DEF Crash
    <2>3. QED
      BY <1>1, <1>2, <1>3, <2>1, <2>2 DEF MayHold
  <1>5. QED
    BY <1>1, <1>4 DEF ClaimInv

LEMMA ClaimNext ==
  ASSUME Once
  PROVE  TypeOK /\ OrderInv /\ ClaimInv /\ [Next]_vars => ClaimInv'
  <1>1. ASSUME TypeOK, OrderInv, ClaimInv, Next
        PROVE  ClaimInv'
    <2>1. ASSUME NEW l \in Launcher, LauncherStep(l)
          PROVE  ClaimInv'
      <3>1. ~Update(l)
        BY <1>1 DEF OrderInv, Justified, Update, At
      <3>2. QED
        BY <1>1, <2>1, <3>1, ClaimWork, ClaimBegin DEF LauncherStep
    <2>2. QED
      BY <1>1, <2>1, ClaimOthers, ClaimCrash DEF Next
  <1>2. ClaimInv /\ UNCHANGED vars => ClaimInv'
    BY DEF ClaimInv, MayHold, vars
  <1>3. QED
    BY <1>1, <1>2

LEMMA ClaimInit == Init => ClaimInv
  BY DEF Init, ClaimInv, NewRow

LEMMA ClaimImplies == TypeOK /\ ClaimInv => ClaimOwned
  BY DEF TypeOK, ClaimInv, MayHold, ClaimOwned, Live, RowOf, Holding, At

\* A row of a command that is not repeated is claimed by a process that works
\* on it, by one that the stop in progress has killed, or by one that died at
\* work, never by one that has ended: free() and set_stop give every row back.
THEOREM NoOrphanClaim ==
  ASSUME Once
  PROVE  Spec => []ClaimOwned
  <1>1. TypeOK /\ OrderInv /\ ClaimInv /\ [Next]_vars => ClaimInv'
    BY ClaimNext
  <1>2. TypeOK /\ OrderInv /\ [Next]_vars => OrderInv'
    BY OrderNext
  <1>3. QED
    BY <1>1, <1>2, TypeCorrect, OrderInit, ClaimInit, ClaimImplies, PTL DEF Spec
=============================================================================
