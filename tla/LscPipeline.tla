----------------------------- MODULE LscPipeline -----------------------------
(***************************************************************************)
(* What the launcher promises about the work on one host: the three phases *)
(* of a command are a pipeline.  A phase begins, or is left out, only when *)
(* the phases before it are over; it ends once, with success or failure;   *)
(* what is over stays over until the next period begins, and a period      *)
(* begins only when all of the one before is over.                         *)
(***************************************************************************)
EXTENDS LscRow

CONSTANT Row

VARIABLE step   \* the columns uploaded, executed and deleted of each row

Before == [upload    |-> {},
           execution |-> {"upload"},
           delete    |-> {"upload", "execution"}]

Ready(r, ph) == \A q \in Before[ph] : step[r][q] \in Finished

Init == step = [r \in Row |-> AllTodo]

Change(r, ph, f) == step' = [step EXCEPT ![r][ph] = f]

Begin(r, ph) ==
    /\ Ready(r, ph)
    /\ step[r][ph] = "TODO"
    /\ Change(r, ph, "WORK_IN_PROGRESS")

End(r, ph) ==
    /\ step[r][ph] = "WORK_IN_PROGRESS"
    /\ \E f \in {"DONE", "FAILED"} : Change(r, ph, f)

LeaveOut(r, ph) ==
    /\ Ready(r, ph)
    /\ step[r][ph] = "TODO"
    /\ Change(r, ph, "IGNORED")

NewPeriod(r) ==
    /\ \A ph \in Phase : step[r][ph] \in Finished
    /\ step' = [step EXCEPT ![r] = AllTodo]

Next == \E r \in Row : \/ NewPeriod(r)
                       \/ \E ph \in Phase : \/ Begin(r, ph)
                                            \/ End(r, ph)
                                            \/ LeaveOut(r, ph)

Spec == Init /\ [][Next]_step
=============================================================================
