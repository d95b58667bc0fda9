---------------------------- MODULE MCLscDispatch ----------------------------
(* Commands for the runs of LscDispatch: one for a group of two hosts, one *)
(* for a host of that group, one for an empty group.                       *)
EXTENDS LscDispatch, TLC

CONSTANTS h1, h2

Targets == [c \in Command |-> CASE c = 1 -> {h1, h2}
                                [] c = 2 -> {h2}
                                [] OTHER -> {}]

DispatcherSymmetry == Permutations(Dispatcher)
=============================================================================
