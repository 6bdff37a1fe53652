---------------------------- MODULE MCTaskRuntime ----------------------------
(***************************************************************************)
(* Instances of TaskRuntime for TLC.                                       *)
(***************************************************************************)
EXTENDS TaskRuntime, TLC

TaskSymmetry == Permutations(Task)

\* A negative delay is clamped to zero by setTimeout and ignored by sleep.
MCDelay == {-1, 2}

\* A timeout of zero is due at once, whatever the clock says.
MCDelayZero == {0, 2}

=============================================================================
