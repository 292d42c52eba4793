--------------------------- MODULE MCScheduleRunner ------------------------
(* What ScheduleRunner does not tell apart, for a run without liveness.     *)
EXTENDS ScheduleRunner, TLC

DataSymmetry == Permutations(Schedule) \cup Permutations(Expr) \cup Permutations(Caller)
=============================================================================
