---------------------------- MODULE MCSourceToRun ---------------------------
EXTENDS SourceToRun, TLC

\* The first commit has requirements, the second has none.
MCReqOf == [c \in 1 .. 2 |-> IF c = 1 THEN "reqs" ELSE "nothing"]

\* Calls, executions and workers mean nothing to one another.
Symmetry == Permutations(Syncer) \cup Permutations(Exec) \cup Permutations(Worker)
=============================================================================
