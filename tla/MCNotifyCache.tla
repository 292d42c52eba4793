---------------------------- MODULE MCNotifyCache ---------------------------
EXTENDS NotifyCache, TLC

\* The ids mean nothing to one another.
Symmetry == Permutations(Channel) \cup Permutations(Caller) \cup Permutations(Ping)
=============================================================================
