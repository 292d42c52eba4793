----------------------------- MODULE LogPromise ----------------------------
(***************************************************************************)
(* What the log store promises for the lines of one task, without saying   *)
(* how: a line that was accepted is stored after the lines accepted before *)
(* it; it is stored again only if the store did not say that it had it;    *)
(* what is counted is stored. A crash takes what is not stored yet; and a  *)
(* batch may take the place of what was stored, when the store said that   *)
(* there was nothing.                                                      *)
(***************************************************************************)
EXTENDS Integers, Sequences

VARIABLES
  accepted,  \* how many lines were accepted: a line is its number
  promised,  \* the lines that are to be stored, in the order they will be
  stored,    \* the lines stored
  due,       \* how many lines are known to be stored and not counted yet
  counted    \* how many lines are counted

vars == <<accepted, promised, stored, due, counted>>

Init ==
  /\ accepted = 0
  /\ promised = <<>> /\ stored = <<>>
  /\ due = 0 /\ counted = 0

Accept ==
  /\ accepted' = accepted + 1
  /\ promised' = Append(promised, accepted')
  /\ UNCHANGED <<stored, due, counted>>

\* The first k promised lines come behind what was there.
Stored(k) == \E before \in {stored, <<>>} : stored' = before \o SubSeq(promised, 1, k)

\* A batch is stored, and known to be.
Store(k) ==
  /\ due = 0
  /\ Stored(k)
  /\ promised' = SubSeq(promised, k + 1, Len(promised))
  /\ due' = k
  /\ UNCHANGED <<accepted, counted>>

\* A batch is stored, and nobody knows: it stays promised.
StoreInDoubt(k) ==
  /\ due = 0
  /\ Stored(k)
  /\ UNCHANGED <<accepted, promised, due, counted>>

Count ==
  /\ due' = 0
  /\ counted' \in {counted, counted + due}
  /\ UNCHANGED <<accepted, promised, stored>>

Crash ==
  /\ promised' = <<>>
  /\ due' = 0
  /\ \/ UNCHANGED stored
     \/ due = 0 /\ \E k \in 1 .. Len(promised) : Stored(k)
  /\ UNCHANGED <<accepted, counted>>

Next ==
  \/ Accept
  \/ \E k \in 1 .. Len(promised) : Store(k) \/ StoreInDoubt(k)
  \/ Count \/ Crash

Spec == Init /\ [][Next]_vars
=============================================================================
