------------------------------- MODULE Slots -------------------------------
(***************************************************************************)
(* What the admission gates of the shims promise their callers: at most    *)
(* Limit hold a slot at a time, each at most one, the number shown by      *)
(* /health is the number of holders, and a slot comes back.                *)
(***************************************************************************)
EXTENDS Integers

CONSTANTS Users, Limit

VARIABLES holders,    \* who holds a slot
          count       \* the gate's own counter

vars == <<holders, count>>

Init == holders = {} /\ count = 0

Enter(u) ==
  /\ u \notin holders /\ count < Limit
  /\ holders' = holders \cup {u} /\ count' = count + 1

Leave(u) ==
  /\ u \in holders
  /\ holders' = holders \ {u} /\ count' = count - 1

\* The process ends, and the slots with it.
LeaveAll == holders' = {} /\ count' = 0

Next == LeaveAll \/ \E u \in Users : Enter(u) \/ Leave(u)

Spec == Init /\ [][Next]_vars
=============================================================================
