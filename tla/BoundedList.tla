---------------------------- MODULE BoundedList ----------------------------
(***************************************************************************)
(* What ldp_list.h promises: a list of at most Capacity nodes, in the      *)
(* order they were added.  A node that is in the list is given to nobody;  *)
(* only a full list gives none.                                            *)
(***************************************************************************)
EXTENDS Naturals, SequencesExt

CONSTANTS Node, Capacity, NULL

VARIABLES
  used,      \* the nodes of the list, the oldest first
  returned   \* what the last call gave its caller: a node, or NULL

vars == <<used, returned>>

Init == used = <<>> /\ returned = NULL

AddLast ==
  \/ /\ Len(used) < Capacity
     /\ \E n \in Node \ ToSet(used) : used' = Append(used, n) /\ returned' = n
  \/ Len(used) = Capacity /\ returned' = NULL /\ UNCHANGED used

TakeOldest ==
  \/ used # <<>> /\ used' = Tail(used) /\ returned' = Head(used)
  \/ used = <<>> /\ returned' = NULL /\ UNCHANGED used

RemoveNode ==
  \E i \in 1..Len(used) : used' = RemoveAt(used, i) /\ returned' = used[i]

Clean == used' = <<>> /\ returned' = NULL

Next == AddLast \/ TakeOldest \/ RemoveNode \/ Clean

Spec == Init /\ [][Next]_vars
=============================================================================
