---------------------------- MODULE BoundedDeque ----------------------------
(***************************************************************************)
(* What a module FIFO promises to the threads that share it: a bounded     *)
(* double-ended queue of elements.  Elements are added at the end, or, for *)
(* the answer of a synchronous request, in front; they are taken from the  *)
(* front; a full queue refuses, an empty one gives nothing.  LdpFifo is    *)
(* shown to implement this specification.                                  *)
(***************************************************************************)
EXTENDS Naturals, Sequences

CONSTANTS
  Thread,    \* the threads that call the FIFO
  Item,      \* the elements (pointers to pool elements in the program)
  NoItem,    \* what a thread holds before its first successful pop
  Capacity   \* the largest number of elements

VARIABLES
  content,   \* the elements, first to be taken first
  elt        \* elt[t]: what the last successful pop of thread t gave it

vars == <<content, elt>>

Init ==
  /\ content = <<>>
  /\ elt = [t \in Thread |-> NoItem]

AddLast(e) ==
  /\ Len(content) < Capacity
  /\ content' = Append(content, e)
  /\ UNCHANGED elt

AddFirst(e) ==
  /\ Len(content) < Capacity
  /\ content' = <<e>> \o content
  /\ UNCHANGED elt

TakeFirst(t) ==
  /\ content # <<>>
  /\ content' = Tail(content)
  /\ elt' = [elt EXCEPT ![t] = Head(content)]

Next ==
  \/ \E e \in Item : AddLast(e) \/ AddFirst(e)
  \/ \E t \in Thread : TakeFirst(t)

Spec == Init /\ [][Next]_vars
=============================================================================
