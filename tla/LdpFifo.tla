------------------------------ MODULE LdpFifo ------------------------------
(***************************************************************************)
(* The module FIFO of lib/ldp_fifo.c: a ring of Size slots with a mutex of *)
(* its own.  Each critical section is one action.  ldp_push_first_fifo is  *)
(* the operation that has two: when it finds the ring empty it unlocks and *)
(* calls ldp_push_fifo, and another thread may run in between.             *)
(***************************************************************************)
EXTENDS Integers, Sequences

CONSTANTS
  Thread,   \* the threads that call the FIFO
  Item,     \* the elements they push
  NoItem,   \* the NULL of an unused slot
  Size      \* f->size, the number of slots

ASSUME SizeAssumption == Size \in Nat \ {0}
ASSUME NoItemAssumption == NoItem \notin Item

VARIABLES
  queue,         \* f->queue
  head,          \* f->head: where the next push writes
  tail,          \* f->tail: where the next pop reads
  current_size,  \* f->current_size
  falling_back,  \* falling_back[t]: the element of a push_first that found the
                 \* ring empty, between its unlock and its call of push
  elt,           \* elt[t]: *elt of the pops of thread t, untouched by a failed one
  ret            \* ret[t]: what the last call of thread t returned

fifoVars == <<queue, head, tail, current_size, falling_back, elt, ret>>

Slot == 0 .. Size - 1
Status == {"LDP_SUCCESS", "LDP_ERROR"}

(* The index after k, and the one before it, in the ring (and a slip).    *)
Next1(k) == IF k + 1 >= Size THEN 0 ELSE k + 1

Prev1_WrapToFirst(k) == IF k - 1 < 0 THEN 0 ELSE k - 1
Prev1(k) == IF k - 1 < 0 THEN Size - 1 ELSE k - 1

(* What a pop hands to its caller (and the slip that takes the newest). *)
Oldest_Newest == queue[Prev1(head)]
Oldest == queue[tail]

FifoInit ==
  /\ queue = [i \in Slot |-> NoItem]
  /\ head = 0
  /\ tail = 0
  /\ current_size = 0
  /\ falling_back = [t \in Thread |-> NoItem]
  /\ elt = [t \in Thread |-> NoItem]
  /\ ret = [t \in Thread |-> "LDP_SUCCESS"]

Idle(t) == falling_back[t] = NoItem
Full == current_size >= Size
Return(t, status) == ret' = [ret EXCEPT ![t] = status]

(* The critical section of ldp_push_fifo when there is room. *)
Store(e) ==
  /\ queue' = [queue EXCEPT ![head] = e]
  /\ current_size' = current_size + 1
  /\ tail' = IF current_size + 1 = 1 THEN head ELSE tail
  /\ head' = Next1(head)

Refuse(t) ==
  /\ Full
  /\ Return(t, "LDP_ERROR")
  /\ UNCHANGED <<queue, head, tail, current_size, falling_back, elt>>

Push(t, e) ==
  /\ Idle(t)
  /\ \/ Refuse(t)
     \/ /\ ~Full
        /\ Store(e)
        /\ Return(t, "LDP_SUCCESS")
        /\ UNCHANGED <<falling_back, elt>>

PushFirst(t, e) ==
  /\ Idle(t)
  /\ \/ Refuse(t)
     \/ /\ ~Full
        /\ current_size = 0
        /\ falling_back' = [falling_back EXCEPT ![t] = e]
        /\ UNCHANGED <<queue, head, tail, current_size, elt, ret>>
     \/ /\ ~Full
        /\ current_size # 0
        /\ current_size' = current_size + 1
        /\ tail' = Prev1(tail)
        /\ queue' = [queue EXCEPT ![Prev1(tail)] = e]
        /\ Return(t, "LDP_SUCCESS")
        /\ UNCHANGED <<head, falling_back, elt>>

(* push_first calls ldp_push_fifo and returns LDP_SUCCESS whatever that says. *)
PushFirstFallback(t) ==
  /\ ~Idle(t)
  /\ IF Full
     THEN UNCHANGED <<queue, head, tail, current_size>>
     ELSE Store(falling_back[t])
  /\ falling_back' = [falling_back EXCEPT ![t] = NoItem]
  /\ Return(t, "LDP_SUCCESS")
  /\ UNCHANGED elt

Pop(t) ==
  /\ Idle(t)
  /\ \/ /\ current_size <= 0
        /\ Return(t, "LDP_ERROR")
        /\ UNCHANGED <<queue, head, tail, current_size, falling_back, elt>>
     \/ /\ current_size > 0
        /\ elt' = [elt EXCEPT ![t] = Oldest]
        /\ current_size' = current_size - 1
        /\ tail' = Next1(tail)
        /\ Return(t, "LDP_SUCCESS")
        /\ UNCHANGED <<queue, head, falling_back>>

FifoNext ==
  \E t \in Thread :
    \/ \E e \in Item : Push(t, e) \/ PushFirst(t, e)
    \/ PushFirstFallback(t)
    \/ Pop(t)

FifoSpec == FifoInit /\ [][FifoNext]_fifoVars
-----------------------------------------------------------------------------
(* Type correctness: the indexes stay in the ring, the size in 0..Size.    *)
FifoTypeOK ==
  /\ queue \in [Slot -> Item \cup {NoItem}]
  /\ head \in Slot
  /\ tail \in Slot
  /\ current_size \in 0 .. Size
  /\ falling_back \in [Thread -> Item \cup {NoItem}]
  /\ elt \in [Thread -> Item \cup {NoItem}]
  /\ ret \in [Thread -> Status]

(* The slot of the i-th element to be popped. *)
Place(i) == IF tail + i - 1 >= Size THEN tail + i - 1 - Size ELSE tail + i - 1

(* The elements in the order pops will give them. *)
Content == [i \in 1 .. current_size |-> queue[Place(i)]]

(* The three cursors agree: head is always current_size slots after tail,   *)
(* and every slot between them holds an element that somebody pushed (never *)
(* the NULL or the left-over of an unused slot).  The reset of tail by      *)
(* ldp_push_fifo "if first elt" and the wrap-around of the three operations *)
(* all have to preserve it.                                                 *)
RingAgrees ==
  /\ head = IF tail + current_size >= Size THEN tail + current_size - Size
                                           ELSE tail + current_size
  /\ \A i \in 1 .. current_size : Content[i] \in Item

Deque == INSTANCE BoundedDeque WITH content <- Content, Capacity <- Size

(* The ring implements the bounded deque: whatever the threads interleave,  *)
(* each call adds at one end, takes the front element and hands it to its   *)
(* caller, or changes nothing.                                              *)
ImplementsDeque == Deque!Spec

=============================================================================
