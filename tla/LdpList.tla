------------------------------ MODULE LdpList ------------------------------
(***************************************************************************)
(* The node list, lib/ldp_list.c, on which the tables of requests and the  *)
(* interfaces to connect again are kept.  The nodes of an array are in one *)
(* of two chains, that of the list and that of the free nodes, each known  *)
(* by its last node.  The callers hold a mutex, or are alone: each call is *)
(* one action, on the fields of the structure and the links of the nodes.  *)
(* What a node carries is its callers' business.                           *)
(***************************************************************************)
EXTENDS Integers, Sequences

CONSTANTS
  ListSize,  \* the size the list is initialised with
  NULL

\* A list has at least two nodes.
max_size == IF ListSize <= 1 THEN 2 ELSE ListSize
ListNode == 1 .. max_size

ASSUME ListAssumption == ListSize \in Nat /\ NULL \notin Int

VARIABLES
  list_size,      \* current_size
  used_list_tail, unused_list_tail,
  next, prev,     \* the links of the nodes
  returned        \* what the last call gave its caller: a node, or NULL

listFields == <<list_size, used_list_tail, unused_list_tail, next, prev>>
listVars == <<listFields, returned>>

\* ldp_init_list.
ListInit ==
  /\ list_size = 0
  /\ used_list_tail = NULL /\ unused_list_tail = max_size
  /\ next = [n \in ListNode |-> IF n = max_size THEN NULL ELSE n + 1]
  /\ prev = [n \in ListNode |-> IF n = 1 THEN NULL ELSE n - 1]
  /\ returned = NULL

\* The nodes before the one given and itself, the first of them first.
Chain(links, last) ==
  LET upTo[k \in 0 .. max_size] ==
        [n \in ListNode \cup {NULL} |->
           IF n = NULL \/ k = 0 THEN <<>> ELSE Append(upTo[k - 1][links[n]], n)]
  IN upTo[max_size][last]

Linked(links, n, to) == IF n = NULL THEN links ELSE [links EXCEPT ![n] = to]

ldp_add_last ==
  LET new == unused_list_tail IN
  \/ /\ list_size # max_size /\ unused_list_tail # NULL
     /\ list_size' = list_size + 1
     /\ unused_list_tail' = prev[new]
     /\ next' = [Linked(Linked(next, prev[new], NULL), used_list_tail, new) EXCEPT ![new] = NULL]
     /\ prev' = [prev EXCEPT ![new] = used_list_tail]
     /\ used_list_tail' = new
     /\ returned' = new
  \/ /\ list_size = max_size \/ unused_list_tail = NULL
     /\ returned' = NULL
     /\ UNCHANGED listFields

(* The fields of a list without a node (and, as a slip, when the tail keeps *)
(* its place unless it is the last one left).                               *)
TailWithout_Kept(l, n) == IF l.size = 1 THEN NULL ELSE l.used
TailWithout(l, n) == IF n = l.used THEN l.prev[n] ELSE l.used

WithoutNode(l, n) ==
  [size |-> l.size - 1,
   used |-> TailWithout(l, n),
   unused |-> n,
   next |-> [Linked(l.next, l.prev[n], l.next[n]) EXCEPT ![n] = NULL],
   prev |-> [Linked(l.prev, l.next[n], l.prev[n]) EXCEPT ![n] = l.unused]]

Fields == [size |-> list_size, used |-> used_list_tail, unused |-> unused_list_tail,
           next |-> next, prev |-> prev]
Becomes(l) ==
  /\ list_size' = l.size
  /\ used_list_tail' = l.used /\ unused_list_tail' = l.unused
  /\ next' = l.next /\ prev' = l.prev

Used == Chain(prev, used_list_tail)

\* The callers give a node that is in the list.
ldp_remove_node ==
  \E i \in 1 .. Len(Used) : Becomes(WithoutNode(Fields, Used[i])) /\ returned' = Used[i]

ldp_remove_first_node ==
  \/ /\ list_size # 0 /\ used_list_tail # NULL
     /\ Becomes(WithoutNode(Fields, Head(Used)))
     /\ returned' = Head(Used)
  \/ /\ list_size = 0 \/ used_list_tail = NULL
     /\ returned' = NULL
     /\ UNCHANGED listFields

\* The last node is removed until there is none.
WithoutTail(l) == IF l.used = NULL THEN l ELSE WithoutNode(l, l.used)

ldp_clean_list ==
  LET cleaned[k \in 0 .. max_size] == IF k = 0 THEN Fields ELSE WithoutTail(cleaned[k - 1])
  IN Becomes(cleaned[max_size]) /\ returned' = NULL

ListNext == ldp_add_last \/ ldp_remove_node \/ ldp_remove_first_node \/ ldp_clean_list

-----------------------------------------------------------------------------
ListTypeOK ==
  /\ list_size \in 0 .. max_size
  /\ {used_list_tail, unused_list_tail, returned} \subseteq ListNode \cup {NULL}
  /\ next \in [ListNode -> ListNode \cup {NULL}] /\ prev \in [ListNode -> ListNode \cup {NULL}]

List == INSTANCE BoundedList WITH Node <- ListNode, Capacity <- max_size, used <- Used

\* The links of the list and those of the free nodes, which share the fields of
\* the nodes, always make up one bounded list: whatever is removed from where,
\* its order is kept, no node is lost and none is in it twice.
ImplementsList == List!Init /\ [][List!Next]_<<Used, returned>>
=============================================================================
