--------------------------- MODULE SharedDataProofs ---------------------------
(***************************************************************************)
(* Proofs about the data that threads share: the ring of LdpFifo for every *)
(* set of threads and elements and every size, which implements a bounded  *)
(* deque; the repositories of LdpVD for any number of writers, readers and *)
(* copies, which are a register to the readers of the source; the tables   *)
(* of the APR over APEX (MCApex): pools, conditions and threads; and the   *)
(* list of LdpList, which implements a bounded list whatever its size.     *)
(***************************************************************************)
EXTENDS LdpFifo, LdpVD, MCApex, LdpList, FiniteSetTheorems, FunctionTheorems, SequenceTheorems, TLAPS

(* The inductive invariant: the types and the agreement of the cursors.    *)
FifoInv == FifoTypeOK /\ RingAgrees

(* The ring arithmetic on which the proofs of the three operations rest.   *)
LEMMA CursorSteps ==
  ASSUME NEW k \in Slot
  PROVE  Next1(k) \in Slot /\ Prev1(k) \in Slot
BY SizeAssumption DEF Slot, Next1, Prev1

(* The initial state satisfies the invariant: an empty ring.               *)
LEMMA InitFifoInv == FifoInit => FifoInv
<1> SUFFICES ASSUME FifoInit PROVE FifoInv
  OBVIOUS
<1>1. 0 \in Slot
  BY SizeAssumption DEF Slot
<1>2. FifoTypeOK
  BY <1>1, SizeAssumption DEF FifoInit, FifoTypeOK, Status
<1>3. RingAgrees
  BY SizeAssumption DEF FifoInit, RingAgrees
<1>4. QED
  BY <1>2, <1>3 DEF FifoInv

(* The content is a sequence of current_size pushed elements.              *)
LEMMA ContentIsSeq ==
  ASSUME FifoInv
  PROVE  /\ Content \in Seq(Item)
         /\ Len(Content) = current_size
         /\ \A i \in 1 .. current_size : Content[i] = queue[Place(i)]
<1>1. current_size \in Nat
  BY SizeAssumption DEF FifoInv, FifoTypeOK
<1>2. \A i \in 1 .. current_size : Content[i] \in Item
  BY DEF FifoInv, RingAgrees
<1>3. QED
  BY <1>1, <1>2 DEF Content

(* Storing at head keeps the invariant and appends to the content.         *)
LEMMA StoreAppends ==
  ASSUME FifoInv, ~Full, NEW e \in Item, Store(e)
  PROVE  /\ queue' \in [Slot -> Item \cup {NoItem}]
         /\ head' \in Slot /\ tail' \in Slot /\ current_size' \in 0 .. Size
         /\ RingAgrees'
         /\ Content' = Append(Content, e)
<1> USE SizeAssumption DEF FifoInv, FifoTypeOK, Slot
<1>1. current_size < Size /\ current_size \in Nat
  BY DEF Full
<1>2. tail' = tail /\ current_size' = current_size + 1 /\ queue'[head] = e
  BY <1>1 DEF Store, RingAgrees
<1>3. /\ queue' \in [Slot -> Item \cup {NoItem}]
      /\ head' \in Slot /\ tail' \in Slot /\ current_size' \in 0 .. Size
  BY <1>1, <1>2, CursorSteps DEF Store
<1>4. head' = IF tail' + current_size' >= Size THEN tail' + current_size' - Size
                                              ELSE tail' + current_size'
  BY <1>1, <1>2 DEF Store, RingAgrees, Next1
<1>5. head = Place(current_size + 1)
  BY <1>1 DEF RingAgrees, Place
<1>6. \A i \in 1 .. current_size : Place(i) \in Slot /\ Place(i) # head
  BY <1>1 DEF RingAgrees, Place
<1>7. \A i \in 1 .. current_size + 1 : Place(i)' = Place(i)
  BY <1>2 DEF Place
<1>8. \A i \in 1 .. current_size : queue'[Place(i)] = queue[Place(i)]
  BY <1>6 DEF Store
<1>9. /\ \A i \in 1 .. current_size : Content'[i] = Content[i]
      /\ Content'[current_size + 1] = e
  BY <1>1, <1>2, <1>5, <1>7, <1>8 DEF Content
<1>10. \A i \in 1 .. current_size' : Content'[i] \in Item
  BY <1>1, <1>2, <1>9 DEF RingAgrees
<1>11. Content' \in Seq(Item) /\ Len(Content') = current_size + 1
  BY <1>1, <1>2, <1>10 DEF Content
<1>12. Content' = Append(Content, e)
  <2>1. Content \in Seq(Item) /\ Len(Content) = current_size
    BY ContentIsSeq
  <2>2. /\ Append(Content, e) \in Seq(Item)
        /\ Len(Append(Content, e)) = current_size + 1
        /\ \A i \in 1 .. current_size + 1 :
             Append(Content, e)[i] = IF i <= current_size THEN Content[i] ELSE e
    BY <2>1, <1>1
  <2>3. \A i \in 1 .. Len(Content') : Content'[i] = Append(Content, e)[i]
    BY <1>1, <1>9, <1>11, <2>2
  <2>4. QED
    BY <1>11, <2>2, <2>3, SeqEqual
<1>13. QED
  BY <1>3, <1>4, <1>10, <1>12 DEF RingAgrees

(* The branch of push_first that stores before tail prepends.              *)
LEMMA StoreInFrontPrepends ==
  ASSUME FifoInv, ~Full, NEW e \in Item,
         current_size' = current_size + 1,
         tail' = Prev1(tail),
         queue' = [queue EXCEPT ![Prev1(tail)] = e],
         head' = head
  PROVE  /\ queue' \in [Slot -> Item \cup {NoItem}]
         /\ tail' \in Slot /\ current_size' \in 0 .. Size
         /\ RingAgrees'
         /\ Content' = <<e>> \o Content
<1> USE SizeAssumption DEF FifoInv, FifoTypeOK, Slot
<1>1. current_size < Size /\ current_size \in Nat
  BY DEF Full
<1>2. /\ queue' \in [Slot -> Item \cup {NoItem}]
      /\ tail' \in Slot /\ current_size' \in 0 .. Size
  BY <1>1, CursorSteps
<1>3. head' = IF tail' + current_size' >= Size THEN tail' + current_size' - Size
                                              ELSE tail' + current_size'
  BY <1>1 DEF RingAgrees, Prev1
<1>4. Place(1)' = Prev1(tail)
  BY <1>2 DEF Place
<1>5. \A i \in 1 .. current_size :
        Place(i) \in Slot /\ Place(i) # Prev1(tail) /\ Place(i + 1)' = Place(i)
  BY <1>1 DEF RingAgrees, Place, Prev1
<1>6. /\ Content'[1] = e
      /\ \A i \in 1 .. current_size : Content'[i + 1] = Content[i]
  BY <1>1, <1>2, <1>4, <1>5 DEF Content
<1>7. \A i \in 1 .. current_size' : i = 1 \/ i - 1 \in 1 .. current_size
  BY <1>1
<1>8. \A i \in 1 .. current_size' : Content'[i] = IF i = 1 THEN e ELSE Content[i - 1]
  BY <1>1, <1>6, <1>7
<1>9. \A i \in 1 .. current_size' : Content'[i] \in Item
  BY <1>7, <1>8 DEF RingAgrees
<1>10. Content' \in Seq(Item) /\ Len(Content') = current_size + 1
  BY <1>1, <1>9 DEF Content
<1>11. Content' = <<e>> \o Content
  <2>1. Content \in Seq(Item) /\ Len(Content) = current_size
    BY ContentIsSeq
  <2>2. <<e>> \in Seq(Item) /\ Len(<<e>>) = 1 /\ <<e>>[1] = e
    OBVIOUS
  <2>3. /\ <<e>> \o Content \in Seq(Item)
        /\ Len(<<e>> \o Content) = 1 + current_size
        /\ \A i \in 1 .. 1 + current_size :
             (<<e>> \o Content)[i] = IF i <= 1 THEN <<e>>[i] ELSE Content[i - 1]
    BY <2>1, <2>2, ConcatProperties
  <2>4. \A i \in 1 .. Len(Content') : Content'[i] = (<<e>> \o Content)[i]
    <3> SUFFICES ASSUME NEW i \in 1 .. Len(Content')
                 PROVE  Content'[i] = (<<e>> \o Content)[i]
      OBVIOUS
    <3>0. i \in 1 .. 1 + current_size /\ i \in 1 .. current_size'
      BY <1>1, <1>10
    <3>1. (<<e>> \o Content)[i] = IF i <= 1 THEN e ELSE Content[i - 1]
      BY <2>2, <2>3, <3>0
    <3>2. Content'[i] = IF i = 1 THEN e ELSE Content[i - 1]
      BY <1>8, <3>0
    <3>3. i <= 1 <=> i = 1
      BY <1>1, <3>0
    <3>4. QED
      BY <3>1, <3>2, <3>3, Zenon
  <2>5. QED
    BY <1>1, <1>10, <2>3, <2>4, SeqEqual
<1>12. QED
  BY <1>2, <1>3, <1>9, <1>11 DEF RingAgrees

(* Advancing tail keeps the invariant and removes the front element.       *)
LEMMA AdvanceTakesFirst ==
  ASSUME FifoInv, current_size > 0,
         current_size' = current_size - 1,
         tail' = Next1(tail),
         queue' = queue, head' = head
  PROVE  /\ tail' \in Slot /\ current_size' \in 0 .. Size
         /\ RingAgrees'
         /\ Content # <<>> /\ Oldest = Head(Content) /\ Oldest \in Item
         /\ Content' = Tail(Content)
<1> USE SizeAssumption DEF FifoInv, FifoTypeOK, Slot
<1>1. current_size \in Nat \ {0}
  OBVIOUS
<1>2. tail' \in Slot /\ current_size' \in 0 .. Size
  BY <1>1, CursorSteps
<1>3. head' = IF tail' + current_size' >= Size THEN tail' + current_size' - Size
                                              ELSE tail' + current_size'
  BY <1>1 DEF RingAgrees, Next1
<1>4. \A i \in 1 .. current_size' : Place(i)' = Place(i + 1)
  BY <1>1 DEF RingAgrees, Place, Next1
<1>5. \A i \in 1 .. current_size' : Content'[i] = Content[i + 1]
  BY <1>1, <1>4 DEF Content
<1>6. \A i \in 1 .. current_size' : Content'[i] \in Item
  <2>1. \A i \in 1 .. current_size' : i + 1 \in 1 .. current_size
    BY <1>1 DEF FifoTypeOK
  <2>2. \A i \in 1 .. current_size : Content[i] \in Item
    BY <1>1 DEF RingAgrees
  <2>3. QED
    BY <1>5, <2>1, <2>2
<1>7. Content' \in Seq(Item) /\ Len(Content') = current_size - 1
  BY <1>1, <1>6 DEF Content
<1>8. /\ Content \in Seq(Item) /\ Len(Content) = current_size
      /\ Content # <<>> /\ Content[1] = queue[Place(1)]
  BY <1>1, ContentIsSeq
<1>9. Oldest = Head(Content) /\ Oldest \in Item
  BY <1>1, <1>8 DEF Oldest, Place, RingAgrees
<1>10. Content' = Tail(Content)
  <2>1. /\ Tail(Content) \in Seq(Item)
        /\ Len(Tail(Content)) = current_size - 1
        /\ \A i \in 1 .. current_size - 1 : Tail(Content)[i] = Content[i + 1]
    BY <1>8, HeadTailProperties
  <2>2. \A i \in 1 .. Len(Content') : Content'[i] = Tail(Content)[i]
    BY <1>5, <1>7, <2>1
  <2>3. QED
    BY <1>7, <2>1, <2>2, SeqEqual
<1>11. QED
  BY <1>2, <1>3, <1>6, <1>8, <1>9, <1>10 DEF RingAgrees
-----------------------------------------------------------------------------
(* Every step keeps the invariant and is a step of the deque, or none.     *)
LEMMA StepImplements ==
  ASSUME FifoInv, [FifoNext]_fifoVars
  PROVE  FifoInv' /\ [Deque!Next]_(Deque!vars)
<1>0. ~Full => Len(Content) < Size
  BY ContentIsSeq, SizeAssumption DEF Full, FifoInv, FifoTypeOK
<1>1. ASSUME NEW t \in Thread, Refuse(t)
      PROVE  FifoInv' /\ UNCHANGED Deque!vars
  BY <1>1 DEF FifoInv, FifoTypeOK, RingAgrees, Content, Place, Refuse, Return, Status,
              Deque!vars
<1>2. ASSUME NEW t \in Thread, NEW e \in Item, Push(t, e)
      PROVE  FifoInv' /\ [Deque!Next]_(Deque!vars)
  <2>1. CASE Refuse(t)
    BY <1>1, <2>1
  <2>2. CASE ~Full /\ Store(e) /\ Return(t, "LDP_SUCCESS")
             /\ UNCHANGED <<falling_back, elt>>
    <3>1. FifoInv'
      BY <2>2, StoreAppends DEF FifoInv, FifoTypeOK, Return, Status
    <3>2. Deque!AddLast(e)
      BY <1>0, <2>2, StoreAppends DEF Deque!AddLast
    <3>3. QED
      BY <3>1, <3>2 DEF Deque!Next
  <2>3. QED
    BY <1>2, <2>1, <2>2 DEF Push
<1>3. ASSUME NEW t \in Thread, NEW e \in Item, PushFirst(t, e)
      PROVE  FifoInv' /\ [Deque!Next]_(Deque!vars)
  <2>1. CASE Refuse(t)
    BY <1>1, <2>1
  <2>2. CASE /\ falling_back' = [falling_back EXCEPT ![t] = e]
             /\ UNCHANGED <<queue, head, tail, current_size, elt, ret>>
    BY <2>2 DEF FifoInv, FifoTypeOK, RingAgrees, Content, Place, Deque!vars
  <2>3. CASE /\ ~Full
             /\ current_size' = current_size + 1
             /\ tail' = Prev1(tail)
             /\ queue' = [queue EXCEPT ![Prev1(tail)] = e]
             /\ Return(t, "LDP_SUCCESS")
             /\ UNCHANGED <<head, falling_back, elt>>
    <3>1. FifoInv'
      BY <2>3, StoreInFrontPrepends DEF FifoInv, FifoTypeOK, Return, Status
    <3>2. Deque!AddFirst(e)
      BY <1>0, <2>3, StoreInFrontPrepends DEF Deque!AddFirst
    <3>3. QED
      BY <3>1, <3>2 DEF Deque!Next
  <2>4. QED
    BY <1>3, <2>1, <2>2, <2>3 DEF PushFirst
<1>4. ASSUME NEW t \in Thread, PushFirstFallback(t)
      PROVE  FifoInv' /\ [Deque!Next]_(Deque!vars)
  <2>1. falling_back[t] \in Item
    BY <1>4 DEF PushFirstFallback, Idle, FifoInv, FifoTypeOK
  <2>2. CASE Full
    BY <1>4, <2>2 DEF PushFirstFallback, Return, Status, FifoInv, FifoTypeOK, RingAgrees,
                      Content, Place, Deque!vars
  <2>3. CASE ~Full
    <3>1. Store(falling_back[t]) /\ UNCHANGED elt
      BY <1>4, <2>3 DEF PushFirstFallback
    <3>2. FifoInv'
      BY <1>4, <2>1, <2>3, <3>1, StoreAppends
         DEF FifoInv, FifoTypeOK, PushFirstFallback, Return, Status
    <3>3. Deque!AddLast(falling_back[t])
      BY <1>0, <2>1, <2>3, <3>1, StoreAppends DEF Deque!AddLast
    <3>4. QED
      BY <2>1, <3>2, <3>3 DEF Deque!Next
  <2>4. QED
    BY <2>2, <2>3
<1>5. ASSUME NEW t \in Thread, Pop(t)
      PROVE  FifoInv' /\ [Deque!Next]_(Deque!vars)
  <2>1. CASE /\ Return(t, "LDP_ERROR")
             /\ UNCHANGED <<queue, head, tail, current_size, falling_back, elt>>
    BY <2>1 DEF FifoInv, FifoTypeOK, RingAgrees, Content, Place, Return, Status, Deque!vars
  <2>2. CASE /\ current_size > 0
             /\ elt' = [elt EXCEPT ![t] = Oldest]
             /\ current_size' = current_size - 1
             /\ tail' = Next1(tail)
             /\ Return(t, "LDP_SUCCESS")
             /\ UNCHANGED <<queue, head, falling_back>>
    <3>1. FifoInv'
      BY <2>2, AdvanceTakesFirst DEF FifoInv, FifoTypeOK, Return, Status
    <3>2. Deque!TakeFirst(t)
      BY <2>2, AdvanceTakesFirst DEF Deque!TakeFirst
    <3>3. QED
      BY <3>1, <3>2 DEF Deque!Next
  <2>3. QED
    BY <1>5, <2>1, <2>2 DEF Pop
<1>6. CASE UNCHANGED fifoVars
  BY <1>6 DEF fifoVars, FifoInv, FifoTypeOK, RingAgrees, Content, Place, Deque!vars
<1>7. QED
  BY <1>2, <1>3, <1>4, <1>5, <1>6 DEF FifoNext

(* The ring invariant holds in every reachable state, whatever the number  *)
(* of threads and the size of the ring.                                    *)
THEOREM FifoInvariant == FifoSpec => [](FifoTypeOK /\ RingAgrees)
<1>1. FifoInit => FifoInv
  BY InitFifoInv
<1>2. FifoInv /\ [FifoNext]_fifoVars => FifoInv'
  BY StepImplements
<1>3. FifoInv => FifoTypeOK /\ RingAgrees
  BY DEF FifoInv
<1>4. QED
  BY <1>1, <1>2, <1>3, PTL DEF FifoSpec

(* lib/ldp_fifo.c implements the bounded deque.                            *)
THEOREM FifoImplementsDeque == FifoSpec => ImplementsDeque
<1>1. FifoInit => Deque!Init
  BY SizeAssumption DEF FifoInit, Deque!Init, Content
<1>2. FifoInit => FifoInv
  BY InitFifoInv
<1>3. FifoInv /\ [FifoNext]_fifoVars => FifoInv'
  BY StepImplements
<1>4. FifoInv /\ [FifoNext]_fifoVars => [Deque!Next]_(Deque!vars)
  BY StepImplements
<1>5. QED
  BY <1>1, <1>2, <1>3, <1>4, PTL DEF FifoSpec, ImplementsDeque, Deque!Spec

-----------------------------------------------------------------------------
(* Versioned data: the reader counts are exact, a copy is used exactly     *)
(* while it is needed, and no two writers share one.                       *)

(* Who holds which copy, by the step a thread is at. *)
WriterPlaces ==
  \A w \in Writer :
    /\ wpc[w] = "idle" => wcopy[w] = NoCopy
    /\ wpc[w] # "idle" => wcopy[w] \in Copy /\ RepoOf[wcopy[w]] = "source"
    /\ wpc[w] \in {"copying", "copied", "update", "updating"} => wsrc[w] \in Copy
    /\ wpc[w] \in {"updating", "updated"} => mcopy[w] \in Copy /\ RepoOf[mcopy[w]] = "mirror"
    /\ wpc[w] \notin {"updating", "updated"} => mcopy[w] = NoCopy
    /\ Publishing(w) => repository_ptr["source"] # NoCopy

ReaderPlaces ==
  \A x \in Reader : rpc[x] \in {"copying", "copied"} => rsrc[x] \in Copy

PtrPlaces == \A r \in Repo : repository_ptr[r] # NoCopy => RepoOf[repository_ptr[r]] = r

(* No copy is filled by two threads. *)
OneMirror ==
  \A v, w \in Writer : v # w => mcopy[v] = NoCopy \/ mcopy[v] # mcopy[w]

Filled(c) == \E w \in Writer : (wcopy[w] = c /\ ~Publishing(w)) \/ mcopy[w] = c
Pointed(c) == repository_ptr[RepoOf[c]] = c

(* A copy that is filled is neither published nor read; it is to be         *)
(* released when it was replaced and is still read; it is used when it is   *)
(* filled, published or read.                                               *)
CopiesExact ==
  \A c \in Copy :
    /\ Filled(c) => num_readers[c] = 0 /\ ~Pointed(c)
    /\ to_be_release[c] <=> (num_readers[c] > 0 /\ ~Pointed(c))
    /\ state[c] = "USED" <=> (Filled(c) \/ Pointed(c) \/ num_readers[c] > 0)

(* The inductive invariant. *)
VDInv ==
  /\ TypeOK /\ WriterPlaces /\ ReaderPlaces /\ PtrPlaces
  /\ OneWriter /\ OneMirror /\ CopiesExact /\ ReadersCounted

(* An action that keeps the holders of every copy and all counts.          *)
SameHolders ==
  /\ \A c \in Copy : /\ ReadersOf(c)' = ReadersOf(c)
                      /\ WritersReading(c)' = WritersReading(c)
                      /\ Filled(c)' = Filled(c)
  /\ UNCHANGED <<state, num_readers, to_be_release, repository_ptr>>
-----------------------------------------------------------------------------
(* Sets of readers and of writers are finite, and have a cardinality. *)
LEMMA HolderSets ==
  ASSUME NEW c
  PROVE  /\ IsFiniteSet(ReadersOf(c)) /\ IsFiniteSet(WritersReading(c))
         /\ Cardinality(ReadersOf(c)) \in Nat /\ Cardinality(WritersReading(c)) \in Nat
<1>1. ReadersOf(c) \in SUBSET Reader /\ WritersReading(c) \in SUBSET Writer
  BY DEF ReadersOf, WritersReading
<1>2. QED
  BY <1>1, FS_Subset, FS_CardinalityType, VDAssumption

(* Whoever reads a copy is counted. *)
LEMMA ReadersAreCounted ==
  ASSUME TypeOK, ReadersCounted, NEW c \in Copy,
         ReadersOf(c) # {} \/ WritersReading(c) # {}
  PROVE  num_readers[c] > 0
<1>1. Cardinality(ReadersOf(c)) > 0 \/ Cardinality(WritersReading(c)) > 0
  BY HolderSets, FS_EmptySet
<1>2. QED
  BY <1>1, HolderSets DEF ReadersCounted

(* A copy counted as read has a reader. *)
LEMMA UnreadHasNoReaders ==
  ASSUME TypeOK, ReadersCounted, NEW c \in Copy, num_readers[c] > 0
  PROVE  ReadersOf(c) # {} \/ WritersReading(c) # {}
<1> SUFFICES ASSUME ReadersOf(c) = {}, WritersReading(c) = {} PROVE FALSE
  OBVIOUS
<1>1. Cardinality(ReadersOf(c)) = 0 /\ Cardinality(WritersReading(c)) = 0
  BY FS_EmptySet
<1>2. QED
  BY <1>1 DEF ReadersCounted

(* A thread joins the readers of a copy. *)
LEMMA OneReaderMore ==
  ASSUME TypeOK, ReadersCounted, NEW c \in Copy,
         num_readers' = [num_readers EXCEPT ![c] = @ + 1],
         \A d \in Copy \ {c} : /\ ReadersOf(d)' = ReadersOf(d)
                               /\ WritersReading(d)' = WritersReading(d),
         \/ /\ ReadersOf(c)' = ReadersOf(c)
            /\ \E w : w \notin WritersReading(c)
                      /\ WritersReading(c)' = WritersReading(c) \cup {w}
         \/ /\ WritersReading(c)' = WritersReading(c)
            /\ \E x : x \notin ReadersOf(c) /\ ReadersOf(c)' = ReadersOf(c) \cup {x}
  PROVE  ReadersCounted'
<1>1. Cardinality(ReadersOf(c)') + Cardinality(WritersReading(c)')
        = Cardinality(ReadersOf(c)) + Cardinality(WritersReading(c)) + 1
  <2>1. CASE /\ ReadersOf(c)' = ReadersOf(c)
             /\ \E w : w \notin WritersReading(c)
                       /\ WritersReading(c)' = WritersReading(c) \cup {w}
    <3>1. PICK w : w \notin WritersReading(c) /\ WritersReading(c)' = WritersReading(c) \cup {w}
      BY <2>1
    <3>2. Cardinality(WritersReading(c) \cup {w}) = Cardinality(WritersReading(c)) + 1
      BY <3>1, HolderSets, FS_AddElement
    <3>3. Cardinality(WritersReading(c)') = Cardinality(WritersReading(c)) + 1
      BY <3>1, <3>2
    <3>4. Cardinality(ReadersOf(c)') = Cardinality(ReadersOf(c))
      BY <2>1
    <3>5. QED
      BY <3>3, <3>4, HolderSets
  <2>2. CASE /\ WritersReading(c)' = WritersReading(c)
             /\ \E x : x \notin ReadersOf(c) /\ ReadersOf(c)' = ReadersOf(c) \cup {x}
    <3>1. PICK x : x \notin ReadersOf(c) /\ ReadersOf(c)' = ReadersOf(c) \cup {x}
      BY <2>2
    <3>2. Cardinality(ReadersOf(c) \cup {x}) = Cardinality(ReadersOf(c)) + 1
      BY <3>1, HolderSets, FS_AddElement
    <3>3. Cardinality(ReadersOf(c)') = Cardinality(ReadersOf(c)) + 1
      BY <3>1, <3>2
    <3>4. Cardinality(WritersReading(c)') = Cardinality(WritersReading(c))
      BY <2>2
    <3>5. QED
      BY <3>3, <3>4, HolderSets
  <2>3. QED
    BY <2>1, <2>2
<1>2. QED
  BY <1>1, HolderSets DEF ReadersCounted, TypeOK

(* A thread leaves the readers of a copy. *)
LEMMA OneReaderLess ==
  ASSUME TypeOK, ReadersCounted, NEW c \in Copy,
         num_readers' = [num_readers EXCEPT ![c] = @ - 1],
         \A d \in Copy \ {c} : /\ ReadersOf(d)' = ReadersOf(d)
                               /\ WritersReading(d)' = WritersReading(d),
         \/ /\ ReadersOf(c)' = ReadersOf(c)
            /\ \E w \in WritersReading(c) : WritersReading(c)' = WritersReading(c) \ {w}
         \/ /\ WritersReading(c)' = WritersReading(c)
            /\ \E x \in ReadersOf(c) : ReadersOf(c)' = ReadersOf(c) \ {x}
  PROVE  ReadersCounted'
<1>1. Cardinality(ReadersOf(c)') + Cardinality(WritersReading(c)')
        = Cardinality(ReadersOf(c)) + Cardinality(WritersReading(c)) - 1
  <2>1. CASE /\ ReadersOf(c)' = ReadersOf(c)
             /\ \E w \in WritersReading(c) : WritersReading(c)' = WritersReading(c) \ {w}
    <3>1. PICK w \in WritersReading(c) : WritersReading(c)' = WritersReading(c) \ {w}
      BY <2>1
    <3>2. Cardinality(WritersReading(c) \ {w}) = Cardinality(WritersReading(c)) - 1
      BY <3>1, HolderSets, FS_RemoveElement
    <3>3. Cardinality(WritersReading(c)') = Cardinality(WritersReading(c)) - 1
      BY <3>1, <3>2
    <3>4. Cardinality(ReadersOf(c)') = Cardinality(ReadersOf(c))
      BY <2>1
    <3>5. QED
      BY <3>3, <3>4, HolderSets
  <2>2. CASE /\ WritersReading(c)' = WritersReading(c)
             /\ \E x \in ReadersOf(c) : ReadersOf(c)' = ReadersOf(c) \ {x}
    <3>1. PICK x \in ReadersOf(c) : ReadersOf(c)' = ReadersOf(c) \ {x}
      BY <2>2
    <3>2. Cardinality(ReadersOf(c) \ {x}) = Cardinality(ReadersOf(c)) - 1
      BY <3>1, HolderSets, FS_RemoveElement
    <3>3. Cardinality(ReadersOf(c)') = Cardinality(ReadersOf(c)) - 1
      BY <3>1, <3>2
    <3>4. Cardinality(WritersReading(c)') = Cardinality(WritersReading(c))
      BY <2>2
    <3>5. QED
      BY <3>3, <3>4, HolderSets
  <2>3. QED
    BY <2>1, <2>2
<1>2. QED
  BY <1>1, HolderSets DEF ReadersCounted, TypeOK

(* Nothing changes who reads what. *)
LEMMA SameReaders ==
  ASSUME ReadersCounted, num_readers' = num_readers,
         \A c \in Copy : /\ ReadersOf(c)' = ReadersOf(c)
                         /\ WritersReading(c)' = WritersReading(c)
  PROVE  ReadersCounted'
BY DEF ReadersCounted

(* ldp_release_written_VD_copy by one of the readers of c. *)
LEMMA ReleaseKeeps ==
  ASSUME VDInv, NEW c \in Copy, num_readers[c] > 0, ReleaseCopy(c),
         repository_ptr' = repository_ptr,
         \A d \in Copy : Filled(d)' = Filled(d)
  PROVE  /\ state' \in [Copy -> {"FREE", "USED"}]
         /\ num_readers' \in [Copy -> Nat]
         /\ to_be_release' \in [Copy -> BOOLEAN]
         /\ num_readers' = [num_readers EXCEPT ![c] = @ - 1]
         /\ CopiesExact'
<1> USE DEF VDInv, TypeOK
<1>1. num_readers' = [num_readers EXCEPT ![c] = @ - 1]
  BY DEF ReleaseCopy, LastReader
<1>2. /\ state' \in [Copy -> {"FREE", "USED"}]
      /\ num_readers' \in [Copy -> Nat]
      /\ to_be_release' \in [Copy -> BOOLEAN]
  <2>1. num_readers[c] - 1 \in Nat
    OBVIOUS
  <2>2. num_readers' \in [Copy -> Nat]
    BY <1>1, <2>1
  <2>3. CASE LastReader(c)
    BY <2>2, <2>3 DEF ReleaseCopy
  <2>4. CASE ~LastReader(c)
    BY <2>2, <2>4 DEF ReleaseCopy
  <2>5. QED
    BY <2>3, <2>4
<1>3. \A d \in Copy : Pointed(d)' = Pointed(d)
  BY DEF Pointed
<1>4. CopiesExact'
  <2> SUFFICES ASSUME NEW d \in Copy
               PROVE  /\ Filled(d)' => num_readers'[d] = 0 /\ ~Pointed(d)'
                      /\ to_be_release'[d] <=> (num_readers'[d] > 0 /\ ~Pointed(d)')
                      /\ state'[d] = "USED" <=> (Filled(d)' \/ Pointed(d)' \/ num_readers'[d] > 0)
    BY DEF CopiesExact
  <2>1. CASE d # c
    BY <1>1, <1>3, <2>1 DEF CopiesExact, ReleaseCopy, LastReader
  <2>2. CASE d = c /\ LastReader(c)
    BY <1>1, <1>3, <2>2 DEF CopiesExact, ReleaseCopy, LastReader
  <2>3. CASE d = c /\ ~LastReader(c)
    BY <1>1, <1>3, <2>3 DEF CopiesExact, ReleaseCopy, LastReader
  <2>4. QED
    BY <2>1, <2>2, <2>3
<1>5. QED
  BY <1>1, <1>2, <1>4

(* ldp_move_repository_ptr to the copy c, which nobody else fills. *)
LEMMA MoveKeeps ==
  ASSUME VDInv, NEW r \in Repo, NEW c \in Copy, RepoOf[c] = r, Filled(c),
         MovePtr(r, c),
         num_readers' \in {num_readers, [num_readers EXCEPT ![c] = @ + 1]},
         \A d \in Copy : Filled(d)' <=> Filled(d) /\ d # c
  PROVE  /\ state' \in [Copy -> {"FREE", "USED"}]
         /\ num_readers' \in [Copy -> Nat]
         /\ to_be_release' \in [Copy -> BOOLEAN]
         /\ repository_ptr' \in [Repo -> Copy \cup {NoCopy}]
         /\ PtrPlaces' /\ CopiesExact'
<1> USE VDAssumption DEF VDInv, TypeOK
<1>1. /\ state' \in [Copy -> {"FREE", "USED"}]
      /\ num_readers' \in [Copy -> Nat]
      /\ to_be_release' \in [Copy -> BOOLEAN]
      /\ repository_ptr' \in [Repo -> Copy \cup {NoCopy}]
  BY DEF MovePtr, Unread
<1>2. PtrPlaces'
  BY DEF PtrPlaces, MovePtr
<1>3. num_readers[c] = 0 /\ ~Pointed(c) /\ ~to_be_release[c] /\ state[c] = "USED"
  BY DEF CopiesExact
<1>4. CopiesExact'
  <2> SUFFICES ASSUME NEW d \in Copy
               PROVE  /\ Filled(d)' => num_readers'[d] = 0 /\ ~Pointed(d)'
                      /\ to_be_release'[d] <=> (num_readers'[d] > 0 /\ ~Pointed(d)')
                      /\ state'[d] = "USED" <=> (Filled(d)' \/ Pointed(d)' \/ num_readers'[d] > 0)
    BY DEF CopiesExact
  <2>1. CASE d = c
    <3>1. Pointed(d)' /\ ~Filled(d)' /\ repository_ptr[r] # d
      BY <1>3, <2>1 DEF Pointed, MovePtr
    <3>2. state'[d] = state[d] /\ to_be_release'[d] = to_be_release[d]
      BY <2>1, <3>1 DEF MovePtr
    <3>3. QED
      BY <1>1, <1>3, <2>1, <3>1, <3>2
  <2>2. CASE d # c /\ d = repository_ptr[r]
    <3>1. Pointed(d) /\ ~Pointed(d)' /\ ~Filled(d) /\ num_readers'[d] = num_readers[d]
      BY <2>2 DEF Pointed, MovePtr, PtrPlaces, CopiesExact
    <3>2. QED
      BY <2>2, <3>1 DEF CopiesExact, MovePtr, Unread
  <2>3. CASE d # c /\ d # repository_ptr[r]
    <3>1. Pointed(d)' = Pointed(d) /\ num_readers'[d] = num_readers[d]
      BY <2>3 DEF Pointed, MovePtr
    <3>2. QED
      BY <2>3, <3>1 DEF CopiesExact, MovePtr, Unread
  <2>4. QED
    BY <2>1, <2>2, <2>3
<1>5. QED
  BY <1>1, <1>2, <1>4

(* An action that keeps the holders keeps what is said of the copies. *)
LEMMA SameHoldersKeep ==
  ASSUME VDInv, SameHolders
  PROVE  CopiesExact' /\ ReadersCounted'
<1>1. CopiesExact'
  BY DEF VDInv, SameHolders, CopiesExact, Pointed
<1>2. ReadersCounted'
  BY SameReaders DEF VDInv, SameHolders
<1>3. QED
  BY <1>1, <1>2

(* The steps of a read. *)
LEMMA ReadKeeps ==
  ASSUME VDInv, NEW x \in Reader, Read(x)
  PROVE  VDInv'
<1> USE VDAssumption DEF VDInv
<1>1. OneWriter' /\ OneMirror' /\ WriterPlaces' /\ PtrPlaces'
  BY DEF Read, ReadBegin, ReadEnd, ReadRelease, ReleaseRead, writerVars, copyVars,
         OneWriter, OneMirror, WriterPlaces, PtrPlaces, Publishing
<1>2. /\ \A c \in Copy : WritersReading(c)' = WritersReading(c) /\ Filled(c)' = Filled(c)
      /\ repository_ptr' = repository_ptr
  BY DEF Read, ReadBegin, ReadEnd, ReadRelease, ReleaseRead, writerVars, copyVars,
         WritersReading, Filled, Publishing
<1>3. CASE ReadBegin(x)
  <2> DEFINE src == repository_ptr[ReadsFrom[x]]
  <2>1. src \in Copy /\ Pointed(src)
    BY <1>3 DEF ReadBegin, TypeOK, PtrPlaces, Pointed
  <2>2. TypeOK' /\ ReaderPlaces'
    BY <1>3, <2>1 DEF ReadBegin, RGoto, writerVars, TypeOK, ReaderPlaces
  <2>3. \A c \in Copy : ReadersOf(c)' = IF c = src THEN ReadersOf(c) \cup {x} ELSE ReadersOf(c)
    BY <1>3, <2>1 DEF ReadBegin, RGoto, ReadersOf, TypeOK
  <2>4. x \notin ReadersOf(src)
    BY <1>3 DEF ReadBegin, ReadersOf
  <2>5. num_readers' = [num_readers EXCEPT ![src] = @ + 1]
    BY <1>3 DEF ReadBegin
  <2>6. ReadersCounted'
    BY <1>2, <2>1, <2>3, <2>4, <2>5, OneReaderMore
  <2>7. CopiesExact'
    BY <1>2, <1>3, <2>1, <2>5 DEF ReadBegin, CopiesExact, Pointed, TypeOK
  <2>8. QED
    BY <1>1, <2>2, <2>6, <2>7
<1>4. CASE ReadEnd(x)
  <2>1. TypeOK' /\ ReaderPlaces'
    BY <1>4 DEF ReadEnd, RGoto, Copied, copyVars, writerVars, TypeOK, ReaderPlaces
  <2>2. \A c \in Copy : ReadersOf(c)' = ReadersOf(c)
    BY <1>4 DEF ReadEnd, RGoto, ReadersOf, TypeOK
  <2>3. SameHolders
    BY <1>2, <1>4, <2>2 DEF SameHolders, ReadEnd, copyVars
  <2>4. QED
    BY <1>1, <2>1, <2>3, SameHoldersKeep
<1>5. CASE ReadRelease(x)
  <2> DEFINE src == rsrc[x]
  <2>1. src \in Copy /\ x \in ReadersOf(src)
    BY <1>5 DEF ReadRelease, ReaderPlaces, ReadersOf
  <2>2. num_readers[src] > 0
    BY <2>1, ReadersAreCounted
  <2>3. /\ state' \in [Copy -> {"FREE", "USED"}]
        /\ num_readers' \in [Copy -> Nat]
        /\ to_be_release' \in [Copy -> BOOLEAN]
        /\ num_readers' = [num_readers EXCEPT ![src] = @ - 1]
        /\ CopiesExact'
    BY <1>2, <1>5, <2>1, <2>2, ReleaseKeeps DEF ReadRelease
  <2>4. TypeOK' /\ ReaderPlaces'
    BY <1>5, <2>3 DEF ReadRelease, RGoto, writerVars, TypeOK, ReaderPlaces
  <2>5. \A c \in Copy : ReadersOf(c)' = IF c = src THEN ReadersOf(c) \ {x} ELSE ReadersOf(c)
    BY <1>5, <2>1 DEF ReadRelease, RGoto, ReadersOf, TypeOK
  <2>6. ReadersCounted'
    BY <1>2, <2>1, <2>3, <2>5, OneReaderLess
  <2>7. QED
    BY <1>1, <2>3, <2>4, <2>6
<1>6. CASE ReleaseRead(x)
  <2>1. TypeOK' /\ ReaderPlaces'
    BY <1>6 DEF ReleaseRead, RGoto, copyVars, writerVars, TypeOK, ReaderPlaces
  <2>2. \A c \in Copy : ReadersOf(c)' = ReadersOf(c)
    BY <1>6 DEF ReleaseRead, RGoto, ReadersOf, TypeOK
  <2>3. SameHolders
    BY <1>2, <1>6, <2>2 DEF SameHolders, ReleaseRead, copyVars
  <2>4. QED
    BY <1>1, <2>1, <2>3, SameHoldersKeep
<1>7. QED
  BY <1>3, <1>4, <1>5, <1>6 DEF Read
-----------------------------------------------------------------------------
(* A writer does not move the readers. *)
LEMMA WriterLeavesReaders ==
  ASSUME VDInv, NEW w \in Writer, Access(w) \/ PublishAccess(w)
  PROVE  /\ UNCHANGED readerVars
         /\ ReaderPlaces'
         /\ \A c : ReadersOf(c)' = ReadersOf(c)
<1>1. UNCHANGED readerVars
  BY DEF Access, PublishAccess, GetWritten, CopyEnd, CopyRelease, Write, Cancel, Publish,
         Notify, UpdateBegin, UpdateEnd, UpdateMove, PublishEnd
<1>2. QED
  BY <1>1 DEF readerVars, ReaderPlaces, ReadersOf, VDInv

(* A free copy is nobody's. *)
LEMMA FreeIsUnheld ==
  ASSUME VDInv, NEW r \in Repo, NEW c \in FreeCopies(r)
  PROVE  /\ c \in Copy /\ RepoOf[c] = r /\ num_readers[c] = 0
         /\ ~Pointed(c) /\ ~Filled(c) /\ ~to_be_release[c]
         /\ \A v \in Writer : wcopy[v] # c /\ mcopy[v] # c
<1>1. c \in Copy /\ RepoOf[c] = r /\ state[c] = "FREE"
  BY DEF FreeCopies
<1>2. ~Filled(c) /\ ~Pointed(c) /\ num_readers[c] = 0 /\ ~to_be_release[c]
  BY <1>1 DEF VDInv, CopiesExact, TypeOK
<1>3. ASSUME NEW v \in Writer, wcopy[v] = c PROVE FALSE
  <2>1. Publishing(v)
    BY <1>2, <1>3 DEF Filled
  <2>2. v \in WritersReading(c)
    BY <1>3, <2>1 DEF WritersReading
  <2>3. QED
    BY <1>1, <1>2, <2>2, ReadersAreCounted DEF VDInv
<1>4. QED
  BY <1>1, <1>2, <1>3 DEF Filled

(* ldp_get_written_access. *)
LEMMA GetWrittenKeeps ==
  ASSUME VDInv, NEW w \in Writer, GetWritten(w)
  PROVE  VDInv'
<1> USE VDAssumption DEF VDInv
<1> DEFINE src == repository_ptr["source"]
<1>1. PICK c \in FreeCopies("source") : Taken(c) /\ wcopy' = [wcopy EXCEPT ![w] = c]
  BY DEF GetWritten
<1>2. /\ c \in Copy /\ RepoOf[c] = "source" /\ num_readers[c] = 0
      /\ ~Pointed(c) /\ ~Filled(c) /\ ~to_be_release[c]
      /\ \A v \in Writer : wcopy[v] # c /\ mcopy[v] # c
  BY FreeIsUnheld DEF Repo
<1>3. /\ wpc[w] = "idle" /\ wpc' \in {[wpc EXCEPT ![w] = "copying"], [wpc EXCEPT ![w] = "holding"]}
      /\ state' = [state EXCEPT ![c] = "USED"]
      /\ UNCHANGED <<to_be_release, repository_ptr, mcopy>>
  BY <1>1 DEF GetWritten, Goto, Taken
<1>4. /\ UNCHANGED readerVars /\ ReaderPlaces'
      /\ \A d : ReadersOf(d)' = ReadersOf(d)
  BY WriterLeavesReaders DEF Access
<1>5. src # NoCopy => src \in Copy /\ RepoOf[src] = "source" /\ Pointed(src) /\ src # c
  BY <1>2 DEF TypeOK, PtrPlaces, Pointed, Repo
<1>6. PtrPlaces' /\ OneWriter' /\ OneMirror'
  BY <1>1, <1>2, <1>3 DEF PtrPlaces, OneWriter, OneMirror, TypeOK
<1>7. \A d \in Copy : Filled(d)' <=> Filled(d) \/ d = c
  BY <1>1, <1>2, <1>3 DEF Filled, Publishing, TypeOK, WriterPlaces
<1>8. \A d \in Copy : Pointed(d)' = Pointed(d)
  BY <1>3 DEF Pointed
<1>9. CASE w \in ReadWrite /\ src # NoCopy
  <2>1. /\ num_readers' = [num_readers EXCEPT ![src] = @ + 1]
        /\ wsrc' = [wsrc EXCEPT ![w] = src]
        /\ wbuf' = [wbuf EXCEPT ![w] = data[src]]
        /\ wpc' = [wpc EXCEPT ![w] = "copying"]
    BY <1>9 DEF GetWritten, Goto
  <2>2. TypeOK'
    BY <1>1, <1>2, <1>3, <1>4, <1>5, <1>9, <2>1 DEF TypeOK, Taken, readerVars, GetWritten
  <2>3. WriterPlaces'
    BY <1>1, <1>2, <1>3, <1>5, <1>9, <2>1 DEF WriterPlaces, TypeOK, Publishing
  <2>4. \A d \in Copy : WritersReading(d)'
                          = IF d = src THEN WritersReading(d) \cup {w} ELSE WritersReading(d)
    BY <1>1, <1>2, <1>3, <2>1 DEF WritersReading, Publishing, TypeOK, WriterPlaces
  <2>5. w \notin WritersReading(src)
    BY <1>3 DEF WritersReading, Publishing
  <2>6. ReadersCounted'
    BY <1>4, <1>5, <1>9, <2>1, <2>4, <2>5, OneReaderMore
  <2>7. CopiesExact'
    BY <1>2, <1>3, <1>5, <1>7, <1>8, <1>9, <2>1 DEF CopiesExact, TypeOK
  <2>8. QED
    BY <1>4, <1>6, <2>2, <2>3, <2>6, <2>7
<1>10. CASE ~(w \in ReadWrite /\ src # NoCopy)
  <2>1. UNCHANGED <<num_readers, wsrc, wbuf>> /\ wpc' = [wpc EXCEPT ![w] = "holding"]
    BY <1>10 DEF GetWritten, Goto
  <2>2. TypeOK'
    BY <1>1, <1>2, <1>3, <1>4, <2>1 DEF TypeOK, Taken, readerVars, GetWritten
  <2>3. WriterPlaces'
    BY <1>1, <1>2, <1>3, <2>1 DEF WriterPlaces, TypeOK, Publishing
  <2>4. \A d \in Copy : WritersReading(d)' = WritersReading(d)
    BY <1>1, <1>2, <1>3, <2>1 DEF WritersReading, Publishing, TypeOK, WriterPlaces
  <2>5. ReadersCounted'
    BY <1>4, <2>1, <2>4, SameReaders
  <2>6. CopiesExact'
    BY <1>2, <1>3, <1>7, <1>8, <2>1 DEF CopiesExact, TypeOK
  <2>7. QED
    BY <1>4, <1>6, <2>2, <2>3, <2>5, <2>6
<1>11. QED
  BY <1>9, <1>10

(* The end of a memcpy into the copy a writer holds. *)
LEMMA CopyEndKeeps ==
  ASSUME VDInv, NEW w \in Writer, CopyEnd(w)
  PROVE  VDInv'
<1> USE VDAssumption DEF VDInv
<1>1. /\ UNCHANGED readerVars /\ ReaderPlaces'
      /\ \A c : ReadersOf(c)' = ReadersOf(c)
  BY WriterLeavesReaders DEF Access, PublishAccess
<1>2. TypeOK'
  BY <1>1 DEF CopyEnd, Goto, Copied, readerVars, TypeOK, WriterPlaces
<1>3. WriterPlaces' /\ PtrPlaces' /\ OneWriter' /\ OneMirror'
  BY DEF CopyEnd, Goto, copyVars, TypeOK, WriterPlaces, PtrPlaces, OneWriter, OneMirror, Publishing
<1>4. SameHolders
  BY <1>1 DEF CopyEnd, Goto, copyVars, SameHolders, WritersReading, Filled, Publishing, TypeOK
<1>5. QED
  BY <1>1, <1>2, <1>3, <1>4, SameHoldersKeep

(* The end of the read that a READ_WRITE access begins with. *)
LEMMA CopyReleaseKeeps ==
  ASSUME VDInv, NEW w \in Writer, CopyRelease(w)
  PROVE  VDInv'
<1> USE VDAssumption DEF VDInv
<1> DEFINE c == wsrc[w]
<1>1. /\ UNCHANGED readerVars /\ ReaderPlaces'
      /\ \A d : ReadersOf(d)' = ReadersOf(d)
  BY WriterLeavesReaders DEF Access, PublishAccess
<1>2. c \in Copy /\ w \in WritersReading(c)
  BY DEF CopyRelease, WriterPlaces, WritersReading, Publishing
<1>3. num_readers[c] > 0
  BY <1>2, ReadersAreCounted
<1>4. \A d \in Copy : Filled(d)' = Filled(d)
  BY DEF CopyRelease, Goto, Filled, Publishing, TypeOK, WriterPlaces
<1>5. /\ state' \in [Copy -> {"FREE", "USED"}]
      /\ num_readers' \in [Copy -> Nat]
      /\ to_be_release' \in [Copy -> BOOLEAN]
      /\ num_readers' = [num_readers EXCEPT ![c] = @ - 1]
      /\ CopiesExact'
  BY <1>2, <1>3, <1>4, ReleaseKeeps DEF CopyRelease
<1>6. TypeOK'
  BY <1>1, <1>5 DEF CopyRelease, Goto, Forget, readerVars, TypeOK
<1>7. WriterPlaces' /\ PtrPlaces' /\ OneWriter' /\ OneMirror'
  BY DEF CopyRelease, Goto, Forget, TypeOK, WriterPlaces, PtrPlaces, OneWriter, OneMirror, Publishing
<1>8. \A d \in Copy : WritersReading(d)'
                        = IF d = c THEN WritersReading(d) \ {w} ELSE WritersReading(d)
  BY <1>2 DEF CopyRelease, Goto, Forget, WritersReading, Publishing, TypeOK
<1>9. ReadersCounted'
  BY <1>1, <1>2, <1>5, <1>8, OneReaderLess
<1>10. QED
  BY <1>1, <1>5, <1>6, <1>7, <1>9

(* The module fills its copy. *)
LEMMA WriteKeeps ==
  ASSUME VDInv, NEW w \in Writer, Write(w)
  PROVE  VDInv'
<1> USE VDAssumption DEF VDInv
<1>1. /\ UNCHANGED readerVars /\ ReaderPlaces'
      /\ \A c : ReadersOf(c)' = ReadersOf(c)
  BY WriterLeavesReaders DEF Access, PublishAccess
<1>2. TypeOK'
  BY <1>1 DEF Write, Goto, Version, readerVars, TypeOK, WriterPlaces
<1>3. WriterPlaces' /\ PtrPlaces' /\ OneWriter' /\ OneMirror'
  BY DEF Write, Goto, copyVars, TypeOK, WriterPlaces, PtrPlaces, OneWriter, OneMirror, Publishing
<1>4. SameHolders
  BY <1>1 DEF Write, Goto, copyVars, SameHolders, WritersReading, Filled, Publishing, TypeOK
<1>5. QED
  BY <1>1, <1>2, <1>3, <1>4, SameHoldersKeep

(* The notification chooses what it will copy. *)
LEMMA NotifyKeeps ==
  ASSUME VDInv, NEW w \in Writer, Notify(w)
  PROVE  VDInv'
<1> USE VDAssumption DEF VDInv
<1>1. /\ UNCHANGED readerVars /\ ReaderPlaces'
      /\ \A c : ReadersOf(c)' = ReadersOf(c)
  BY WriterLeavesReaders DEF Access, PublishAccess
<1>2. TypeOK'
  BY <1>1 DEF Notify, Goto, copyVars, Repo, readerVars, TypeOK, WriterPlaces
<1>3. WriterPlaces' /\ PtrPlaces' /\ OneWriter' /\ OneMirror'
  BY DEF Notify, Goto, copyVars, TypeOK, WriterPlaces, PtrPlaces, OneWriter, OneMirror, Publishing
<1>4. SameHolders
  BY <1>1 DEF Notify, Goto, copyVars, SameHolders, WritersReading, Filled, Publishing, TypeOK
<1>5. QED
  BY <1>1, <1>2, <1>3, <1>4, SameHoldersKeep

(* The end of the memcpy into the copy of the mirror. *)
LEMMA UpdateEndKeeps ==
  ASSUME VDInv, NEW w \in Writer, UpdateEnd(w)
  PROVE  VDInv'
<1> USE VDAssumption DEF VDInv
<1>1. /\ UNCHANGED readerVars /\ ReaderPlaces'
      /\ \A c : ReadersOf(c)' = ReadersOf(c)
  BY WriterLeavesReaders DEF Access, PublishAccess
<1>2. TypeOK'
  BY <1>1 DEF UpdateEnd, Goto, Copied, readerVars, TypeOK, WriterPlaces
<1>3. WriterPlaces' /\ PtrPlaces' /\ OneWriter' /\ OneMirror'
  BY DEF UpdateEnd, Goto, copyVars, TypeOK, WriterPlaces, PtrPlaces, OneWriter, OneMirror, Publishing
<1>4. SameHolders
  BY <1>1 DEF UpdateEnd, Goto, copyVars, SameHolders, WritersReading, Filled, Publishing, TypeOK
<1>5. QED
  BY <1>1, <1>2, <1>3, <1>4, SameHoldersKeep

(* The end of a publication. *)
LEMMA PublishEndKeeps ==
  ASSUME VDInv, NEW w \in Writer, PublishEnd(w)
  PROVE  VDInv'
<1> USE VDAssumption DEF VDInv
<1> DEFINE c == wcopy[w]
<1>1. /\ UNCHANGED readerVars /\ ReaderPlaces'
      /\ \A d : ReadersOf(d)' = ReadersOf(d)
  BY WriterLeavesReaders DEF Access, PublishAccess
<1>2. c \in Copy /\ w \in WritersReading(c)
  BY DEF PublishEnd, WriterPlaces, WritersReading, Publishing
<1>3. num_readers[c] > 0
  BY <1>2, ReadersAreCounted
<1>4. \A d \in Copy : Filled(d)' = Filled(d)
  BY DEF PublishEnd, Goto, Filled, Publishing, TypeOK, WriterPlaces
<1>5. /\ state' \in [Copy -> {"FREE", "USED"}]
      /\ num_readers' \in [Copy -> Nat]
      /\ to_be_release' \in [Copy -> BOOLEAN]
      /\ num_readers' = [num_readers EXCEPT ![c] = @ - 1]
      /\ CopiesExact'
  BY <1>2, <1>3, <1>4, ReleaseKeeps DEF PublishEnd
<1>6. TypeOK'
  BY <1>1, <1>5 DEF PublishEnd, Goto, Forget, readerVars, TypeOK
<1>7. WriterPlaces' /\ PtrPlaces' /\ OneWriter' /\ OneMirror'
  BY DEF PublishEnd, Goto, Forget, TypeOK, WriterPlaces, PtrPlaces, OneWriter, OneMirror, Publishing
<1>8. \A d \in Copy : WritersReading(d)'
                        = IF d = c THEN WritersReading(d) \ {w} ELSE WritersReading(d)
  BY <1>2 DEF PublishEnd, Goto, Forget, WritersReading, Publishing, TypeOK
<1>9. ReadersCounted'
  BY <1>1, <1>2, <1>5, <1>8, OneReaderLess
<1>10. QED
  BY <1>1, <1>5, <1>6, <1>7, <1>9

(* Only the writer that fills a copy of the source holds it. *)
LEMMA FilledByOne ==
  ASSUME VDInv, NEW w \in Writer, wpc[w] \in {"copying", "copied", "holding", "written"}
  PROVE  /\ wcopy[w] \in Copy /\ RepoOf[wcopy[w]] = "source" /\ Filled(wcopy[w])
         /\ \A v \in Writer \ {w} : wcopy[v] # wcopy[w]
         /\ \A v \in Writer : mcopy[v] # wcopy[w]
<1> USE VDAssumption DEF VDInv
<1>1. wcopy[w] \in Copy /\ RepoOf[wcopy[w]] = "source" /\ Filled(wcopy[w])
  BY DEF WriterPlaces, Filled, Publishing
<1>2. \A v \in Writer \ {w} : wcopy[v] # wcopy[w]
  BY <1>1 DEF OneWriter
<1>3. \A v \in Writer : mcopy[v] # wcopy[w]
  BY <1>1 DEF WriterPlaces
<1>4. QED
  BY <1>1, <1>2, <1>3

(* ldp_cancel_written_access. *)
LEMMA CancelKeeps ==
  ASSUME VDInv, NEW w \in Writer, Cancel(w)
  PROVE  VDInv'
<1> USE VDAssumption DEF VDInv
<1> DEFINE c == wcopy[w]
<1>1. /\ UNCHANGED readerVars /\ ReaderPlaces'
      /\ \A d : ReadersOf(d)' = ReadersOf(d)
  BY WriterLeavesReaders DEF Access
<1>2. /\ c \in Copy /\ Filled(c)
      /\ \A v \in Writer \ {w} : wcopy[v] # c
      /\ \A v \in Writer : mcopy[v] # c
  BY FilledByOne DEF Cancel
<1>3. TypeOK'
  BY <1>1, <1>2 DEF Cancel, Goto, readerVars, TypeOK
<1>4. WriterPlaces' /\ PtrPlaces' /\ OneWriter' /\ OneMirror'
  BY DEF Cancel, Goto, TypeOK, WriterPlaces, PtrPlaces, OneWriter, OneMirror, Publishing
<1>5. \A d \in Copy : Filled(d)' <=> Filled(d) /\ d # c
  BY <1>2 DEF Cancel, Goto, Filled, Publishing, TypeOK
<1>6. CopiesExact'
  BY <1>2, <1>5 DEF Cancel, CopiesExact, Pointed, TypeOK
<1>7. \A d \in Copy : WritersReading(d)' = WritersReading(d)
  BY DEF Cancel, Goto, WritersReading, Publishing, TypeOK
<1>8. ReadersCounted'
  BY <1>1, <1>7, SameReaders DEF Cancel
<1>9. QED
  BY <1>1, <1>3, <1>4, <1>6, <1>8

(* The first half of ldp_publish_written_access. *)
LEMMA PublishKeeps ==
  ASSUME VDInv, NEW w \in Writer, Publish(w)
  PROVE  VDInv'
<1> USE VDAssumption DEF VDInv
<1> DEFINE c == wcopy[w]
<1>1. /\ UNCHANGED readerVars /\ ReaderPlaces'
      /\ \A d : ReadersOf(d)' = ReadersOf(d)
  BY WriterLeavesReaders DEF PublishAccess
<1>2. /\ c \in Copy /\ RepoOf[c] = "source" /\ Filled(c)
      /\ \A v \in Writer \ {w} : wcopy[v] # c
      /\ \A v \in Writer : mcopy[v] # c
  BY FilledByOne DEF Publish
<1>3. \A d \in Copy : Filled(d)' <=> Filled(d) /\ d # c
  BY <1>2 DEF Publish, Goto, Filled, Publishing, TypeOK
<1>4. /\ MovePtr("source", c)
      /\ num_readers' = [num_readers EXCEPT ![c] = @ + 1]
      /\ "source" \in Repo
  BY DEF Publish, Repo
<1>5. /\ state' \in [Copy -> {"FREE", "USED"}]
      /\ num_readers' \in [Copy -> Nat]
      /\ to_be_release' \in [Copy -> BOOLEAN]
      /\ repository_ptr' \in [Repo -> Copy \cup {NoCopy}]
      /\ PtrPlaces' /\ CopiesExact'
  BY <1>2, <1>3, <1>4, MoveKeeps
<1>6. TypeOK'
  BY <1>1, <1>5 DEF Publish, Goto, readerVars, TypeOK
<1>7. WriterPlaces' /\ OneWriter' /\ OneMirror'
  BY <1>2 DEF Publish, Goto, MovePtr, Repo, TypeOK, WriterPlaces, OneWriter, OneMirror, Publishing
<1>8. \A d \in Copy : WritersReading(d)'
                        = IF d = c THEN WritersReading(d) \cup {w} ELSE WritersReading(d)
  BY <1>2 DEF Publish, Goto, WritersReading, Publishing, TypeOK
<1>9. w \notin WritersReading(c)
  BY DEF Publish, WritersReading, Publishing
<1>10. ReadersCounted'
  BY <1>1, <1>2, <1>4, <1>8, <1>9, OneReaderMore
<1>11. QED
  BY <1>1, <1>5, <1>6, <1>7, <1>10

(* ldp_update_repository takes a copy of the mirror, or gives up. *)
LEMMA UpdateBeginKeeps ==
  ASSUME VDInv, NEW w \in Writer, UpdateBegin(w)
  PROVE  VDInv'
<1> USE VDAssumption DEF VDInv
<1>1. /\ UNCHANGED readerVars /\ ReaderPlaces'
      /\ \A d : ReadersOf(d)' = ReadersOf(d)
  BY WriterLeavesReaders DEF PublishAccess
<1>2. \A d \in Copy : WritersReading(d)' = WritersReading(d)
  BY DEF UpdateBegin, Goto, WritersReading, Publishing, TypeOK
<1>3. ReadersCounted'
  BY <1>1, <1>2, SameReaders DEF UpdateBegin
<1>4. CASE Goto(w, "end") /\ UNCHANGED <<state, data, mcopy, wbuf>>
  <2>1. TypeOK'
    BY <1>1, <1>4 DEF UpdateBegin, Goto, readerVars, TypeOK
  <2>2. WriterPlaces' /\ PtrPlaces' /\ OneWriter' /\ OneMirror'
    BY <1>4 DEF UpdateBegin, Goto, TypeOK, WriterPlaces, PtrPlaces, OneWriter, OneMirror,
                Publishing
  <2>3. SameHolders
    BY <1>1, <1>2, <1>4 DEF UpdateBegin, Goto, SameHolders, Filled, Publishing, TypeOK
  <2>4. QED
    BY <1>1, <2>1, <2>2, <2>3, SameHoldersKeep
<1>5. CASE \E c \in FreeCopies("mirror") : Taken(c) /\ mcopy' = [mcopy EXCEPT ![w] = c]
  <2>1. PICK c \in FreeCopies("mirror") : Taken(c) /\ mcopy' = [mcopy EXCEPT ![w] = c]
    BY <1>5
  <2>2. /\ c \in Copy /\ RepoOf[c] = "mirror" /\ num_readers[c] = 0
        /\ ~Pointed(c) /\ ~Filled(c) /\ ~to_be_release[c]
        /\ \A v \in Writer : wcopy[v] # c /\ mcopy[v] # c
    BY FreeIsUnheld DEF Repo
  <2>3. /\ wpc[w] = "update" /\ wpc' = [wpc EXCEPT ![w] = "updating"]
        /\ state' = [state EXCEPT ![c] = "USED"]
        /\ data' = [data EXCEPT ![c] = Torn]
        /\ wbuf' = [wbuf EXCEPT ![w] = data[wsrc[w]]]
        /\ UNCHANGED <<num_readers, to_be_release, repository_ptr, wcopy, wsrc, version>>
    BY <2>1 DEF UpdateBegin, Taken, Goto
  <2>4. TypeOK'
    BY <1>1, <2>1, <2>2, <2>3 DEF readerVars, TypeOK, WriterPlaces
  <2>5. WriterPlaces' /\ PtrPlaces' /\ OneWriter' /\ OneMirror'
    BY <2>1, <2>2, <2>3 DEF TypeOK, WriterPlaces, PtrPlaces, OneWriter, OneMirror, Publishing
  <2>6. \A d \in Copy : Filled(d)' <=> Filled(d) \/ d = c
    BY <2>1, <2>2, <2>3 DEF Filled, Publishing, TypeOK, WriterPlaces
  <2>7. CopiesExact'
    BY <2>2, <2>3, <2>6 DEF CopiesExact, Pointed, TypeOK
  <2>8. QED
    BY <1>1, <1>3, <2>4, <2>5, <2>7
<1>6. QED
  BY <1>4, <1>5 DEF UpdateBegin

(* ldp_update_repository publishes the copy of the mirror. *)
LEMMA UpdateMoveKeeps ==
  ASSUME VDInv, NEW w \in Writer, UpdateMove(w)
  PROVE  VDInv'
<1> USE VDAssumption DEF VDInv
<1> DEFINE c == mcopy[w]
<1>1. /\ UNCHANGED readerVars /\ ReaderPlaces'
      /\ \A d : ReadersOf(d)' = ReadersOf(d)
  BY WriterLeavesReaders DEF PublishAccess
<1>2. c \in Copy /\ RepoOf[c] = "mirror" /\ Filled(c)
  BY DEF UpdateMove, WriterPlaces, Filled
<1>3. /\ \A v \in Writer \ {w} : mcopy[v] # c
      /\ \A v \in Writer : wcopy[v] # c
  BY <1>2 DEF OneMirror, WriterPlaces
<1>4. \A d \in Copy : Filled(d)' <=> Filled(d) /\ d # c
  BY <1>2, <1>3 DEF UpdateMove, Goto, Filled, Publishing, TypeOK
<1>5. MovePtr("mirror", c) /\ num_readers' = num_readers /\ "mirror" \in Repo
  BY DEF UpdateMove, Repo
<1>6. /\ state' \in [Copy -> {"FREE", "USED"}]
      /\ num_readers' \in [Copy -> Nat]
      /\ to_be_release' \in [Copy -> BOOLEAN]
      /\ repository_ptr' \in [Repo -> Copy \cup {NoCopy}]
      /\ PtrPlaces' /\ CopiesExact'
  BY <1>2, <1>4, <1>5, MoveKeeps
<1>7. TypeOK'
  BY <1>1, <1>6 DEF UpdateMove, Goto, readerVars, TypeOK
<1>8. WriterPlaces' /\ OneWriter' /\ OneMirror'
  BY <1>2 DEF UpdateMove, Goto, MovePtr, Repo, TypeOK, WriterPlaces, OneWriter, OneMirror, Publishing
<1>9. \A d \in Copy : WritersReading(d)' = WritersReading(d)
  BY DEF UpdateMove, Goto, WritersReading, Publishing, TypeOK
<1>10. ReadersCounted'
  BY <1>1, <1>5, <1>9, SameReaders
<1>11. QED
  BY <1>1, <1>6, <1>7, <1>8, <1>10
-----------------------------------------------------------------------------
(* At first all copies are free. *)
LEMMA InitVDInv == Init => VDInv
<1> SUFFICES ASSUME Init PROVE VDInv
  OBVIOUS
<1> USE VDAssumption DEF Init
<1>1. TypeOK /\ WriterPlaces /\ ReaderPlaces /\ PtrPlaces /\ OneWriter /\ OneMirror
  BY DEF TypeOK, WriterPlaces, ReaderPlaces, PtrPlaces, OneWriter, OneMirror, Publishing
<1>2. \A c \in Copy : ReadersOf(c) = {} /\ WritersReading(c) = {}
  BY DEF ReadersOf, WritersReading, Publishing
<1>3. ReadersCounted
  <2>1. SUFFICES ASSUME NEW c \in Copy
                 PROVE  num_readers[c] = Cardinality(ReadersOf(c)) + Cardinality(WritersReading(c))
    BY DEF ReadersCounted
  <2>2. Cardinality(ReadersOf(c)) = 0 /\ Cardinality(WritersReading(c)) = 0
    BY <1>2, FS_EmptySet
  <2>3. QED
    BY <2>2
<1>4. CopiesExact
  BY DEF CopiesExact, Filled, Pointed, Publishing
<1>5. QED
  BY <1>1, <1>3, <1>4 DEF VDInv

(* Every step keeps the invariant. *)
LEMMA StepKeepsVDInv == VDInv /\ [Next]_vars => VDInv'
<1> SUFFICES ASSUME VDInv, [Next]_vars PROVE VDInv'
  OBVIOUS
<1>1. ASSUME NEW w \in Writer, Access(w) PROVE VDInv'
  BY <1>1, GetWrittenKeeps, CopyEndKeeps, CopyReleaseKeeps, WriteKeeps, CancelKeeps DEF Access
<1>2. ASSUME NEW w \in Writer, PublishAccess(w) PROVE VDInv'
  BY <1>2, PublishKeeps, NotifyKeeps, UpdateBeginKeeps, UpdateEndKeeps, UpdateMoveKeeps,
     PublishEndKeeps DEF PublishAccess
<1>3. ASSUME NEW x \in Reader, Read(x) PROVE VDInv'
  BY <1>3, ReadKeeps
<1>4. CASE UNCHANGED vars
  BY <1>4 DEF vars, copyVars, writerVars, readerVars, VDInv, TypeOK, WriterPlaces,
              ReaderPlaces, PtrPlaces, OneWriter, OneMirror, CopiesExact, Filled, Pointed,
              ReadersCounted, ReadersOf, WritersReading, Publishing
<1>5. QED
  BY <1>1, <1>2, <1>3, <1>4 DEF Next

(* A copy is used exactly as long as somebody holds it. *)
LEMMA InvImpliesUsedIsHeld == VDInv => UsedIsHeld
<1> SUFFICES ASSUME VDInv, NEW c \in Copy PROVE (state[c] = "USED") = Held(c)
  BY DEF UsedIsHeld
<1>1. num_readers[c] > 0 <=> (ReadersOf(c) # {} \/ WritersReading(c) # {})
  BY ReadersAreCounted, UnreadHasNoReaders DEF VDInv
<1>2. Held(c) <=> Filled(c) \/ Pointed(c) \/ num_readers[c] > 0
  BY <1>1 DEF Held, Filled, Pointed
<1>3. QED
  BY <1>2 DEF VDInv, CopiesExact, Held

(* For any number of writers, readers and copies: the reader counts of      *)
(* ldp_VD.c are exact, a copy is used exactly while it is published, filled *)
(* or read, and no copy is given to two writers.                            *)
THEOREM VDInvariant == Spec => [](TypeOK /\ ReadersCounted /\ UsedIsHeld /\ OneWriter)
<1>1. VDInv => TypeOK /\ ReadersCounted /\ UsedIsHeld /\ OneWriter
  BY InvImpliesUsedIsHeld DEF VDInv
<1>2. QED
  BY <1>1, InitVDInv, StepKeepsVDInv, PTL DEF Spec

-----------------------------------------------------------------------------
(* To the readers of its source repository, LdpVD is a register: it        *)
(* implements VersionedRegister.                                           *)

(* The copy that was published and those about to be hold versions, all of  *)
(* them different.                                                          *)
PublishedIsVersion ==
  repository_ptr["source"] # NoCopy => data[repository_ptr["source"]] \in Version

WrittenIsVersion ==
  \A w \in Writer : wpc[w] = "written" =>
    /\ data[wcopy[w]] \in Version
    /\ repository_ptr["source"] # NoCopy =>
         data[wcopy[w]] # data[repository_ptr["source"]]
    /\ \A v \in Writer \ {w} : wpc[v] = "written" => data[wcopy[v]] # data[wcopy[w]]

VersionsSoFar == \A c \in Copy : data[c] <= version

(* What a reader has is a version, and while it copies, the copy has it, too. *)
ReadIsVersion ==
  \A x \in SourceReader :
    /\ rpc[x] = "idle" => rbuf[x] = NoVersion
    /\ rpc[x] # "idle" => rbuf[x] \in Version
    /\ rpc[x] = "copying" => data[rsrc[x]] = rbuf[x]

(* What is said of the data, on top of VDInv. *)
DataInv ==
  /\ VDInv
  /\ PublishedIsVersion /\ WrittenIsVersion /\ VersionsSoFar /\ ReadIsVersion
-----------------------------------------------------------------------------
Pub == repository_ptr["source"]

(* The copies whose data nobody writes: published, read, or written and     *)
(* about to be published.                                                   *)
Settled(c) ==
  \/ Pointed(c) \/ num_readers[c] > 0
  \/ \E w \in Writer : wpc[w] = "written" /\ wcopy[w] = c

(* A settled copy is not free, and only a written one is filled. *)
LEMMA SettledIsUsed ==
  ASSUME VDInv, NEW c \in Copy, Settled(c)
  PROVE  /\ \A r \in Repo : c \notin FreeCopies(r)
         /\ \A w \in Writer : wpc[w] \in {"copying", "holding"} => wcopy[w] # c
         /\ \A w \in Writer : wpc[w] = "updating" => mcopy[w] # c
<1> USE DEF VDInv
<1>1. CASE Pointed(c) \/ num_readers[c] > 0
  <2>1. ~Filled(c) /\ state[c] = "USED"
    BY <1>1 DEF CopiesExact
  <2>2. QED
    BY <2>1 DEF Filled, FreeCopies, Publishing
<1>2. ASSUME NEW w \in Writer, wpc[w] = "written", wcopy[w] = c
      PROVE  /\ \A r \in Repo : c \notin FreeCopies(r)
             /\ \A v \in Writer : wpc[v] \in {"copying", "holding"} => wcopy[v] # c
             /\ \A v \in Writer : wpc[v] = "updating" => mcopy[v] # c
  <2>1. /\ Filled(c)
        /\ \A v \in Writer \ {w} : wcopy[v] # c
        /\ \A v \in Writer : mcopy[v] # c
    BY <1>2, FilledByOne
  <2>2. state[c] = "USED"
    BY <2>1 DEF CopiesExact
  <2>3. QED
    BY <1>2, <2>1, <2>2 DEF FreeCopies
<1>3. QED
  BY <1>1, <1>2 DEF Settled

(* No writer changes the data of a settled copy. *)
LEMMA SettledIsStable ==
  ASSUME VDInv, NEW c \in Copy, Settled(c),
         NEW w \in Writer, Access(w) \/ PublishAccess(w)
  PROVE  data'[c] = data[c]
<1> USE DEF VDInv, TypeOK, Repo
<1>1. CASE GetWritten(w)
  BY <1>1, SettledIsUsed DEF GetWritten, Taken
<1>2. CASE CopyEnd(w)
  BY <1>2, SettledIsUsed DEF CopyEnd
<1>3. CASE Write(w)
  BY <1>3, SettledIsUsed DEF Write
<1>4. CASE UpdateBegin(w)
  BY <1>4, SettledIsUsed DEF UpdateBegin, Taken
<1>5. CASE UpdateEnd(w)
  BY <1>5, SettledIsUsed DEF UpdateEnd
<1>6. CASE CopyRelease(w) \/ Cancel(w) \/ Publish(w) \/ Notify(w) \/ UpdateMove(w) \/ PublishEnd(w)
  BY <1>6 DEF CopyRelease, Cancel, Publish, Notify, UpdateMove, PublishEnd, copyVars
<1>7. QED
  BY <1>1, <1>2, <1>3, <1>4, <1>5, <1>6 DEF Access, PublishAccess

(* A writer's step keeps what its readers read. *)
LEMMA WriterKeepsReads ==
  ASSUME DataInv, NEW w \in Writer, Access(w) \/ PublishAccess(w)
  PROVE  UNCHANGED <<rpc, rsrc, rbuf>> /\ ReadIsVersion'
<1>1. UNCHANGED <<rpc, rsrc, rbuf>>
  BY WriterLeavesReaders DEF DataInv, readerVars
<1>2. ASSUME NEW x \in SourceReader, rpc[x] = "copying"
      PROVE  data'[rsrc[x]] = data[rsrc[x]]
  <2>1. rsrc[x] \in Copy /\ x \in ReadersOf(rsrc[x])
    BY <1>2 DEF DataInv, VDInv, ReaderPlaces, ReadersOf, SourceReader
  <2>2. num_readers[rsrc[x]] > 0
    BY <2>1, ReadersAreCounted DEF DataInv, VDInv
  <2>3. QED
    BY <2>1, <2>2, SettledIsStable DEF Settled, DataInv
<1>3. QED
  BY <1>1, <1>2 DEF DataInv, ReadIsVersion

(* No step makes a version newer than the newest. *)
LEMMA WriterKeepsVersions ==
  ASSUME DataInv, NEW w \in Writer, Access(w) \/ PublishAccess(w)
  PROVE  VersionsSoFar'
<1> USE DEF DataInv, VDInv, TypeOK, VersionsSoFar, Version
<1>1. CASE GetWritten(w)
  BY <1>1 DEF GetWritten, Taken, FreeCopies, Torn
<1>2. CASE CopyEnd(w)
  <2>1. wsrc[w] \in Copy
    BY <1>2 DEF CopyEnd, WriterPlaces
  <2>2. QED
    BY <1>2, <2>1 DEF CopyEnd, Copied, Torn
<1>3. CASE Write(w)
  BY <1>3 DEF Write, NoVersion, Torn
<1>4. CASE UpdateBegin(w)
  BY <1>4 DEF UpdateBegin, Taken, FreeCopies, Torn
<1>5. CASE UpdateEnd(w)
  <2>1. wsrc[w] \in Copy
    BY <1>5 DEF UpdateEnd, WriterPlaces
  <2>2. QED
    BY <1>5, <2>1 DEF UpdateEnd, Copied, Torn
<1>6. CASE CopyRelease(w) \/ Cancel(w) \/ Publish(w) \/ Notify(w) \/ UpdateMove(w) \/ PublishEnd(w)
  BY <1>6 DEF CopyRelease, Cancel, Publish, Notify, UpdateMove, PublishEnd, copyVars
<1>7. QED
  BY <1>1, <1>2, <1>3, <1>4, <1>5, <1>6 DEF Access, PublishAccess

(* Only Publish moves the pointer of the source. *)
LEMMA PubMoves ==
  ASSUME DataInv, NEW w \in Writer, Access(w) \/ PublishAccess(w), ~Publish(w)
  PROVE  /\ Pub' = Pub
         /\ Pub # NoCopy => Pub \in Copy /\ data'[Pub] = data[Pub]
<1> USE VDAssumption DEF DataInv, VDInv, Pub
<1>1. Pub' = Pub
  BY DEF Access, PublishAccess, GetWritten, CopyEnd, CopyRelease, Write, Cancel,
         Notify, UpdateBegin, UpdateEnd, UpdateMove, PublishEnd, copyVars, MovePtr,
         TypeOK, Repo
<1>2. ASSUME Pub # NoCopy PROVE Pub \in Copy /\ data'[Pub] = data[Pub]
  <2>1. Pub \in Copy /\ Pointed(Pub)
    BY <1>2 DEF TypeOK, PtrPlaces, Pointed, Repo
  <2>2. QED
    BY <2>1, SettledIsStable DEF Settled
<1>3. QED
  BY <1>1, <1>2

(* The versions written and not published yet stay apart. *)
LEMMA WriterKeepsWritten ==
  ASSUME DataInv, NEW w \in Writer, Access(w) \/ PublishAccess(w)
  PROVE  PublishedIsVersion' /\ WrittenIsVersion'
<1> USE VDAssumption DEF DataInv, VDInv, Pub
<1>1. ASSUME NEW v \in Writer, wpc[v] = "written"
      PROVE  /\ wcopy[v] \in Copy /\ data'[wcopy[v]] = data[wcopy[v]]
             /\ v # w => wpc'[v] = "written" /\ wcopy'[v] = wcopy[v]
  <2>1. wcopy[v] \in Copy
    BY <1>1 DEF WriterPlaces
  <2>2. data'[wcopy[v]] = data[wcopy[v]]
    BY <1>1, <2>1, SettledIsStable DEF Settled
  <2>3. ASSUME v # w PROVE wpc'[v] = "written" /\ wcopy'[v] = wcopy[v]
    BY <1>1, <2>3 DEF Access, PublishAccess, GetWritten, CopyEnd, CopyRelease, Write, Cancel,
           Publish, Notify, UpdateBegin, UpdateEnd, UpdateMove, PublishEnd, Goto, TypeOK
  <2>4. QED
    BY <2>1, <2>2, <2>3
<1>2. CASE Write(w)
  <2>1. /\ wpc'[w] = "written" /\ wcopy' = wcopy /\ wcopy[w] \in Copy
        /\ data' = [data EXCEPT ![wcopy[w]] = version + 1]
        /\ version + 1 \in Version
        /\ \A v \in Writer \ {w} : wpc'[v] = wpc[v]
    BY <1>2 DEF Write, Goto, TypeOK, WriterPlaces, Version
  <2>2. \A c \in Copy : data[c] # version + 1
    BY DEF VersionsSoFar, TypeOK, Version, NoVersion, Torn
  <2>3. Pub' = Pub /\ (Pub # NoCopy => Pub \in Copy /\ data'[Pub] = data[Pub])
    BY <1>2, PubMoves DEF Write, Publish
  <2>4. PublishedIsVersion'
    BY <2>3 DEF PublishedIsVersion
  <2>5. data'[wcopy[w]] = version + 1
    BY <2>1 DEF TypeOK
  <2>6. ASSUME NEW v \in Writer \ {w}, wpc'[v] = "written"
        PROVE  /\ wpc[v] = "written" /\ wcopy[v] \in Copy
               /\ data'[wcopy[v]] = data[wcopy[v]] /\ data'[wcopy[v]] # data'[wcopy[w]]
    BY <1>1, <2>1, <2>2, <2>5, <2>6
  <2>7. Pub # NoCopy => data'[wcopy[w]] # data'[Pub]
    BY <2>2, <2>3, <2>5
  <2>8. QED
    BY <2>1, <2>3, <2>4, <2>5, <2>6, <2>7 DEF WrittenIsVersion
<1>3. CASE Publish(w)
  <2>1. /\ Pub' = wcopy[w] /\ wpc[w] = "written" /\ wpc' = [wpc EXCEPT ![w] = "notify"]
        /\ UNCHANGED <<data, wcopy>>
    BY <1>3 DEF Publish, MovePtr, Goto, TypeOK, Repo
  <2>2. PublishedIsVersion'
    BY <2>1 DEF PublishedIsVersion, WrittenIsVersion
  <2>3. WrittenIsVersion'
    BY <2>1 DEF WrittenIsVersion, TypeOK
  <2>4. QED
    BY <2>2, <2>3
<1>4. CASE ~Write(w) /\ ~Publish(w)
  <2>1. Pub' = Pub /\ (Pub # NoCopy => Pub \in Copy /\ data'[Pub] = data[Pub])
    BY <1>4, PubMoves
  <2>2. \A v \in Writer : wpc'[v] = "written" => wpc[v] = "written" /\ v # w
    BY <1>4 DEF Access, PublishAccess, GetWritten, CopyEnd, CopyRelease, Cancel,
           Notify, UpdateBegin, UpdateEnd, UpdateMove, PublishEnd, Goto, TypeOK
  <2>3. PublishedIsVersion'
    BY <2>1 DEF PublishedIsVersion
  <2>4. WrittenIsVersion'
    BY <1>1, <2>1, <2>2 DEF WrittenIsVersion
  <2>5. QED
    BY <2>3, <2>4
<1>5. QED
  BY <1>2, <1>3, <1>4

(* The steps of writers: a publication, or nothing a reader notices. *)
LEMMA WriterStep ==
  ASSUME DataInv, NEW w \in Writer, Access(w) \/ PublishAccess(w)
  PROVE  DataInv' /\ [Register!Next]_(Register!vars)
<1>1. DataInv'
  BY StepKeepsVDInv, WriterKeepsReads, WriterKeepsVersions, WriterKeepsWritten
     DEF DataInv, Next
<1>2. \A x \in SourceReader : Seen(x)' = Seen(x)
  <2>1. UNCHANGED <<rpc, rsrc, rbuf>>
    BY WriterKeepsReads
  <2>2. \A x \in SourceReader : Seen(x) = rbuf[x]
    BY DEF DataInv, ReadIsVersion, Seen, Copied
  <2>3. \A x \in SourceReader : Seen(x)' = rbuf'[x]
    BY <1>1 DEF DataInv, ReadIsVersion, Seen, Copied
  <2>4. QED
    BY <2>1, <2>2, <2>3
<1>3. CASE Publish(w)
  <2>1. /\ Pub' = wcopy[w] /\ wpc[w] = "written" /\ data' = data /\ wcopy[w] # NoCopy
    BY <1>3, VDAssumption
       DEF Publish, MovePtr, Pub, Repo, DataInv, VDInv, TypeOK, WriterPlaces
  <2>2. Register!Publish
    BY <1>2, <2>1 DEF Register!Publish, DataInv, WrittenIsVersion, Pub, Version, NoVersion
  <2>3. QED
    BY <1>1, <2>2 DEF Register!Next
<1>4. CASE ~Publish(w)
  <2>1. Pub' = Pub /\ (Pub # NoCopy => data'[Pub] = data[Pub])
    BY <1>4, PubMoves
  <2>2. UNCHANGED Register!vars
    BY <1>2, <2>1 DEF Register!vars, Pub
  <2>3. QED
    BY <1>1, <2>2
<1>5. QED
  BY <1>3, <1>4

(* The steps of readers. *)
LEMMA ReaderStep ==
  ASSUME DataInv, NEW x \in Reader, Read(x)
  PROVE  DataInv' /\ [Register!Next]_(Register!vars)
<1> USE VDAssumption DEF SourceReader
<1>1. UNCHANGED <<data, repository_ptr, wpc, wcopy, version>>
  BY DEF Read, ReadBegin, ReadEnd, ReadRelease, ReleaseRead, copyVars, writerVars
<1>2. PublishedIsVersion' /\ WrittenIsVersion' /\ VersionsSoFar'
  BY <1>1 DEF DataInv, PublishedIsVersion, WrittenIsVersion, VersionsSoFar
<1>3. VDInv'
  BY StepKeepsVDInv DEF DataInv, Next
<1>4. rpc[x] \in {"idle", "copying", "copied", "reading"} /\ rsrc' \in [Reader -> Copy \cup {NoCopy}]
  BY <1>3 DEF DataInv, VDInv, TypeOK
<1>5. ReadIsVersion'
  <2>1. CASE ReadBegin(x)
    BY <1>1, <2>1 DEF ReadBegin, RGoto, DataInv, ReadIsVersion, PublishedIsVersion, VDInv, TypeOK
  <2>2. CASE ReadEnd(x)
    BY <1>1, <2>2 DEF ReadEnd, RGoto, Copied, DataInv, ReadIsVersion, VDInv, TypeOK
  <2>3. CASE ReadRelease(x)
    BY <1>1, <2>3 DEF ReadRelease, RGoto, DataInv, ReadIsVersion, VDInv, TypeOK
  <2>4. CASE ReleaseRead(x)
    BY <1>1, <2>4 DEF ReleaseRead, RGoto, DataInv, ReadIsVersion, VDInv, TypeOK
  <2>5. QED
    BY <2>1, <2>2, <2>3, <2>4 DEF Read
<1>6. DataInv'
  BY <1>2, <1>3, <1>5 DEF DataInv
<1>7. \A y \in SourceReader : Seen(y) = rbuf[y] /\ Seen(y)' = rbuf'[y]
  BY <1>6 DEF DataInv, ReadIsVersion, Seen, Copied
<1>8. CASE x \notin SourceReader \/ ReadEnd(x) \/ ReadRelease(x)
  <2>1. \A y \in SourceReader : rbuf'[y] = rbuf[y]
    BY <1>1, <1>8 DEF Read, ReadBegin, ReadEnd, ReadRelease, ReleaseRead, Copied,
                      DataInv, ReadIsVersion, VDInv, TypeOK
  <2>2. UNCHANGED Register!vars
    BY <1>1, <1>7, <2>1 DEF Register!vars
  <2>3. QED
    BY <1>6, <2>2
<1>9. CASE x \in SourceReader /\ ReadBegin(x)
  <2>1. /\ rbuf[x] = NoVersion /\ Pub # NoCopy
        /\ rbuf' = [rbuf EXCEPT ![x] = data[Pub]]
    BY <1>9 DEF ReadBegin, Pub, DataInv, ReadIsVersion
  <2>2. [y \in SourceReader |-> Seen(y)]'
          = [[y \in SourceReader |-> Seen(y)] EXCEPT ![x] = data[Pub]]
    BY <1>7, <2>1 DEF DataInv, VDInv, TypeOK
  <2>3. data[Pub] # NoVersion
    BY <2>1 DEF DataInv, PublishedIsVersion, Pub, Version, NoVersion
  <2>4. Register!Read(x)
    BY <1>1, <1>7, <1>9, <2>1, <2>2, <2>3 DEF Register!Read, Pub
  <2>5. QED
    BY <1>6, <1>9, <2>4 DEF Register!Next
<1>10. CASE x \in SourceReader /\ ReleaseRead(x)
  <2>1. [y \in SourceReader |-> Seen(y)]'
          = [[y \in SourceReader |-> Seen(y)] EXCEPT ![x] = NoVersion]
    BY <1>7, <1>10 DEF ReleaseRead, DataInv, VDInv, TypeOK
  <2>2. Register!Release(x)
    BY <1>1, <2>1 DEF Register!Release
  <2>3. QED
    BY <1>6, <1>10, <2>2 DEF Register!Next
<1>11. QED
  BY <1>8, <1>9, <1>10 DEF Read

(* For any number of writers, readers and copies: reads of the source take  *)
(* effect at one instant and give what was published last, whole, while     *)
(* writers fill, publish and free copies without waiting for readers.       *)
THEOREM VDImplementsRegister == Spec => ImplementsRegister
<1>1. Init => DataInv
  BY InitVDInv, VDAssumption
     DEF Init, DataInv, PublishedIsVersion, WrittenIsVersion, VersionsSoFar, ReadIsVersion,
         SourceReader, Repo, NoVersion
<1>2. Init => Register!Init
  BY VDAssumption DEF Init, Register!Init, Seen, Copied, SourceReader, Repo
<1>3. DataInv /\ [Next]_vars => DataInv' /\ [Register!Next]_(Register!vars)
  <2> SUFFICES ASSUME DataInv, [Next]_vars
               PROVE  DataInv' /\ [Register!Next]_(Register!vars)
    OBVIOUS
  <2>1. CASE UNCHANGED vars
    <3>1. VDInv'
      BY StepKeepsVDInv DEF DataInv
    <3>2. DataInv' /\ UNCHANGED Register!vars
      BY <2>1, <3>1 DEF vars, copyVars, writerVars, readerVars, DataInv, PublishedIsVersion,
             WrittenIsVersion, VersionsSoFar, ReadIsVersion, Register!vars, Seen, Copied
    <3>3. QED
      BY <3>2
  <2>2. QED
    BY <2>1, WriterStep, ReaderStep DEF Next
<1>4. QED
  BY <1>1, <1>2, <1>3, PTL DEF Spec, ImplementsRegister, Register!Spec

-----------------------------------------------------------------------------
(* The condition variables of the APR over APEX: any number of threads, of   *)
(* signals and of waits that time out.                                      *)
InWait == {t \in Waiter : Inside(t)}
Awake == {t \in Waiter : Woken(t)}

CondTypes ==
  /\ at \in [Waiter -> {"out", "locked", "waits", "blocked", "woken", "expired", "done"}]
  /\ blocked \in Seq(Waiter)
  /\ waiters \in Nat /\ pending_signals \in Nat /\ tokens \in Nat

(* The queue of the semaphore holds each thread that is blocked once. *)
QueuedOnce ==
  /\ \A i \in DOMAIN blocked : at[blocked[i]] = "blocked"
  /\ \A i, j \in DOMAIN blocked : blocked[i] = blocked[j] => i = j

Counted ==
  /\ waiters = Cardinality(InWait)
  /\ pending_signals = tokens + Cardinality(Awake)
  /\ pending_signals <= waiters

CondInv == CondTypes /\ QueuedOnce /\ Counted

-----------------------------------------------------------------------------
(* Both sets are finite, and who is awake has not left the wait. *)
LEMMA SetsAreFinite ==
  /\ IsFiniteSet(InWait) /\ IsFiniteSet(Awake)
  /\ Cardinality(InWait) \in Nat /\ Cardinality(Awake) \in Nat
  /\ Awake \subseteq InWait
<1>1. InWait \in SUBSET Waiter /\ Awake \in SUBSET Waiter  BY DEF InWait, Awake
<1>2. IsFiniteSet(InWait) /\ IsFiniteSet(Awake)  BY <1>1, CondAssumption, FS_Subset
<1>3. Awake \subseteq InWait  BY DEF InWait, Awake, Inside, Woken
<1> QED  BY <1>2, <1>3, FS_CardinalityType

(* The sets of the next state are those of a thread that moves. *)
LEMMA ThreadMoves ==
  ASSUME CondTypes, NEW t \in Waiter, NEW w, Now(t, w),
         w \in {"out", "locked", "waits", "blocked", "woken", "expired", "done"}
  PROVE  /\ at' \in [Waiter -> {"out", "locked", "waits", "blocked", "woken", "expired", "done"}]
         /\ at'[t] = w /\ \A u \in Waiter \ {t} : at'[u] = at[u]
         /\ InWait' = IF w \in {"waits", "blocked", "woken", "expired"}
                      THEN InWait \cup {t} ELSE InWait \ {t}
         /\ Awake' = IF w = "woken" THEN Awake \cup {t} ELSE Awake \ {t}
<1>1. at' = [at EXCEPT ![t] = w]  BY DEF Now
<1>2. \A u \in Waiter : at'[u] = IF u = t THEN w ELSE at[u]
  BY <1>1 DEF CondTypes
<1> QED  BY <1>1, <1>2 DEF CondTypes, InWait, Awake, Inside, Woken

(* A queue whose threads do not move stays as it is. *)
LEMMA QueueStays ==
  ASSUME CondTypes, QueuedOnce, NEW t \in Waiter, at[t] # "blocked",
         \A u \in Waiter \ {t} : at'[u] = at[u], UNCHANGED blocked
  PROVE  QueuedOnce'
<1>1. \A i \in DOMAIN blocked : blocked[i] \in Waiter  BY DEF CondTypes
<1> QED  BY <1>1 DEF QueuedOnce

(* The smaller of two numbers. *)
LEMMA LeastOfTwo ==
  ASSUME NEW a \in Nat, NEW b \in Nat
  PROVE  Min({a, b}) = IF a <= b THEN a ELSE b
<1>1. CASE a <= b
  <2>1. a \in {a, b} /\ \A y \in {a, b} : a <= y  BY <1>1
  <2>2. \A x \in {a, b} : (\A y \in {a, b} : x <= y) => x = a  BY <1>1
  <2> QED  BY <1>1, <2>1, <2>2 DEF Min
<1>2. CASE ~(a <= b)
  <2>1. b \in {a, b} /\ \A y \in {a, b} : b <= y  BY <1>2
  <2>2. \A x \in {a, b} : (\A y \in {a, b} : x <= y) => x = b  BY <1>2
  <2> QED  BY <1>2, <2>1, <2>2 DEF Min
<1> QED  BY <1>1, <1>2

(* SIGNAL_SEMAPHORE n times: as many tokens or threads awake more. *)
LEMMA SignalCounts ==
  ASSUME CondTypes, QueuedOnce, NEW n \in Nat, SignalSemaphore(n)
  PROVE  /\ at' \in [Waiter -> {"out", "locked", "waits", "blocked", "woken", "expired", "done"}]
         /\ blocked' \in Seq(Waiter) /\ tokens' \in Nat /\ QueuedOnce'
         /\ InWait' = InWait
         /\ tokens' + Cardinality(Awake') = tokens + Cardinality(Awake) + n
<1> DEFINE l == Len(blocked)
           g == Min({n, l})
           first == ToSet(SubSeq(blocked, 1, g))
<1>1. l \in Nat /\ DOMAIN blocked = 1 .. l /\ \A i \in 1 .. l : blocked[i] \in Waiter
  BY DEF CondTypes
<1>2. g \in Nat /\ g <= n /\ g <= l
  BY <1>1, LeastOfTwo
<1>3. /\ blocked' = SubSeq(blocked, g + 1, l)
      /\ at' = [t \in Waiter |-> IF t \in first THEN "woken" ELSE at[t]]
      /\ tokens' = tokens + n - g
  BY DEF SignalSemaphore
<1> HIDE DEF l, g
<1>4. /\ SubSeq(blocked, 1, g) \in Seq(Waiter) /\ Len(SubSeq(blocked, 1, g)) = g
      /\ \A i \in 1 .. g : SubSeq(blocked, 1, g)[i] = blocked[i]
  BY <1>1, <1>2, SubSeqProperties
<1>5. first = {blocked[i] : i \in 1 .. g}
  <2>1. DOMAIN SubSeq(blocked, 1, g) = 1 .. g  BY <1>4
  <2> QED  BY <2>1, <1>4 DEF ToSet
<1> HIDE DEF first
<1>6. \A i \in 1 .. g : i \in 1 .. l  BY <1>1, <1>2
<1>7. first \subseteq Waiter /\ \A t \in first : at[t] = "blocked"
  BY <1>1, <1>5, <1>6 DEF QueuedOnce
<1>8. IsFiniteSet(first) /\ Cardinality(first) = g
  <2> DEFINE f == [i \in 1 .. g |-> blocked[i]]
  <2>1. f \in Bijection(1 .. g, first)
    <3>1. f \in [1 .. g -> first] /\ \A y \in first : \E i \in 1 .. g : f[i] = y  BY <1>5
    <3>2. \A i, j \in 1 .. g : f[i] = f[j] => i = j  BY <1>1, <1>6 DEF QueuedOnce
    <3> QED  BY <3>1, <3>2, Fun_IsBij
  <2>2. IsFiniteSet(1 .. g) /\ Cardinality(1 .. g) = g  BY <1>2, FS_Interval
  <2>3. ExistsBijection(1 .. g, first)  BY <2>1 DEF ExistsBijection
  <2> HIDE DEF f
  <2> QED  BY <2>2, <2>3, FS_Bijection
<1>9. \A t \in Waiter : at'[t] = IF t \in first THEN "woken" ELSE at[t]
  BY <1>3
<1>10. InWait' = InWait  BY <1>7, <1>9 DEF InWait, Inside
<1>11. Cardinality(Awake') = Cardinality(Awake) + g
  <2>1. Awake' = Awake \cup first /\ Awake \cap first = {}  BY <1>7, <1>9 DEF Awake, Woken
  <2>2. Cardinality(Awake \cup first)
          = Cardinality(Awake) + Cardinality(first) - Cardinality(Awake \cap first)
    BY <1>8, SetsAreFinite, FS_Union
  <2>3. Cardinality(Awake \cap first) = 0  BY <2>1, FS_EmptySet
  <2> QED  BY <2>1, <2>2, <2>3, <1>8, <1>2, SetsAreFinite
<1>12. /\ blocked' \in Seq(Waiter) /\ DOMAIN blocked' = 1 .. (l - g)
       /\ \A i \in 1 .. (l - g) : blocked'[i] = blocked[g + i] /\ g + i \in 1 .. l
  <2>1. \A i \in g + 1 .. l : blocked[i] \in Waiter  BY <1>1, <1>2
  <2>2. /\ blocked' \in Seq(Waiter)
        /\ Len(blocked') = IF g + 1 <= l THEN l - (g + 1) + 1 ELSE 0
        /\ \A i \in 1 .. l - (g + 1) + 1 : blocked'[i] = blocked[g + 1 + i - 1]
    BY <1>1, <1>2, <1>3, <2>1, SubSeqProperties
  <2>3. Len(blocked') = l - g  BY <2>2, <1>1, <1>2
  <2>4. l - (g + 1) + 1 = l - g  BY <1>1, <1>2
  <2>5. \A i \in 1 .. (l - g) : g + 1 + i - 1 = g + i /\ g + i \in 1 .. l  BY <1>1, <1>2
  <2>6. \A i \in 1 .. (l - g) : blocked'[i] = blocked[g + i]  BY <2>2, <2>4, <2>5
  <2> QED  BY <2>2, <2>3, <2>5, <2>6
<1>13. QueuedOnce'
  <2>1. \A i \in 1 .. (l - g) : blocked'[i] \notin first
    <3>1. \A i \in 1 .. (l - g), j \in 1 .. g : blocked[g + i] # blocked[j]
      BY <1>1, <1>2, <1>6, <1>12 DEF QueuedOnce
    <3> QED  BY <3>1, <1>5, <1>12
  <2>2. \A i \in 1 .. (l - g) : at'[blocked'[i]] = "blocked"
    BY <2>1, <1>1, <1>9, <1>12 DEF QueuedOnce
  <2>3. \A i, j \in 1 .. (l - g) : blocked'[i] = blocked'[j] => i = j
    <3>1. \A i, j \in 1 .. (l - g) : blocked[g + i] = blocked[g + j] => g + i = g + j
      BY <1>1, <1>12 DEF QueuedOnce
    <3>2. \A i, j \in 1 .. (l - g) : g + i = g + j => i = j  BY <1>1, <1>2
    <3> QED  BY <3>1, <3>2, <1>12
  <2> QED  BY <2>2, <2>3, <1>12 DEF QueuedOnce
<1>14. at' \in [Waiter -> {"out", "locked", "waits", "blocked", "woken", "expired", "done"}]
  BY <1>3 DEF CondTypes
<1>15. tokens' \in Nat  BY <1>2, <1>3 DEF CondTypes
<1> QED  BY <1>2, <1>3, <1>10, <1>11, <1>12, <1>13, <1>14, <1>15, SetsAreFinite DEF CondTypes

(* Where the k-th member was before the i-th was removed. *)
Before(k, i) == IF k < i THEN k ELSE k + 1

(* A sequence without its i-th member. *)
LEMMA Removed ==
  ASSUME NEW T, NEW s \in Seq(T), NEW i \in DOMAIN s
  PROVE  /\ RemoveAt(s, i) \in Seq(T) /\ DOMAIN RemoveAt(s, i) = 1..(Len(s) - 1)
         /\ DOMAIN s = 1..Len(s) /\ Len(s) \in Nat \ {0} /\ i \in 1..Len(s)
         /\ \A k \in 1..(Len(s) - 1) :
              Before(k, i) \in 1..Len(s) /\ Before(k, i) # i /\ RemoveAt(s, i)[k] = s[Before(k, i)]
         /\ \A j, k \in 1..(Len(s) - 1) : Before(j, i) = Before(k, i) => j = k
         /\ \A j \in 1..Len(s) : j # i => \E k \in 1..(Len(s) - 1) : Before(k, i) = j
<1> DEFINE l == Len(s)
           before == SubSeq(s, 1, i - 1)
           after == SubSeq(s, i + 1, l)
<1>1. l \in Nat \ {0} /\ DOMAIN s = 1..l /\ i \in 1..l /\ \A j \in 1..l : s[j] \in T
  OBVIOUS
<1>2. RemoveAt(s, i) = before \o after  BY DEF RemoveAt
<1>3. /\ before \in Seq(T) /\ Len(before) = i - 1
      /\ \A j \in 1..(i - 1) : before[j] = s[j]
  <2> HIDE DEF l
  <2>1. i - 1 \in Int /\ \A j \in 1..(i - 1) : s[j] \in T  BY <1>1
  <2>2. /\ before \in Seq(T) /\ Len(before) = IF 1 <= i - 1 THEN i - 1 - 1 + 1 ELSE 0
        /\ \A j \in 1 .. i - 1 - 1 + 1 : before[j] = s[1 + j - 1]
    BY <2>1, SubSeqProperties
  <2>3. i - 1 - 1 + 1 = i - 1 /\ (1 <= i - 1 \/ i - 1 = 0)  BY <1>1
  <2>4. \A j \in 1..(i - 1) : 1 + j - 1 = j  OBVIOUS
  <2> HIDE DEF before
  <2>5. \A j \in 1..(i - 1) : before[j] = s[j]  BY <2>2, <2>3, <2>4
  <2> QED  BY <2>2, <2>3, <2>5
<1>4. /\ after \in Seq(T) /\ Len(after) = l - i
      /\ \A j \in 1..(l - i) : after[j] = s[i + j]
  <2> HIDE DEF l
  <2>1. i + 1 \in Int /\ \A j \in (i + 1)..l : s[j] \in T  BY <1>1
  <2>2. /\ after \in Seq(T) /\ Len(after) = IF i + 1 <= l THEN l - (i + 1) + 1 ELSE 0
        /\ \A j \in 1 .. l - (i + 1) + 1 : after[j] = s[i + 1 + j - 1]
    BY <2>1, <1>1, SubSeqProperties
  <2>3. l - (i + 1) + 1 = l - i /\ (i + 1 <= l \/ l - i = 0)  BY <1>1
  <2>4. \A j \in 1..(l - i) : i + 1 + j - 1 = i + j  BY <1>1
  <2> HIDE DEF after
  <2>5. \A j \in 1..(l - i) : after[j] = s[i + j]  BY <2>2, <2>3, <2>4
  <2> QED  BY <2>2, <2>3, <2>5
<1> HIDE DEF l, before, after
<1>5. RemoveAt(s, i) \in Seq(T) /\ DOMAIN RemoveAt(s, i) = 1..(l - 1)
  BY <1>1, <1>2, <1>3, <1>4
<1>6. ASSUME NEW k \in 1..(l - 1)
      PROVE  Before(k, i) \in 1..l /\ Before(k, i) # i /\ RemoveAt(s, i)[k] = s[Before(k, i)]
  <2>1. CASE k < i
    BY <1>1, <1>2, <1>3, <1>4, <2>1 DEF Before
  <2>2. CASE ~(k < i)
    <3>1. k - (i - 1) \in 1..(l - i) /\ i + (k - (i - 1)) = k + 1
      BY <1>1, <2>2
    <3>2. RemoveAt(s, i)[k] = after[k - (i - 1)]
      BY <1>1, <1>2, <1>3, <1>4, <2>2
    <3>3. after[k - (i - 1)] = s[i + (k - (i - 1))]  BY <1>4, <3>1
    <3> QED  BY <1>1, <2>2, <3>1, <3>2, <3>3 DEF Before
  <2> QED  BY <2>1, <2>2
<1>7. \A j, k \in 1..(l - 1) : Before(j, i) = Before(k, i) => j = k  BY <1>1 DEF Before
<1>8. ASSUME NEW j \in 1..l, j # i  PROVE \E k \in 1..(l - 1) : Before(k, i) = j
  <2>1. CASE j < i
    <3>1. j \in 1..(l - 1) /\ Before(j, i) = j  BY <1>1, <2>1 DEF Before
    <3> QED  BY <3>1
  <2>2. CASE j > i
    <3>1. j - 1 \in 1..(l - 1) /\ Before(j - 1, i) = j  BY <1>1, <2>2 DEF Before
    <3> QED  BY <3>1
  <2> QED  BY <1>1, <1>8, <2>1, <2>2
<1> QED  BY <1>1, <1>5, <1>6, <1>7, <1>8 DEF l

(* A wait that ends while it is queued leaves the others in the queue. *)
LEMMA RemovedFromQueue ==
  ASSUME CondTypes, QueuedOnce, NEW i \in DOMAIN blocked, blocked' = RemoveAt(blocked, i),
         \A u \in Waiter \ {blocked[i]} : at'[u] = at[u]
  PROVE  blocked' \in Seq(Waiter) /\ QueuedOnce'
<1> DEFINE l == Len(blocked)
<1>1. l \in Nat /\ DOMAIN blocked = 1 .. l /\ \A j \in 1 .. l : blocked[j] \in Waiter
  BY DEF CondTypes
<1>2. blocked \in Seq(Waiter)  BY DEF CondTypes
<1>3. /\ blocked' \in Seq(Waiter) /\ DOMAIN blocked' = 1 .. (l - 1)
      /\ \A k \in 1 .. (l - 1) :
           Before(k, i) \in 1 .. l /\ Before(k, i) # i /\ blocked'[k] = blocked[Before(k, i)]
      /\ \A j, k \in 1 .. (l - 1) : Before(j, i) = Before(k, i) => j = k
  BY <1>2, Removed
<1> HIDE DEF l
<1>4. ASSUME NEW k \in 1 .. (l - 1)  PROVE at'[blocked'[k]] = "blocked"
  <2>1. Before(k, i) \in DOMAIN blocked /\ blocked'[k] = blocked[Before(k, i)] /\ Before(k, i) # i
    BY <1>1, <1>3
  <2>2. blocked[Before(k, i)] \in Waiter \ {blocked[i]} /\ at[blocked[Before(k, i)]] = "blocked"
    BY <1>1, <2>1 DEF QueuedOnce
  <2> QED  BY <2>1, <2>2
<1>5. ASSUME NEW j \in 1 .. (l - 1), NEW k \in 1 .. (l - 1), blocked'[j] = blocked'[k]  PROVE j = k
  <2>1. Before(j, i) = Before(k, i)  BY <1>1, <1>3, <1>5 DEF QueuedOnce
  <2> QED  BY <1>3, <2>1
<1> QED  BY <1>3, <1>4, <1>5 DEF QueuedOnce

(* A thread that gets blocked is last in the queue. *)
LEMMA AppendedToQueue ==
  ASSUME CondTypes, QueuedOnce, NEW t \in Waiter, at[t] = "waits", Now(t, "blocked"),
         blocked' = Append(blocked, t)
  PROVE  blocked' \in Seq(Waiter) /\ QueuedOnce'
<1> DEFINE l == Len(blocked)
<1>1. blocked' \in Seq(Waiter)  BY AppendProperties DEF CondTypes
<1>2. /\ l \in Nat /\ DOMAIN blocked = 1 .. l /\ DOMAIN blocked' = 1 .. (l + 1)
      /\ \A i \in 1 .. l : blocked'[i] = blocked[i] /\ blocked[i] \in Waiter
      /\ blocked'[l + 1] = t
  BY AppendProperties DEF CondTypes
<1> HIDE DEF l
<1>3. \A i \in 1 .. l : at[blocked[i]] = "blocked" /\ blocked[i] # t
  BY <1>2 DEF QueuedOnce
<1>4. at'[t] = "blocked" /\ \A u \in Waiter \ {t} : at'[u] = at[u]
  BY ThreadMoves
<1>5. \A i \in 1 .. (l + 1) : i \in 1 .. l \/ i = l + 1  BY <1>2
<1>6. \A i, j \in 1 .. l : blocked[i] = blocked[j] => i = j
  BY <1>2 DEF QueuedOnce
<1> QED  BY <1>1, <1>2, <1>3, <1>4, <1>5, <1>6 DEF QueuedOnce

(* Who is in no wait does not change what is counted. *)
LEMMA OutsideStep ==
  ASSUME CondInv, NEW t \in Waiter, NEW w \in {"out", "locked", "done"}, Now(t, w),
         at[t] \in {"out", "locked"}, UNCHANGED <<waiters, pending_signals, tokens, blocked>>
  PROVE  CondInv'
<1>1. t \notin InWait /\ t \notin Awake  BY DEF InWait, Awake, Inside, Woken
<1>2. InWait' = InWait /\ Awake' = Awake  BY <1>1, ThreadMoves DEF CondInv
<1>3. QueuedOnce'  BY ThreadMoves, QueueStays DEF CondInv
<1>4. CondTypes'  BY ThreadMoves DEF CondInv, CondTypes
<1>5. Counted'  BY <1>2 DEF CondInv, Counted
<1> QED  BY <1>3, <1>4, <1>5 DEF CondInv

(* A thread that begins to wait is counted. *)
LEMMA WaitStep ==
  ASSUME CondInv, NEW t \in Waiter, Wait(t)
  PROVE  CondInv'
<1>1. at[t] = "locked" /\ Now(t, "waits") /\ waiters' = waiters + 1
      /\ UNCHANGED <<pending_signals, tokens, blocked>>
  BY DEF Wait
<1>2. InWait' = InWait \cup {t} /\ Awake' = Awake /\ t \notin InWait
  BY <1>1, ThreadMoves DEF CondInv, InWait, Awake, Inside, Woken
<1>3. QueuedOnce'  BY <1>1, ThreadMoves, QueueStays DEF CondInv
<1>4. CondTypes'  BY <1>1, ThreadMoves DEF CondInv, CondTypes
<1>5. Cardinality(InWait') = Cardinality(InWait) + 1
  BY <1>2, SetsAreFinite, FS_AddElement
<1>6. Counted'  BY <1>1, <1>2, <1>5 DEF CondInv, CondTypes, Counted
<1> QED  BY <1>3, <1>4, <1>6 DEF CondInv

(* A thread takes a token, or its place in the queue. *)
LEMMA WaitSemaphoreStep ==
  ASSUME CondInv, NEW t \in Waiter, WaitSemaphore(t)
  PROVE  CondInv'
<1>1. at[t] = "waits" /\ UNCHANGED <<waiters, pending_signals>>  BY DEF WaitSemaphore
<1>2. CASE tokens > 0 /\ tokens' = tokens - 1 /\ Now(t, "woken") /\ UNCHANGED blocked
  <2>1. InWait' = InWait /\ Awake' = Awake \cup {t} /\ t \notin Awake
    BY <1>1, <1>2, ThreadMoves DEF CondInv, InWait, Awake, Inside, Woken
  <2>2. QueuedOnce'  BY <1>1, <1>2, ThreadMoves, QueueStays DEF CondInv
  <2>3. CondTypes'  BY <1>1, <1>2, ThreadMoves DEF CondInv, CondTypes
  <2>4. Cardinality(Awake') = Cardinality(Awake) + 1
    BY <2>1, SetsAreFinite, FS_AddElement
  <2>5. Counted'  BY <1>1, <1>2, <2>1, <2>4, SetsAreFinite DEF CondInv, CondTypes, Counted
  <2> QED  BY <2>2, <2>3, <2>5 DEF CondInv
<1>3. CASE blocked' = Append(blocked, t) /\ Now(t, "blocked") /\ UNCHANGED tokens
  <2>1. InWait' = InWait /\ Awake' = Awake
    BY <1>1, <1>3, ThreadMoves DEF CondInv, InWait, Awake, Inside, Woken
  <2>2. CondTypes'
    <3>1. blocked' \in Seq(Waiter)  BY <1>3, AppendProperties DEF CondInv, CondTypes
    <3> QED  BY <1>1, <1>3, <3>1, ThreadMoves DEF CondInv, CondTypes
  <2>3. QueuedOnce'  BY <1>1, <1>3, AppendedToQueue DEF CondInv
  <2>4. Counted'  BY <1>1, <1>3, <2>1 DEF CondInv, Counted
  <2> QED  BY <2>2, <2>3, <2>4 DEF CondInv
<1> QED  BY <1>2, <1>3 DEF WaitSemaphore

(* A wait that times out is still counted: it takes itself out later. *)
LEMMA TimesOutStep ==
  ASSUME CondInv, NEW t \in Waiter, TimesOut(t)
  PROVE  CondInv'
<1>1. Now(t, "expired") /\ UNCHANGED <<waiters, pending_signals, tokens>>
  BY DEF TimesOut
<1>2. at[t] \in {"waits", "blocked"}  BY DEF TimesOut
<1>3. InWait' = InWait /\ Awake' = Awake
  BY <1>1, <1>2, ThreadMoves DEF CondInv, InWait, Awake, Inside, Woken
<1>4. blocked' \in Seq(Waiter) /\ QueuedOnce'
  <2>1. CASE at[t] = "waits" /\ UNCHANGED blocked
    BY <1>1, <2>1, ThreadMoves, QueueStays DEF CondInv, CondTypes
  <2>2. ASSUME NEW i \in DOMAIN blocked, blocked[i] = t, blocked' = RemoveAt(blocked, i)
        PROVE  blocked' \in Seq(Waiter) /\ QueuedOnce'
    BY <1>1, <2>2, ThreadMoves, RemovedFromQueue DEF CondInv
  <2> QED  BY <2>1, <2>2 DEF TimesOut
<1>5. CondTypes'  BY <1>1, <1>4, ThreadMoves DEF CondInv, CondTypes
<1>6. Counted'  BY <1>1, <1>3 DEF CondInv, Counted
<1> QED  BY <1>4, <1>5, <1>6 DEF CondInv

(* The end of a wait: a thread that was woken takes its own token with it,  *)
(* one that timed out the token of a signal that has no waiter any more.    *)
LEMMA RelockStep ==
  ASSUME CondInv, NEW t \in Waiter, Relock(t)
  PROVE  CondInv'
<1>1. at[t] \in {"woken", "expired"} /\ Now(t, "locked") /\ waiters' = waiters - 1
      /\ UNCHANGED blocked
  BY DEF Relock
<1>2. InWait' = InWait \ {t} /\ Awake' = Awake \ {t} /\ t \in InWait
  BY <1>1, ThreadMoves DEF CondInv, InWait, Inside
<1>3. Cardinality(InWait') = Cardinality(InWait) - 1
  BY <1>2, SetsAreFinite, FS_RemoveElement
<1>4. Cardinality(InWait') \in Nat
  BY <1>2, SetsAreFinite, FS_RemoveElement, FS_CardinalityType
<1>5. waiters \in Nat /\ pending_signals \in Nat /\ tokens \in Nat
      /\ waiters = Cardinality(InWait) /\ pending_signals = tokens + Cardinality(Awake)
      /\ pending_signals <= waiters
  BY DEF CondInv, CondTypes, Counted
<1>6. QueuedOnce'  BY <1>1, ThreadMoves, QueueStays DEF CondInv
<1>7. CASE Woken(t) /\ UNCHANGED tokens
           /\ pending_signals' = IF pending_signals > 0 THEN pending_signals - 1 ELSE 0
  <2>1. t \in Awake  BY <1>7 DEF Awake
  <2>2. Cardinality(Awake') = Cardinality(Awake) - 1 /\ Cardinality(Awake') \in Nat
    BY <1>2, <2>1, SetsAreFinite, FS_RemoveElement, FS_CardinalityType
  <2>3. pending_signals' = pending_signals - 1 /\ pending_signals' \in Nat
    BY <1>5, <1>7, <2>2, SetsAreFinite
  <2>4. Counted'
    BY <1>1, <1>3, <1>5, <1>7, <2>2, <2>3, SetsAreFinite DEF Counted
  <2>5. CondTypes'
    BY <1>1, <1>3, <1>4, <1>5, <1>7, <2>3, ThreadMoves DEF CondInv, CondTypes
  <2> QED  BY <1>6, <2>4, <2>5 DEF CondInv
<1>8. CASE ~Woken(t)
  <2>1. Awake' = Awake  BY <1>2, <1>8 DEF Awake
  <2>2. Cardinality(Awake) <= Cardinality(InWait')
    <3>1. Awake \in SUBSET InWait'  BY <1>2, <1>8, SetsAreFinite DEF Awake
    <3>2. IsFiniteSet(InWait')  BY <1>2, SetsAreFinite, FS_RemoveElement
    <3> QED  BY <3>1, <3>2, FS_Subset
  <2>3. CASE Discards /\ tokens' = tokens - 1 /\ pending_signals' = pending_signals - 1
    <3>1. tokens' \in Nat /\ pending_signals' \in Nat
      BY <1>5, <2>3, SetsAreFinite DEF Discards
    <3>2. Counted'  BY <1>1, <1>3, <1>5, <2>1, <2>3, SetsAreFinite DEF Counted
    <3>3. CondTypes'
      BY <1>1, <1>3, <1>4, <1>5, <3>1, ThreadMoves DEF CondInv, CondTypes
    <3> QED  BY <1>6, <3>2, <3>3 DEF CondInv
  <2>4. CASE ~Discards /\ UNCHANGED <<tokens, pending_signals>>
    <3>1. pending_signals <= waiters - 1
      BY <1>3, <1>5, <2>2, <2>4, SetsAreFinite DEF Discards
    <3>2. Counted'  BY <1>1, <1>3, <1>5, <2>1, <2>4, <3>1 DEF Counted
    <3>3. CondTypes'
      BY <1>1, <1>3, <1>4, <1>5, <2>4, ThreadMoves DEF CondInv, CondTypes
    <3> QED  BY <1>6, <3>2, <3>3 DEF CondInv
  <2> QED  BY <1>7, <1>8, <2>3, <2>4 DEF Relock
<1> QED  BY <1>7, <1>8 DEF Relock

(* A signal, or a broadcast: n threads or tokens more, n no more than wait. *)
LEMMA SignalStep ==
  ASSUME CondInv, NEW n \in Nat, SignalSemaphore(n), n <= waiters - pending_signals,
         pending_signals' = pending_signals + n, UNCHANGED waiters
  PROVE  CondInv'
<1>1. QueuedOnce' /\ InWait' = InWait
      /\ tokens' + Cardinality(Awake') = tokens + Cardinality(Awake) + n
  BY SignalCounts DEF CondInv
<1>2. CondTypes'  BY SignalCounts DEF CondInv, CondTypes
<1>3. Counted'
  BY <1>1, SetsAreFinite DEF CondInv, CondTypes, Counted
<1> QED  BY <1>1, <1>2, <1>3 DEF CondInv

-----------------------------------------------------------------------------
(* Nobody waits at first. *)
THEOREM CondInitially == CondInit => CondInv
<1> SUFFICES ASSUME CondInit  PROVE CondInv
  OBVIOUS
<1>1. InWait = {} /\ Awake = {}  BY DEF CondInit, InWait, Awake, Inside, Woken
<1>2. CondTypes /\ QueuedOnce  BY EmptySeq DEF CondInit, CondTypes, QueuedOnce
<1>3. Counted  BY <1>1, FS_EmptySet DEF CondInit, Counted
<1> QED  BY <1>2, <1>3 DEF CondInv

(* Every step keeps the counters exact, one by one the calls of             *)
(* apr_thread_cond.c and the steps of the semaphore.                        *)
THEOREM CondStep == ~overlong /\ CondInv /\ [CondNext]_condVars => CondInv'
<1> SUFFICES ASSUME ~overlong, CondInv, [CondNext]_condVars  PROVE CondInv'
  OBVIOUS
<1> USE DEF Steps
<1>1. CASE Add
  <2>1. /\ Signals \in Nat /\ Signals <= waiters - pending_signals
    BY DEF Signals, CondInv, CondTypes, Counted
  <2> QED  BY <1>1, <2>1, SignalStep DEF Add
<1>2. CASE Stop
  <2>1. /\ waiters - pending_signals \in Nat
        /\ waiters = pending_signals + (waiters - pending_signals)
    BY <1>2 DEF Stop, CondInv, CondTypes
  <2> QED  BY <1>2, <2>1, SignalStep DEF Stop, CondInv, CondTypes
<1>3. ASSUME NEW t \in Waiter, Lock(t)  PROVE CondInv'
  BY <1>3, OutsideStep DEF Lock
<1>4. ASSUME NEW t \in Waiter, Leave(t)  PROVE CondInv'
  BY <1>4, OutsideStep DEF Leave
<1>5. ASSUME NEW t \in Waiter, Wait(t)  PROVE CondInv'
  BY <1>5, WaitStep
<1>6. ASSUME NEW t \in Waiter, WaitSemaphore(t)  PROVE CondInv'
  BY <1>6, WaitSemaphoreStep
<1>7. ASSUME NEW t \in Waiter, Relock(t)  PROVE CondInv'
  BY <1>7, RelockStep
<1>8. ASSUME NEW t \in Waiter, TimesOut(t)  PROVE CondInv'
  BY <1>8, TimesOutStep
<1>9. ASSUME NEW t \in Waiter, GivesUp(t)  PROVE CondInv'
  BY <1>9 DEF GivesUp
<1>10. CASE UNCHANGED condVars
  BY <1>10 DEF condVars, CondInv, CondTypes, QueuedOnce, Counted, InWait, Awake, Inside, Woken
<1> QED
  BY <1>1, <1>2, <1>3, <1>4, <1>5, <1>6, <1>7, <1>8, <1>9, <1>10 DEF CondNext

\* However many threads wait, are signalled and time out, a pending signal of a
\* condition is a token of its semaphore or a thread that took one, and no more
\* are pending than threads wait (apex_apr_cond_wait_internal,
\* apr_thread_cond_signal, apr_thread_cond_broadcast): no token is left to end a
\* later wait, and the subtraction of a broadcast does not wrap.
THEOREM TokensExact == CondSpec => []CondTokens
<1>1. CondInit => overlong \/ CondInv
  BY CondInitially
<1>2. (overlong \/ CondInv) /\ [CondNext]_condVars => (overlong \/ CondInv)'
  <2>1. overlong /\ [CondNext]_condVars => overlong'
    BY DEF CondNext, condVars, Add, Stop, Steps, Lock, Leave, Wait, WaitSemaphore, Relock,
           TimesOut, GivesUp
  <2> QED  BY <2>1, CondStep
<1>3. overlong \/ CondInv => CondTokens
  BY DEF CondInv, Counted, CondTokens, InWait, Awake
<1> QED  BY <1>1, <1>2, <1>3, PTL DEF CondSpec

-----------------------------------------------------------------------------
(* What holds of a condition even when a timeout cannot be converted: the    *)
(* threads that wait are counted, whatever is pending.                      *)
CondLoose ==
  /\ CondTypes /\ QueuedOnce
  /\ waiters = Cardinality(InWait)
  /\ holder \in Waiter \cup {Nobody}

(* A step of one thread that leaves the queue alone. *)
LEMMA LooseStep ==
  ASSUME CondLoose, NEW t \in Waiter, NEW w, Now(t, w), at[t] # "blocked", UNCHANGED blocked,
         w \in {"out", "locked", "waits", "woken", "expired", "done"},
         waiters' = Cardinality(InWait'), pending_signals' \in Nat, tokens' \in Nat,
         holder' \in Waiter \cup {Nobody}
  PROVE  CondLoose'
<1>1. QueuedOnce'  BY ThreadMoves, QueueStays DEF CondLoose
<1>2. InWait' = InWait \cup {t} \/ InWait' = InWait \ {t}
  BY ThreadMoves DEF CondLoose
<1>3. Cardinality(InWait') \in Nat
  BY <1>2, SetsAreFinite, FS_AddElement, FS_RemoveElement, FS_CardinalityType
<1>4. CondTypes'  BY <1>3, ThreadMoves DEF CondLoose, CondTypes
<1> QED  BY <1>1, <1>4 DEF CondLoose

(* The end of a wait, however it ends, takes the thread from those counted. *)
LEMMA LooseWaitEnds ==
  ASSUME CondLoose, NEW t \in Waiter, Inside(t), at[t] # "blocked", Now(t, "locked"), Locks(t),
         waiters' = waiters - 1, UNCHANGED blocked, pending_signals' \in Nat, tokens' \in Nat
  PROVE  CondLoose'
<1>1. InWait' = InWait \ {t} /\ t \in InWait
  BY ThreadMoves DEF CondLoose, InWait
<1>2. waiters' = Cardinality(InWait')
  BY <1>1, SetsAreFinite, FS_RemoveElement DEF CondLoose
<1> QED  BY <1>2, LooseStep DEF CondLoose, Locks

(* A signal or a broadcast, of n tokens. *)
LEMMA LooseSignal ==
  ASSUME CondLoose, NEW n \in Nat, SignalSemaphore(n), UNCHANGED <<waiters, holder>>,
         pending_signals' \in Nat
  PROVE  CondLoose'
BY SignalCounts DEF CondLoose, CondTypes

(* Every step of a condition keeps that. *)
LEMMA CondLooseKept ==
  ASSUME CondLoose, CondNext
  PROVE  CondLoose'
<1> USE DEF Steps
<1>0. waiters \in Nat /\ pending_signals \in Nat /\ tokens \in Nat  BY DEF CondLoose, CondTypes
<1>1. CASE Add
  <2>1. Signals \in Nat  BY DEF Signals
  <2> QED  BY <1>0, <1>1, <2>1, LooseSignal DEF Add
<1>2. CASE Stop
  <2>1. waiters - pending_signals \in Nat  BY <1>0, <1>2 DEF Stop
  <2> QED  BY <1>0, <1>2, <2>1, LooseSignal DEF Stop
<1>3. ASSUME NEW t \in Waiter, Lock(t) \/ Leave(t)  PROVE CondLoose'
  <2>1. PICK w \in {"out", "locked", "done"} : Now(t, w)  BY <1>3 DEF Lock, Leave
  <2>2. at[t] \in {"out", "locked"} /\ UNCHANGED <<waiters, pending_signals, tokens, blocked>>
        /\ holder' \in Waiter \cup {Nobody}
    BY <1>3 DEF Lock, Leave, Locks, Unlocks
  <2>3. InWait' = InWait
    BY <2>1, <2>2, ThreadMoves DEF CondLoose, InWait, Inside
  <2> QED  BY <1>0, <2>1, <2>2, <2>3, LooseStep DEF CondLoose
<1>4. ASSUME NEW t \in Waiter, Wait(t)  PROVE CondLoose'
  <2>1. at[t] = "locked" /\ Now(t, "waits") /\ waiters' = waiters + 1 /\ holder' = Nobody
        /\ UNCHANGED <<pending_signals, tokens, blocked>>
    BY <1>4 DEF Wait, Unlocks
  <2>2. InWait' = InWait \cup {t} /\ t \notin InWait
    BY <2>1, ThreadMoves DEF CondLoose, InWait, Inside
  <2>3. waiters' = Cardinality(InWait')
    BY <2>1, <2>2, SetsAreFinite, FS_AddElement DEF CondLoose
  <2> QED  BY <1>0, <2>1, <2>3, LooseStep
<1>5. ASSUME NEW t \in Waiter, WaitSemaphore(t)  PROVE CondLoose'
  <2>1. at[t] = "waits" /\ UNCHANGED <<waiters, pending_signals, holder>>
    BY <1>5 DEF WaitSemaphore
  <2>2. CASE tokens > 0 /\ tokens' = tokens - 1 /\ Now(t, "woken") /\ UNCHANGED blocked
    <3>1. InWait' = InWait  BY <2>1, <2>2, ThreadMoves DEF CondLoose, InWait, Inside
    <3>2. tokens' \in Nat  BY <1>0, <2>2
    <3> QED  BY <1>0, <2>1, <2>2, <3>1, <3>2, LooseStep DEF CondLoose
  <2>3. CASE blocked' = Append(blocked, t) /\ Now(t, "blocked") /\ UNCHANGED tokens
    <3>1. InWait' = InWait  BY <2>1, <2>3, ThreadMoves DEF CondLoose, InWait, Inside
    <3>2. blocked' \in Seq(Waiter) /\ QueuedOnce'
      BY <2>1, <2>3, AppendedToQueue DEF CondLoose
    <3>3. CondTypes'  BY <2>1, <2>3, <3>2, ThreadMoves DEF CondLoose, CondTypes
    <3> QED  BY <2>1, <3>1, <3>2, <3>3 DEF CondLoose
  <2> QED  BY <1>5, <2>2, <2>3 DEF WaitSemaphore
<1>6. ASSUME NEW t \in Waiter, TimesOut(t)  PROVE CondLoose'
  <2>1. Now(t, "expired") /\ UNCHANGED <<waiters, pending_signals, tokens, holder>>
        /\ at[t] \in {"waits", "blocked"}
    BY <1>6 DEF TimesOut
  <2>2. InWait' = InWait
    BY <2>1, ThreadMoves DEF CondLoose, InWait, Inside
  <2>3. blocked' \in Seq(Waiter) /\ QueuedOnce'
    <3>1. CASE at[t] = "waits" /\ UNCHANGED blocked
      BY <2>1, <3>1, ThreadMoves, QueueStays DEF CondLoose, CondTypes
    <3>2. ASSUME NEW i \in DOMAIN blocked, blocked[i] = t, blocked' = RemoveAt(blocked, i)
          PROVE  blocked' \in Seq(Waiter) /\ QueuedOnce'
      BY <2>1, <3>2, ThreadMoves, RemovedFromQueue DEF CondLoose
    <3> QED  BY <1>6, <3>1, <3>2 DEF TimesOut
  <2>4. CondTypes'  BY <2>1, <2>3, ThreadMoves DEF CondLoose, CondTypes
  <2> QED  BY <2>1, <2>2, <2>3, <2>4 DEF CondLoose
<1>7. ASSUME NEW t \in Waiter, Relock(t)  PROVE CondLoose'
  <2>1. /\ at[t] \in {"woken", "expired"} /\ Now(t, "locked") /\ Locks(t)
        /\ waiters' = waiters - 1 /\ UNCHANGED blocked
    BY <1>7 DEF Relock
  <2>2. t \in InWait  BY <2>1 DEF InWait, Inside
  <2>3. waiters >= 1  BY <1>0, <2>2, SetsAreFinite, FS_EmptySet DEF CondLoose
  <2>4. pending_signals' \in Nat /\ tokens' \in Nat
    BY <1>0, <1>7, <2>3 DEF Relock, Discards
  <2> QED  BY <2>1, <2>2, <2>4, LooseWaitEnds DEF InWait
<1>8. ASSUME NEW t \in Waiter, GivesUp(t)  PROVE CondLoose'
  BY <1>0, <1>8, LooseWaitEnds DEF GivesUp, Inside
<1> QED  BY <1>1, <1>2, <1>3, <1>4, <1>5, <1>6, <1>7, <1>8 DEF CondNext

(* What the run checks of a condition. *)
LEMMA CondLooseGives == CondLoose => CondTypeOK
<1> SUFFICES ASSUME CondLoose  PROVE CondTypeOK
  OBVIOUS
<1>1. ToSet(blocked) \subseteq Waiter  BY DEF CondLoose, CondTypes, ToSet
<1>2. Cardinality(Waiter) \in Nat /\ waiters \in Nat /\ waiters <= Cardinality(Waiter)
  <2>1. InWait \in SUBSET Waiter  BY DEF InWait
  <2> QED  BY <2>1, CondAssumption, FS_Subset, FS_CardinalityType DEF CondLoose, CondTypes
<1>3. waiters \in 0..Cardinality(Waiter)  BY <1>2
<1> QED  BY <1>1, <1>3 DEF CondLoose, CondTypes, CondTypeOK

-----------------------------------------------------------------------------
(* The threads of the APR over APEX: any number of creators, of slots in the *)
(* registry and of threads.                                                 *)

(* A set of numbers has a least one, which is the one that Min chooses. *)
LEMMA MinIsLeast ==
  ASSUME NEW S \in SUBSET Nat, S # {}
  PROVE  Min(S) \in S /\ \A y \in S : Min(S) <= y
<1> DEFINE Below == {0 .. y : y \in S}
           R == StrictSubsetOrdering(Nat)
<1>1. Below \subseteq FiniteSubsetsOf(Nat) /\ Below # {}
  <2>1. \A y \in S : 0 .. y \in SUBSET Nat /\ IsFiniteSet(0 .. y)  BY FS_Interval
  <2> QED  BY <2>1 DEF FiniteSubsetsOf
<1>2. \E T \in Below : \A U \in Below : ~ (<<U, T>> \in R)
  <2> HIDE DEF Below, R
  <2>1. IsWellFoundedOn(StrictSubsetOrdering(Nat), FiniteSubsetsOf(Nat))
    BY FS_StrictSubsetOrderingWellFounded
  <2> QED  BY <1>1, <2>1, WFMin DEF R
<1>3. PICK x \in S : \A y \in S : ~ (<<0 .. y, 0 .. x>> \in R)
  BY <1>2
<1>4. ASSUME NEW y \in S, y < x  PROVE FALSE
  <2>1. 0 .. y \subseteq 0 .. x  BY <1>4
  <2>2. x \in 0 .. x /\ x \notin 0 .. y  BY <1>4
  <2>3. 0 .. y \in SUBSET Nat /\ 0 .. x \in SUBSET Nat  OBVIOUS
  <2>4. <<0 .. y, 0 .. x>> \in R  BY <2>1, <2>2, <2>3 DEF StrictSubsetOrdering
  <2> QED  BY <1>3, <2>4
<1>5. \A y \in S : x <= y
  BY <1>4
<1> QED  BY <1>5 DEF Min

Places == 1..MaxProcesses
CreationSteps == {"semaphore", "process", "start", "give"}

ThreadTypes ==
  /\ calls \in 0..MaxCreated
  /\ registry \in [Places -> Created \cup {Empty}]
  /\ call \in [Creator -> [thread : Created \cup {Empty}, step : CreationSteps \cup {"idle"}]]
  /\ mine \in [Creator -> SUBSET Created]
  /\ process \in [Created -> {"none", "dormant", "started", "runs", "stopped"}]
  /\ signalled \subseteq Created /\ active \subseteq Created

(* A creator has a thread when it creates it or was given it. *)
Has(c, x) == call[c].thread = x \/ x \in mine[c]

(* Nobody has the thread of another, nor one that was not allocated. *)
OneCreator ==
  /\ \A c \in Creator : (call[c].thread = Empty <=> call[c].step = "idle")
  /\ \A c \in Creator : \A x \in Created : Has(c, x) => x <= calls
  /\ \A c, d \in Creator : \A x \in Created : Has(c, x) /\ Has(d, x) => c = d
  /\ \A c \in Creator : call[c].thread \notin mine[c]

(* The threads in the registry are those that somebody has, once each. *)
Registry ==
  /\ \A i, j \in Places : registry[i] = registry[j] /\ registry[i] # Empty => i = j
  /\ \A x \in Created : (\E c \in Creator : Has(c, x)) <=> (\E i \in Places : registry[i] = x)

ThreadInv == ThreadTypes /\ OneCreator /\ Registry

(* No thread has the number of an empty slot. *)
LEMMA EmptyIsNoThread == Empty \notin Created /\ Empty = 0 /\ Created \subseteq Nat
BY ThreadAssumption DEF Empty, Created

(* The invariant is what the run checks of the threads. *)
LEMMA ThreadInvGives == ThreadInv => ThreadTypeOK /\ RegistryExact
<1> SUFFICES ASSUME ThreadInv  PROVE ThreadTypeOK /\ RegistryExact
  OBVIOUS
<1>1. ThreadTypeOK  BY DEF ThreadInv, ThreadTypes, ThreadTypeOK
<1>2. ASSUME NEW x \in Created
      PROVE  Cardinality(Occupied(x)) =
               IF \E c \in Creator : call[c].thread = x \/ x \in mine[c] THEN 1 ELSE 0
  <2>1. Occupied(x) = {i \in Places : registry[i] = x}
    BY DEF ThreadInv, ThreadTypes, Occupied
  <2>2. ASSUME \E c \in Creator : Has(c, x)  PROVE Cardinality(Occupied(x)) = 1
    <3>1. PICK i \in Places : registry[i] = x  BY <2>2 DEF ThreadInv, Registry
    <3>2. Occupied(x) = {i}  BY <2>1, <3>1, EmptyIsNoThread DEF ThreadInv, Registry
    <3> QED  BY <3>2, FS_Singleton
  <2>3. ASSUME ~ \E c \in Creator : Has(c, x)  PROVE Cardinality(Occupied(x)) = 0
    <3>1. Occupied(x) = {}  BY <2>1, <2>3 DEF ThreadInv, Registry
    <3> QED  BY <3>1, FS_EmptySet
  <2> QED  BY <2>2, <2>3 DEF Has
<1> QED  BY <1>1, <1>2 DEF RegistryExact

(* At first nobody has a thread and the registry is empty. *)
LEMMA InitThreadInv == ThreadInit => ThreadInv
<1> SUFFICES ASSUME ThreadInit  PROVE ThreadInv
  OBVIOUS
<1>1. ThreadTypes
  BY ThreadAssumption DEF ThreadInit, ThreadTypes, Places, Nothing
<1>2. \A c \in Creator : \A x \in Created : ~ Has(c, x)
  BY EmptyIsNoThread DEF ThreadInit, Has, Nothing
<1>3. OneCreator  BY <1>2, EmptyIsNoThread DEF OneCreator, ThreadInit, Nothing
<1>4. Registry  BY <1>2, EmptyIsNoThread DEF Registry, ThreadInit, Places
<1> QED  BY <1>1, <1>3, <1>4 DEF ThreadInv

(* A thread that nobody has any more leaves the registry. *)
LEMMA GivenBack ==
  ASSUME ThreadInv, ThreadTypes', NEW c \in Creator, NEW x \in Created, Has(c, x),
         registry' = Unregistered(x), UNCHANGED calls,
         call'[c].thread = Empty <=> call'[c].step = "idle", call'[c].thread \notin mine'[c],
         \A y \in Created : Has(c, y)' <=> Has(c, y) /\ y # x,
         \A d \in Creator \ {c} : call'[d] = call[d] /\ mine'[d] = mine[d]
  PROVE  ThreadInv'
<1>1. \A i \in Places : registry'[i] = IF registry[i] = x THEN Empty ELSE registry[i]
  BY DEF Unregistered, ThreadInv, ThreadTypes
<1>2. \A d \in Creator : \A y \in Created : Has(d, y)' <=> Has(d, y) /\ y # x
  BY DEF ThreadInv, OneCreator, Has
<1>3. OneCreator'
  <2>1. \A d \in Creator : call'[d].thread = Empty <=> call'[d].step = "idle"
    BY DEF ThreadInv, OneCreator
  <2>2. \A d \in Creator : call'[d].thread \notin mine'[d]
    BY DEF ThreadInv, OneCreator
  <2>3. \A d \in Creator : \A y \in Created : Has(d, y)' => y <= calls'
    BY <1>2 DEF ThreadInv, OneCreator
  <2>4. \A d, e \in Creator : \A y \in Created : Has(d, y)' /\ Has(e, y)' => d = e
    BY <1>2 DEF ThreadInv, OneCreator
  <2> QED  BY <2>1, <2>2, <2>3, <2>4 DEF OneCreator
<1>4. Registry'
  <2>1. \A i, j \in Places : registry'[i] = registry'[j] /\ registry'[i] # Empty => i = j
    BY <1>1 DEF ThreadInv, Registry
  <2>2. \A y \in Created : (\E d \in Creator : Has(d, y)') <=> (\E i \in Places : registry'[i] = y)
    BY <1>1, <1>2, EmptyIsNoThread DEF ThreadInv, Registry
  <2> QED  BY <2>1, <2>2 DEF Registry
<1> QED  BY <1>3, <1>4 DEF ThreadInv

(* A step that leaves to each creator what it has keeps the registry. *)
LEMMA NothingGiven ==
  ASSUME ThreadInv, ThreadTypes', UNCHANGED <<registry, calls>>,
         \A c \in Creator : call'[c].thread = Empty <=> call'[c].step = "idle",
         \A c \in Creator : call'[c].thread \notin mine'[c],
         \A c \in Creator : \A x \in Created : Has(c, x)' <=> Has(c, x)
  PROVE  ThreadInv'
<1>1. OneCreator'
  <2>1. \A d \in Creator : \A y \in Created : Has(d, y)' => y <= calls'
    BY DEF ThreadInv, OneCreator
  <2>2. \A d, e \in Creator : \A y \in Created : Has(d, y)' /\ Has(e, y)' => d = e
    BY DEF ThreadInv, OneCreator
  <2> QED  BY <2>1, <2>2 DEF OneCreator
<1>2. Registry'  BY DEF ThreadInv, Registry
<1> QED  BY <1>1, <1>2 DEF ThreadInv

(* A creation that fails half-way gives the slot back. *)
LEMMA FailsKept ==
  ASSUME ThreadInv, NEW c \in Creator, call[c].step \in CreationSteps, Fails(c),
         UNCHANGED <<calls, mine, process, ran, signalled, active>>
  PROVE  ThreadInv'
<1> DEFINE x == call[c].thread
<1>1. x \in Created /\ x # Empty
  BY EmptyIsNoThread DEF ThreadInv, ThreadTypes, OneCreator, CreationSteps
<1>2. call' = [call EXCEPT ![c] = Nothing] /\ registry' = Unregistered(x)  BY DEF Fails
<1>3. call'[c] = Nothing /\ \A d \in Creator \ {c} : call'[d] = call[d]
  BY <1>2 DEF ThreadInv, ThreadTypes
<1>4. ThreadTypes'
  <2>1. registry' \in [Places -> Created \cup {Empty}]
    BY <1>2 DEF Unregistered, ThreadInv, ThreadTypes
  <2>2. call' \in [Creator -> [thread : Created \cup {Empty}, step : CreationSteps \cup {"idle"}]]
    BY <1>2 DEF ThreadInv, ThreadTypes, Nothing
  <2> QED  BY <2>1, <2>2 DEF ThreadInv, ThreadTypes
<1>5. Has(c, x)  BY DEF Has
<1>6. \A y \in Created : Has(c, y)' <=> Has(c, y) /\ y # x
  BY <1>3, EmptyIsNoThread DEF Has, Nothing, ThreadInv, OneCreator
<1>7. call'[c].thread \notin mine'[c]
  BY <1>3, EmptyIsNoThread DEF Nothing, ThreadInv, ThreadTypes
<1>8. call'[c].thread = Empty <=> call'[c].step = "idle"
  BY <1>3 DEF Nothing
<1> HIDE DEF x
<1> QED  BY <1>1, <1>2, <1>3, <1>4, <1>5, <1>6, <1>7, <1>8, GivenBack

(* The steps of a creation after the slot was taken. *)
LEMMA CreationGoesOn ==
  ASSUME ThreadInv, NEW c \in Creator, NEW w \in CreationSteps, call[c].step \in CreationSteps,
         Step(c, w), UNCHANGED <<calls, registry, mine, signalled, active>>,
         process' \in [Created -> {"none", "dormant", "started", "runs", "stopped"}]
  PROVE  ThreadInv'
<1>1. call' = [call EXCEPT ![c].step = w]  BY DEF Step
<1>2. /\ call' \in [Creator -> [thread : Created \cup {Empty}, step : CreationSteps \cup {"idle"}]]
      /\ \A d \in Creator : call'[d].thread = call[d].thread
      /\ \A d \in Creator \ {c} : call'[d] = call[d]
      /\ call'[c].step = w
  BY <1>1 DEF ThreadInv, ThreadTypes
<1>3. ThreadTypes'  BY <1>2 DEF ThreadInv, ThreadTypes
<1>4. \A d \in Creator : call'[d].thread = Empty <=> call'[d].step = "idle"
  BY <1>2 DEF ThreadInv, OneCreator, CreationSteps
<1>5. \A d \in Creator : call'[d].thread \notin mine'[d]
  BY <1>2 DEF ThreadInv, OneCreator
<1>6. \A d \in Creator : \A x \in Created : Has(d, x)' <=> Has(d, x)
  BY <1>2 DEF Has
<1> QED  BY <1>3, <1>4, <1>5, <1>6, NothingGiven

(* A new thread has a number that nobody has, and a slot that was empty. *)
LEMMA RegistersKept ==
  ASSUME ThreadInv, NEW c \in Creator, Registers(c)
  PROVE  ThreadInv'
<1> DEFINE x == calls + 1
           i == Min(Occupied(Empty))
<1>1. x \in Created /\ x # Empty /\ calls' = x /\ calls' \in 0..MaxCreated /\ calls \in Nat
      /\ \A y \in Created : y <= calls => y # x /\ y <= x
  BY ThreadAssumption DEF Registers, ThreadInv, ThreadTypes, Created, Empty
<1>2. \A d \in Creator : ~ Has(d, x)
  BY <1>1 DEF ThreadInv, OneCreator
<1>3. call[c] = Nothing /\ UNCHANGED <<mine, process, ran, signalled, active>>
  BY DEF Registers
<1>4. CASE Occupied(Empty) = {}
  <2>1. UNCHANGED <<registry, call>>  BY <1>4 DEF Registers
  <2>2. ThreadTypes'  BY <2>1, <1>1, <1>3 DEF ThreadInv, ThreadTypes
  <2>3. Registry'  BY <2>1, <1>3 DEF ThreadInv, Registry, Has
  <2>4. OneCreator'
    <3>1. \A d \in Creator : \A y \in Created : Has(d, y)' <=> Has(d, y)
      BY <2>1, <1>3 DEF Has
    <3>2. \A d \in Creator : \A y \in Created : Has(d, y)' => y <= calls'
      BY <3>1, <1>1 DEF ThreadInv, OneCreator
    <3> QED  BY <2>1, <1>3, <3>1, <3>2 DEF ThreadInv, OneCreator
  <2> QED  BY <2>2, <2>3, <2>4 DEF ThreadInv
<1>5. CASE Occupied(Empty) # {}
  <2>1. Occupied(Empty) = {j \in Places : registry[j] = Empty} /\ Occupied(Empty) \in SUBSET Nat
    BY DEF Occupied, ThreadInv, ThreadTypes, Places
  <2>2. i \in Places /\ registry[i] = Empty
    BY <2>1, <1>5, MinIsLeast
  <2>3. /\ registry' = [registry EXCEPT ![i] = x]
        /\ call' = [call EXCEPT ![c] = [thread |-> x, step |-> "semaphore"]]
    BY <1>5 DEF Registers
  <2> HIDE DEF x, i
  <2>4. registry' \in [Places -> Created \cup {Empty}]
        /\ \A j \in Places : registry'[j] = IF j = i THEN x ELSE registry[j]
    BY <2>2, <2>3, <1>1 DEF ThreadInv, ThreadTypes
  <2>5. /\ call' \in [Creator -> [thread : Created \cup {Empty}, step : CreationSteps \cup {"idle"}]]
        /\ call'[c].thread = x /\ call'[c].step = "semaphore"
        /\ \A d \in Creator \ {c} : call'[d] = call[d]
    BY <2>3, <1>1 DEF ThreadInv, ThreadTypes, CreationSteps
  <2>6. ThreadTypes'  BY <2>4, <2>5, <1>1, <1>3 DEF ThreadInv, ThreadTypes
  <2>7. \A d \in Creator : \A y \in Created : Has(d, y)' <=> (Has(d, y) \/ (d = c /\ y = x))
    BY <2>5, <1>3, EmptyIsNoThread DEF Has, Nothing
  <2>8. OneCreator'
    <3>1. \A d \in Creator : call'[d].thread = Empty <=> call'[d].step = "idle"
      BY <2>5, <1>1 DEF ThreadInv, OneCreator
    <3>2. \A d \in Creator : \A y \in Created : Has(d, y)' => y <= calls'
      BY <2>7, <1>1 DEF ThreadInv, OneCreator
    <3>3. \A d, e \in Creator : \A y \in Created : Has(d, y)' /\ Has(e, y)' => d = e
      BY <2>7, <1>2 DEF ThreadInv, OneCreator
    <3>4. x \notin mine[c]  BY <1>2 DEF Has
    <3>5. \A d \in Creator : call'[d].thread \notin mine'[d]
      BY <2>5, <1>3, <3>4 DEF ThreadInv, OneCreator
    <3> QED  BY <3>1, <3>2, <3>3, <3>5 DEF OneCreator
  <2>9. Registry'
    <3>1. \A j \in Places : registry[j] # x
      BY <1>1, <1>2 DEF ThreadInv, Registry
    <3>2. \A j, k \in Places : registry'[j] = registry'[k] /\ registry'[j] # Empty => j = k
      BY <3>1, <2>4 DEF ThreadInv, Registry
    <3>3. ASSUME NEW y \in Created
          PROVE  (\E d \in Creator : Has(d, y)') <=> (\E j \in Places : registry'[j] = y)
      <4>1. CASE y = x  BY <4>1, <2>2, <2>4, <2>7
      <4>2. CASE y # x
        <5>1. (\E d \in Creator : Has(d, y)') <=> (\E d \in Creator : Has(d, y))
          BY <4>2, <2>7
        <5>2. (\E j \in Places : registry'[j] = y) <=> (\E j \in Places : registry[j] = y)
          BY <4>2, <2>2, <2>4, EmptyIsNoThread
        <5> QED  BY <5>1, <5>2 DEF ThreadInv, Registry
      <4> QED  BY <4>1, <4>2
    <3> QED  BY <3>2, <3>3 DEF Registry
  <2> QED  BY <2>6, <2>8, <2>9 DEF ThreadInv
<1> QED  BY <1>4, <1>5

(* The creator is given its thread, which it had already. *)
LEMMA GivesKept ==
  ASSUME ThreadInv, NEW c \in Creator, Gives(c)
  PROVE  ThreadInv'
<1> DEFINE x == call[c].thread
<1>1. x \in Created /\ x # Empty
  BY EmptyIsNoThread DEF Gives, ThreadInv, ThreadTypes, OneCreator
<1>2. /\ active' = active \cup {x} /\ mine' = [mine EXCEPT ![c] = @ \cup {x}]
      /\ call' = [call EXCEPT ![c] = Nothing]
      /\ UNCHANGED <<calls, registry, process, ran, signalled>>
  BY DEF Gives
<1> HIDE DEF x
<1>3. /\ call' \in [Creator -> [thread : Created \cup {Empty}, step : CreationSteps \cup {"idle"}]]
      /\ mine' \in [Creator -> SUBSET Created]
      /\ call'[c] = Nothing /\ mine'[c] = mine[c] \cup {x}
      /\ \A d \in Creator \ {c} : call'[d] = call[d] /\ mine'[d] = mine[d]
  BY <1>1, <1>2 DEF ThreadInv, ThreadTypes, Nothing
<1>4. ThreadTypes'  BY <1>1, <1>2, <1>3 DEF ThreadInv, ThreadTypes
<1>5. \A d \in Creator : call'[d].thread = Empty <=> call'[d].step = "idle"
  BY <1>3 DEF ThreadInv, OneCreator, Nothing
<1>6. \A d \in Creator : call'[d].thread \notin mine'[d]
  BY <1>1, <1>3, EmptyIsNoThread DEF ThreadInv, ThreadTypes, OneCreator, Nothing
<1>7. \A d \in Creator : \A y \in Created : Has(d, y)' <=> Has(d, y)
  BY <1>3, EmptyIsNoThread DEF Has, Nothing, x
<1> QED  BY <1>2, <1>4, <1>5, <1>6, <1>7, NothingGiven

(* A join gives the slot of its thread back. *)
LEMMA JoinsKept ==
  ASSUME ThreadInv, NEW c \in Creator, Joins(c)
  PROVE  ThreadInv'
<1>1. PICK x \in mine[c] :
        /\ signalled' = signalled \ {x} /\ active' = active \ {x}
        /\ registry' = Unregistered(x) /\ mine' = [mine EXCEPT ![c] = @ \ {x}]
  BY DEF Joins
<1>2. x \in Created /\ Has(c, x)  BY DEF ThreadInv, ThreadTypes, Has
<1>3. call[c] = Nothing /\ UNCHANGED <<calls, call, process, ran>>  BY DEF Joins
<1>4. /\ mine' \in [Creator -> SUBSET Created] /\ mine'[c] = mine[c] \ {x}
      /\ \A d \in Creator \ {c} : mine'[d] = mine[d]
  BY <1>1 DEF ThreadInv, ThreadTypes
<1>5. ThreadTypes'
  <2>1. registry' \in [Places -> Created \cup {Empty}]
    BY <1>1 DEF Unregistered, ThreadInv, ThreadTypes
  <2> QED  BY <2>1, <1>1, <1>3, <1>4 DEF ThreadInv, ThreadTypes
<1>6. \A y \in Created : Has(c, y)' <=> Has(c, y) /\ y # x
  BY <1>2, <1>3, <1>4, EmptyIsNoThread DEF Has, Nothing
<1>7. /\ call'[c].thread = Empty <=> call'[c].step = "idle"
      /\ call'[c].thread \notin mine'[c]
  BY <1>3, <1>4 DEF ThreadInv, OneCreator
<1> QED  BY <1>1, <1>2, <1>3, <1>4, <1>5, <1>6, <1>7, GivenBack

(* The entry of a thread touches neither the registry nor who has what. *)
LEMMA RunsKept ==
  ASSUME ThreadInv, NEW x \in Created, Runs(x)
  PROVE  ThreadInv'
<1>1. UNCHANGED <<calls, registry, call, mine, active>>
  BY DEF Runs, Finds, Completes
<1>2. process' \in [Created -> {"none", "dormant", "started", "runs", "stopped"}]
      /\ signalled' \subseteq Created
  BY DEF Runs, Finds, Completes, ThreadInv, ThreadTypes
<1>3. ThreadTypes'  BY <1>1, <1>2 DEF ThreadInv, ThreadTypes
<1>4. \A c \in Creator : \A y \in Created : Has(c, y)' <=> Has(c, y)
  BY <1>1 DEF Has
<1> QED  BY <1>1, <1>3, <1>4, NothingGiven DEF ThreadInv, OneCreator

(* Every step of the threads keeps the invariant. *)
LEMMA ThreadInvKept ==
  ASSUME ThreadInv, ThreadNext
  PROVE  ThreadInv'
<1>1. ASSUME NEW c \in Creator, CreatesSemaphore(c)  PROVE ThreadInv'
  <2>1. call[c].step \in CreationSteps  BY <1>1 DEF CreatesSemaphore, CreationSteps
  <2>2. CASE Fails(c)
    BY <1>1, <2>1, <2>2, FailsKept DEF CreatesSemaphore
  <2>3. CASE Step(c, "process") /\ UNCHANGED registry
    <3>1. "process" \in CreationSteps  BY DEF CreationSteps
    <3>2. UNCHANGED <<calls, registry, mine, process, signalled, active>>
      BY <1>1, <2>3 DEF CreatesSemaphore
    <3>3. process' \in [Created -> {"none", "dormant", "started", "runs", "stopped"}]
      BY <3>2 DEF ThreadInv, ThreadTypes
    <3> QED  BY <2>1, <2>3, <3>1, <3>2, <3>3, CreationGoesOn
  <2> QED  BY <1>1, <2>2, <2>3 DEF CreatesSemaphore
<1>2. ASSUME NEW c \in Creator, CreatesProcess(c)  PROVE ThreadInv'
  <2>1. call[c].step \in CreationSteps  BY <1>2 DEF CreatesProcess, CreationSteps
  <2>2. CASE Fails(c) /\ UNCHANGED process
    BY <1>2, <2>1, <2>2, FailsKept DEF CreatesProcess
  <2>3. CASE /\ Step(c, "start") /\ UNCHANGED registry
             /\ process' = [process EXCEPT ![call[c].thread] = "dormant"]
    <3>1. "start" \in CreationSteps  BY DEF CreationSteps
    <3>2. UNCHANGED <<calls, registry, mine, signalled, active>>
      BY <1>2, <2>3 DEF CreatesProcess
    <3>3. process' \in [Created -> {"none", "dormant", "started", "runs", "stopped"}]
      BY <2>3 DEF ThreadInv, ThreadTypes
    <3> QED  BY <2>1, <2>3, <3>1, <3>2, <3>3, CreationGoesOn
  <2> QED  BY <1>2, <2>2, <2>3 DEF CreatesProcess
<1>3. ASSUME NEW c \in Creator, Starts(c)  PROVE ThreadInv'
  <2>1. call[c].step \in CreationSteps  BY <1>3 DEF Starts, CreationSteps
  <2>2. CASE Fails(c) /\ UNCHANGED process
    BY <1>3, <2>1, <2>2, FailsKept DEF Starts
  <2>3. CASE /\ Step(c, "give") /\ UNCHANGED registry
             /\ process' = [process EXCEPT ![call[c].thread] = "started"]
    <3>1. "give" \in CreationSteps  BY DEF CreationSteps
    <3>2. UNCHANGED <<calls, registry, mine, signalled, active>>
      BY <1>3, <2>3 DEF Starts
    <3>3. process' \in [Created -> {"none", "dormant", "started", "runs", "stopped"}]
      BY <2>3 DEF ThreadInv, ThreadTypes
    <3> QED  BY <2>1, <2>3, <3>1, <3>2, <3>3, CreationGoesOn
  <2> QED  BY <1>3, <2>2, <2>3 DEF Starts
<1> QED  BY <1>1, <1>2, <1>3, RegistersKept, GivesKept, JoinsKept, RunsKept DEF ThreadNext, Calls

-----------------------------------------------------------------------------
(* The pools of the APR over APEX: any number of threads, of pools, cleanups *)
(* and userdata, any sizes.                                                 *)

Cleanup == [n : Nat \ {0}, data : Data]
Lists == Seq(Cleanup)
Children == Seq(Control)
BlockLists == Seq(Nat)
PoolRecord ==
  [active : BOOLEAN, parent : Control \cup {NoPool}, owner : PoolThread \cup {NoPool},
   children : Children, unmanaged : BOOLEAN, cleanups : Lists, pre_cleanups : Lists,
   blocks : BlockLists, userdata : SUBSET Data]
FrameRecord ==
  [c : Control, op : {"clear", "destroy"},
   at : {"pre_cleanups", "children", "cleanups", "memory", "detach"},
   callback : Cleanup \cup {NoCleanup}]
Stacks == Seq(FrameRecord)

PoolTypes ==
  /\ pool \in [Control -> PoolRecord]
  /\ live \in [Control -> SUBSET (Nat \X Nat \X Nat)]
  /\ free_blocks \in BlockLists
  /\ capacity \in Seq(Nat) /\ used \in Seq(Nat) /\ runs \in Seq(Nat)
  /\ arena_used \in 0..ArenaSize
  /\ stack \in [PoolThread -> Stacks] /\ ending \in [PoolThread -> Nat]

(* The pools form trees, along which the rank grows. *)
Tree(rank) ==
  /\ \A c \in Control : ~pool[c].active => pool[c] = EmptyPool /\ live[c] = {}
  /\ \A c \in Control : pool[c].active /\ pool[c].parent # NoPool =>
       /\ pool[pool[c].parent].active /\ pool[pool[c].parent].owner = pool[c].owner
       /\ rank[pool[c].parent] < rank[c]
       /\ \E k \in DOMAIN pool[pool[c].parent].children : pool[pool[c].parent].children[k] = c
  /\ \A c \in Control : \A k \in DOMAIN pool[c].children : pool[pool[c].children[k]].parent = c
  /\ \A c \in Control : \A j, k \in DOMAIN pool[c].children :
       pool[c].children[j] = pool[c].children[k] => j = k

(* What a frame has done stays done: of its pool, and of the memory given. *)
FrameFor(t, f, of, given) ==
  /\ of.active /\ of.owner = t
  /\ f.callback # NoCleanup => f.at \in {"pre_cleanups", "cleanups"}
  /\ f.at # "pre_cleanups" => of.pre_cleanups = <<>>
  /\ f.at \in {"cleanups", "memory", "detach"} => of.children = <<>>
  /\ f.at \in {"memory", "detach"} => of.cleanups = <<>>
  /\ f.at = "detach" => of.blocks = <<>> /\ given = {}
FrameOK(t, f) == FrameFor(t, f, pool[f.c], live[f.c])
FrameStays(t, f) == FrameFor(t, f, pool'[f.c], live'[f.c])

(* A frame is about a pool of higher rank than the frames below it. *)
StackOK(rank) ==
  \A t \in PoolThread :
    /\ \A k \in DOMAIN stack[t] : FrameOK(t, stack[t][k])
    /\ \A j, k \in DOMAIN stack[t] : j < k => rank[stack[t][k].c] < rank[stack[t][j].c]

(* The thread that ends the library has every pool, and is alone. *)
EndingOK ==
  \A t \in PoolThread : ending[t] # 0 =>
    /\ \A u \in PoolThread \ {t} : AtRest(u)
    /\ \A c \in Control : pool[c].active => pool[c].owner = t

Ranks == [Control -> Nat]
PoolShape == PoolTypes /\ EndingOK /\ \E rank \in Ranks : Tree(rank) /\ StackOK(rank)

(* The members of a sequence, and that none is there twice. *)
Members(s) == {s[k] : k \in DOMAIN s}
Distinct(s) == \A j, k \in DOMAIN s : s[j] = s[k] => j = k

(* Registrations that neither ran nor were killed: each is in one list, or  *)
(* its callback is running, and has its entry.                             *)
CleanupLists == {"cleanups", "pre_cleanups"}
Open == {n \in 1..Len(runs) : runs[n] = 0 /\ n \notin killed}
Names(s) == {s[k].n : k \in DOMAIN s}
NamesOnce(s) == \A j, k \in DOMAIN s : s[j].n = s[k].n => j = k
Waits(c, list) == Names(pool[c][list])
Callbacks(s) == {s[k].callback.n : k \in DOMAIN s} \ {0}
CalledOnce(s) ==
  \A j, k \in DOMAIN s : s[j].callback.n = s[k].callback.n /\ s[j].callback.n # 0 => j = k
Calling(t) == Callbacks(stack[t])
CallsOnce(t) == CalledOnce(stack[t])

CleanupInv ==
  /\ \A n \in 1..Len(runs) : runs[n] \in {0, 1}
  /\ killed \subseteq 1..Len(runs) /\ \A n \in killed : runs[n] = 0
  /\ \A c \in Control, list \in CleanupLists :
       NamesOnce(pool[c][list]) /\ Waits(c, list) \subseteq Open
  /\ \A t \in PoolThread : CallsOnce(t) /\ Calling(t) \subseteq Open
  /\ \A n \in Open :
       \/ \E c \in Control, list \in CleanupLists : n \in Waits(c, list)
       \/ \E t \in PoolThread : n \in Calling(t)
  /\ \A c, d \in Control : \A l, m \in CleanupLists :
       c # d \/ l # m => Waits(c, l) \cap Waits(d, m) = {}
  /\ \A t, u \in PoolThread : t # u => Calling(t) \cap Calling(u) = {}
  /\ \A c \in Control, list \in CleanupLists, t \in PoolThread : Waits(c, list) \cap Calling(t) = {}
  /\ entries = Cardinality(Open) /\ entries <= CleanupCapacity

(* Each block is in one list, and what is given from it lies below what is *)
(* used of it.                                                             *)
Carved == 1..Len(capacity)
BlockOwners == Control \cup {NoPool}
BlocksOf(c) == Members(Blocks(c))

MemoryInv ==
  /\ Len(used) = Len(capacity)
  /\ \A b \in Carved : used[b] <= capacity[b]
  /\ \A c \in BlockOwners : Distinct(Blocks(c)) /\ BlocksOf(c) \subseteq Carved
  /\ \A b \in Carved : \E c \in BlockOwners : b \in BlocksOf(c)
  /\ \A c, d \in BlockOwners : c # d => BlocksOf(c) \cap BlocksOf(d) = {}
  /\ \A c \in Control : \A m \in live[c] : m[1] \in BlocksOf(c) /\ m[2] + m[3] <= used[m[1]]
  /\ \A c, d \in Control : \A m \in live[c] : \A o \in live[d] :
       o # m /\ o[1] = m[1] => o[2] >= m[2] + m[3] \/ m[2] >= o[2] + o[3]

(* A sequence with one member more in front. *)
LEMMA Prepended ==
  ASSUME NEW T, NEW s \in Seq(T), NEW e \in T
  PROVE  /\ <<e>> \o s \in Seq(T) /\ Len(<<e>> \o s) = Len(s) + 1
         /\ (<<e>> \o s)[1] = e
         /\ \A k \in 1..Len(s) : (<<e>> \o s)[k + 1] = s[k]
         /\ DOMAIN (<<e>> \o s) = 1..(Len(s) + 1) /\ DOMAIN s = 1..Len(s)
         /\ <<e>> \o s # <<>>
OBVIOUS

(* A sequence without its first member. *)
LEMMA FirstAndTail ==
  ASSUME NEW T, NEW s \in Seq(T), s # <<>>
  PROVE  /\ Tail(s) \in Seq(T) /\ Len(s) \in Nat \ {0} /\ Len(Tail(s)) = Len(s) - 1
         /\ Head(s) = s[1] /\ s[1] \in T
         /\ \A k \in 1..(Len(s) - 1) : Tail(s)[k] = s[k + 1]
         /\ DOMAIN Tail(s) = 1..(Len(s) - 1) /\ DOMAIN s = 1..Len(s)
OBVIOUS

(* A sequence whose first member is another. *)
LEMMA FirstReplaced ==
  ASSUME NEW T, NEW s \in Seq(T), s # <<>>, NEW e \in T
  PROVE  /\ <<e>> \o Tail(s) \in Seq(T)
         /\ DOMAIN (<<e>> \o Tail(s)) = 1..Len(s) /\ DOMAIN s = 1..Len(s) /\ Len(s) \in Nat \ {0}
         /\ (<<e>> \o Tail(s))[1] = e
         /\ \A k \in 2..Len(s) : (<<e>> \o Tail(s))[k] = s[k]
<1>1. /\ Tail(s) \in Seq(T) /\ Len(s) \in Nat \ {0} /\ Len(Tail(s)) = Len(s) - 1
      /\ \A k \in 1..(Len(s) - 1) : Tail(s)[k] = s[k + 1]
      /\ DOMAIN s = 1..Len(s)
  BY FirstAndTail
<1> DEFINE r == Tail(s)
<1>2. /\ <<e>> \o r \in Seq(T) /\ Len(<<e>> \o r) = Len(r) + 1 /\ (<<e>> \o r)[1] = e
      /\ \A k \in 1..Len(r) : (<<e>> \o r)[k + 1] = r[k]
      /\ DOMAIN (<<e>> \o r) = 1..(Len(r) + 1)
  BY <1>1, Prepended
<1> HIDE DEF r
<1>3. Len(r) + 1 = Len(s)  BY <1>1 DEF r
<1>4. ASSUME NEW k \in 2..Len(s)  PROVE (<<e>> \o r)[k] = s[k]
  <2>1. k - 1 \in 1..Len(r) /\ (k - 1) + 1 = k /\ k - 1 \in 1..(Len(s) - 1)  BY <1>1, <1>3
  <2>2. (<<e>> \o r)[k] = r[k - 1]  BY <1>2, <2>1
  <2>3. r[k - 1] = s[k]  BY <1>1, <2>1 DEF r
  <2> QED  BY <2>2, <2>3
<1> QED  BY <1>1, <1>2, <1>3, <1>4 DEF r

(* The greater of two sizes. *)
LEMMA BlockForSize ==
  ASSUME NEW size \in Nat
  PROVE  BlockFor(size) \in Nat /\ BlockFor(size) >= size
<1>1. BlockDefault \in Nat  BY PoolsAssumption
<1>2. CASE size >= BlockDefault
  <2>1. size \in {size, BlockDefault} /\ \A y \in {size, BlockDefault} : size >= y  BY <1>1, <1>2
  <2>2. \A x \in {size, BlockDefault} : (\A y \in {size, BlockDefault} : x >= y) => x = size
    BY <1>1, <1>2
  <2> QED  BY <2>1, <2>2 DEF BlockFor, Max
<1>3. CASE ~(size >= BlockDefault)
  <2>1. BlockDefault \in {size, BlockDefault} /\ \A y \in {size, BlockDefault} : BlockDefault >= y
    BY <1>1, <1>3
  <2>2. \A x \in {size, BlockDefault} : (\A y \in {size, BlockDefault} : x >= y) => x = BlockDefault
    BY <1>1, <1>3
  <2> QED  BY <1>1, <1>3, <2>1, <2>2 DEF BlockFor, Max
<1> QED  BY <1>2, <1>3

-----------------------------------------------------------------------------
(* The shape of the pools: what an operation may do to it.                  *)

SameNode(c) ==
  /\ pool'[c].active = pool[c].active /\ pool'[c].parent = pool[c].parent
  /\ pool'[c].owner = pool[c].owner /\ pool'[c].children = pool[c].children
OthersSame(c) == \A d \in Control \ {c} : pool'[d] = pool[d] /\ live'[d] = live[d]

(* No pool is the null one. *)
LEMMA NoPoolIsNone == NoPool \notin Control /\ NoPool = 0 /\ Control \subseteq Nat
BY PoolsAssumption DEF NoPool, Control

(* What the types say of a pool and of the stack of a thread. *)
LEMMA TypedPool ==
  ASSUME PoolTypes, NEW c \in Control
  PROVE  /\ pool[c] \in PoolRecord /\ pool[c].active \in BOOLEAN
         /\ pool[c].parent \in Control \cup {NoPool} /\ pool[c].owner \in PoolThread \cup {NoPool}
         /\ pool[c].children \in Children /\ pool[c].unmanaged \in BOOLEAN
         /\ pool[c].cleanups \in Lists /\ pool[c].pre_cleanups \in Lists
         /\ pool[c].blocks \in BlockLists /\ pool[c].userdata \in SUBSET Data
BY DEF PoolTypes, PoolRecord

LEMMA TypedStack ==
  ASSUME PoolTypes, NEW t \in PoolThread
  PROVE  /\ stack[t] \in Seq(FrameRecord) /\ DOMAIN stack[t] = 1..Len(stack[t]) /\ Len(stack[t]) \in Nat
         /\ \A k \in DOMAIN stack[t] : stack[t][k] \in FrameRecord /\ stack[t][k].c \in Control
<1>1. stack[t] \in Seq(FrameRecord)  BY DEF PoolTypes, Stacks
<1>2. DOMAIN stack[t] = 1..Len(stack[t]) /\ Len(stack[t]) \in Nat
      /\ \A k \in DOMAIN stack[t] : stack[t][k] \in FrameRecord
  BY <1>1
<1>3. \A f \in FrameRecord : f.c \in Control  BY DEF FrameRecord
<1> QED  BY <1>1, <1>2, <1>3

(* The frame that works is the first of the stack. *)
LEMMA TopIsFirst ==
  ASSUME PoolTypes, NEW t \in PoolThread, stack[t] # <<>>
  PROVE  Top(t) = stack[t][1] /\ 1 \in DOMAIN stack[t] /\ Top(t) \in FrameRecord /\ Top(t).c \in Control
BY TypedStack, FirstAndTail DEF Top

(* A pool that a callback uses has one frame, the one of that callback. *)
LEMMA UsableFrames ==
  ASSUME PoolTypes, NEW rank \in Ranks, StackOK(rank), NEW t \in PoolThread, NEW c \in Control,
         Usable(t, c), NEW u \in PoolThread, NEW k \in DOMAIN stack[u], stack[u][k].c = c
  PROVE  u = t /\ k = 1 /\ InCallback(t) /\ stack[u][k] = Top(t)
<1>1. u = t  BY DEF StackOK, FrameOK, FrameFor, FrameStays, Usable
<1>2. stack[t] # <<>>  BY <1>1
<1>3. InCallback(t) /\ Top(t).c = c  BY <1>2 DEF Usable, AtRest
<1>4. Top(t) = stack[t][1] /\ 1 \in DOMAIN stack[t]  BY <1>2, TopIsFirst
<1>5. k = 1
  <2>1. k \in Nat /\ (k = 1 \/ 1 < k)  BY <1>1, TypedStack
  <2>2. ASSUME 1 < k  PROVE FALSE
    <3>1. rank[stack[t][k].c] < rank[stack[t][1].c]  BY <1>1, <1>4, <2>2 DEF StackOK, FrameOK, FrameStays
    <3>2. rank[c] < rank[c]  BY <1>1, <1>3, <1>4, <3>1
    <3> QED  BY <3>2 DEF Ranks
  <2> QED  BY <2>1, <2>2
<1> QED  BY <1>1, <1>3, <1>4, <1>5

(* The use of a pool by its thread leaves the trees as they are. *)
LEMMA TreeKept ==
  ASSUME PoolTypes, NEW rank \in Ranks, Tree(rank), NEW c \in Control, pool[c].active,
         SameNode(c), OthersSame(c)
  PROVE  Tree(rank)'
<1>1. \A d \in Control : SameNode(d)  BY DEF SameNode, OthersSame
<1>2. \A d \in Control : ~pool'[d].active => pool'[d] = EmptyPool /\ live'[d] = {}
  BY <1>1 DEF Tree, SameNode, OthersSame
<1>3. ASSUME NEW d \in Control, pool'[d].active, pool'[d].parent # NoPool
      PROVE  /\ pool'[pool'[d].parent].active /\ pool'[pool'[d].parent].owner = pool'[d].owner
             /\ rank[pool'[d].parent] < rank[d]
             /\ \E k \in DOMAIN pool'[pool'[d].parent].children :
                  pool'[pool'[d].parent].children[k] = d
  <2>1. pool'[d].parent = pool[d].parent /\ pool[d].parent \in Control /\ pool[d].active
    BY <1>1, <1>3, TypedPool DEF SameNode
  <2>2. SameNode(pool[d].parent) /\ SameNode(d)  BY <1>1, <2>1
  <2> QED  BY <1>3, <2>1, <2>2 DEF Tree, SameNode
<1>4. ASSUME NEW d \in Control, NEW k \in DOMAIN pool'[d].children
      PROVE  pool'[pool'[d].children[k]].parent = d
  <2>1. pool'[d].children = pool[d].children  BY <1>1 DEF SameNode
  <2>2. pool[d].children[k] \in Control  BY <2>1, TypedPool DEF Children
  <2> QED  BY <1>1, <1>4, <2>1, <2>2 DEF Tree, SameNode
<1>5. \A d \in Control : \A j, k \in DOMAIN pool'[d].children :
        pool'[d].children[j] = pool'[d].children[k] => j = k
  BY <1>1 DEF Tree, SameNode
<1> QED  BY <1>2, <1>3, <1>4, <1>5 DEF Tree

LEMMA UsedKeepsShape ==
  ASSUME PoolShape, PoolTypes', NEW t \in PoolThread, NEW c \in Control, Usable(t, c),
         UNCHANGED callVars, SameNode(c), OthersSame(c),
         TreeMayChange(t) \/ (pool[c].pre_cleanups = <<>> => pool'[c].pre_cleanups = <<>>)
  PROVE  PoolShape'
<1>1. PICK rank \in Ranks : Tree(rank) /\ StackOK(rank)  BY DEF PoolShape
<1>2. PoolTypes /\ EndingOK /\ pool[c].active /\ UNCHANGED <<stack, ending>>
  BY DEF PoolShape, Usable, callVars
<1>3. Tree(rank)'  BY <1>1, <1>2, TreeKept
<1>4. ASSUME NEW u \in PoolThread, NEW k \in DOMAIN stack[u]
      PROVE  FrameStays(u, stack[u][k])
  <2> DEFINE f == stack[u][k]
  <2>1. FrameOK(u, f)  BY <1>1 DEF StackOK, FrameOK, FrameStays
  <2>2. f.c \in Control /\ stack'[u][k] = f  BY <1>2, TypedStack
  <2>3. CASE f.c # c
    <3>1. pool'[f.c] = pool[f.c] /\ live'[f.c] = live[f.c]  BY <2>2, <2>3 DEF OthersSame
    <3> QED  BY <1>2, <2>1, <2>2, <3>1 DEF FrameOK, FrameFor, FrameStays
  <2>4. CASE f.c = c
    <3>1. u = t /\ InCallback(t) /\ f = Top(t)  BY <1>1, <1>2, <2>4, UsableFrames
    <3>2. f.at \in CleanupLists
      BY <2>1, <3>1 DEF InCallback, FrameOK, FrameFor, FrameStays, CleanupLists
    <3>3. f.at = "cleanups" => pool'[c].pre_cleanups = <<>>
      BY <2>1, <2>4, <3>1 DEF TreeMayChange, AtRest, InCallback, FrameOK, FrameFor, FrameStays
    <3>4. pool'[c].active = pool[c].active /\ pool'[c].owner = pool[c].owner
          /\ pool'[c].children = pool[c].children
      BY DEF SameNode
    <3> QED  BY <1>2, <2>1, <2>2, <2>4, <3>2, <3>3, <3>4 DEF FrameOK, FrameFor, FrameStays, CleanupLists
  <2> QED  BY <2>3, <2>4
<1>5. StackOK(rank)'
  BY <1>1, <1>2, <1>4 DEF StackOK, FrameOK, FrameStays
<1>6. EndingOK'
  <2>1. \A d \in Control : pool'[d].active = pool[d].active /\ pool'[d].owner = pool[d].owner
    BY DEF SameNode, OthersSame
  <2> QED  BY <1>2, <2>1 DEF EndingOK, AtRest
<1> QED  BY <1>1, <1>3, <1>5, <1>6 DEF PoolShape

(* A thread that is within a call knows that nobody ends the library. *)
LEMMA NobodyElseEnds ==
  ASSUME EndingOK, NEW t \in PoolThread, stack[t] # <<>> \/ ending[t] # 0
  PROVE  \A u \in PoolThread \ {t} : ending[u] = 0
BY DEF EndingOK, AtRest

(* As long as nobody ends the library, another may be in a call. *)
LEMMA EndingKept ==
  ASSUME EndingOK, NEW t \in PoolThread,
         \A u \in PoolThread \ {t} : stack'[u] = stack[u] /\ ending'[u] = ending[u] /\ ending[u] = 0,
         ending'[t] # 0 => ending[t] # 0,
         \A c \in Control : pool'[c].active =>
           (pool[c].active /\ pool'[c].owner = pool[c].owner) \/ pool'[c].owner = t
  PROVE  EndingOK'
<1> SUFFICES ASSUME NEW u \in PoolThread, ending'[u] # 0
             PROVE  /\ \A v \in PoolThread \ {u} : AtRest(v)'
                    /\ \A c \in Control : pool'[c].active => pool'[c].owner = u
  BY DEF EndingOK
<1>1. u = t /\ ending[t] # 0  OBVIOUS
<1>2. \A v \in PoolThread \ {t} : AtRest(v)'  BY <1>1 DEF EndingOK, AtRest
<1>3. \A c \in Control : pool'[c].active => pool'[c].owner = t  BY <1>1 DEF EndingOK
<1> QED  BY <1>1, <1>2, <1>3

(* No other frame is about the pool of the first. *)
LEMMA TopIsAlone ==
  ASSUME PoolTypes, NEW rank \in Ranks, StackOK(rank), NEW t \in PoolThread, stack[t] # <<>>,
         NEW u \in PoolThread, NEW k \in DOMAIN stack[u], u # t \/ k # 1
  PROVE  stack[u][k].c # Top(t).c /\ (u = t => rank[stack[u][k].c] < rank[Top(t).c])
<1>1. Top(t) = stack[t][1] /\ 1 \in DOMAIN stack[t] /\ Top(t).c \in Control  BY TopIsFirst
<1>2. CASE u # t
  <2>1. pool[Top(t).c].owner = t /\ pool[stack[u][k].c].owner = u
    BY <1>1 DEF StackOK, FrameOK, FrameFor, FrameStays
  <2> QED  BY <1>2, <2>1
<1>3. CASE u = t
  <2>1. 1 < k  BY <1>3, TypedStack
  <2>2. rank[stack[u][k].c] < rank[Top(t).c]  BY <1>1, <1>3, <2>1 DEF StackOK, FrameOK, FrameStays
  <2>3. rank[Top(t).c] \in Nat  BY <1>1 DEF Ranks
  <2> QED  BY <1>3, <2>2, <2>3
<1> QED  BY <1>2, <1>3

(* A frame more, about a pool on which no other frame works. *)
LEMMA PushKeepsShape ==
  ASSUME PoolShape, PoolTypes', EndingOK', NEW t \in PoolThread, NEW f \in FrameRecord,
         stack' = [stack EXCEPT ![t] = <<f>> \o @], UNCHANGED <<pool, live>>,
         f.at = "pre_cleanups", f.callback = NoCleanup, pool[f.c].active, pool[f.c].owner = t,
         stack[t] = <<>> \/ pool[f.c].parent = Top(t).c
  PROVE  PoolShape'
<1>1. PICK rank \in Ranks : Tree(rank) /\ StackOK(rank)  BY DEF PoolShape
<1>2. PoolTypes /\ f.c \in Control  BY DEF PoolShape, FrameRecord
<1>3. Tree(rank)'  BY <1>1 DEF Tree
<1>4. /\ stack'[t] = <<f>> \o stack[t] /\ \A u \in PoolThread \ {t} : stack'[u] = stack[u]
      /\ stack[t] \in Seq(FrameRecord)
  BY <1>2, TypedStack DEF PoolTypes
<1>5. /\ DOMAIN stack'[t] = 1..(Len(stack[t]) + 1) /\ stack'[t][1] = f
      /\ \A k \in 1..Len(stack[t]) : stack'[t][k + 1] = stack[t][k]
      /\ DOMAIN stack[t] = 1..Len(stack[t]) /\ Len(stack[t]) \in Nat
  BY <1>4, Prepended
<1>6. \A k \in DOMAIN stack'[t] : k = 1 \/ (k - 1 \in DOMAIN stack[t] /\ stack'[t][k] = stack[t][k - 1])
  <2> SUFFICES ASSUME NEW k \in DOMAIN stack'[t], k # 1
               PROVE  k - 1 \in DOMAIN stack[t] /\ stack'[t][k] = stack[t][k - 1]
    OBVIOUS
  <2>1. k - 1 \in 1..Len(stack[t]) /\ (k - 1) + 1 = k  BY <1>5
  <2> QED  BY <1>5, <2>1
<1>7. ASSUME NEW k \in DOMAIN stack[t]  PROVE rank[stack[t][k].c] < rank[f.c]
  <2>1. stack[t] # <<>> /\ 1 \in DOMAIN stack[t] /\ Top(t) = stack[t][1] /\ Top(t).c \in Control
    BY <1>2, <1>7, TypedStack, TopIsFirst
  <2>2. rank[Top(t).c] < rank[f.c]
    <3>1. pool[f.c].parent = Top(t).c /\ pool[f.c].parent # NoPool  BY <2>1, NoPoolIsNone
    <3>2. rank[pool[f.c].parent] < rank[f.c]  BY <1>1, <1>2, <3>1 DEF Tree
    <3> QED  BY <3>1, <3>2
  <2>3. k = 1 \/ rank[stack[t][k].c] < rank[Top(t).c]
    BY <1>1, <1>2, <2>1, TopIsAlone
  <2>4. stack[t][k].c \in Control  BY <1>2, TypedStack
  <2>5. rank[stack[t][k].c] \in Nat /\ rank[Top(t).c] \in Nat /\ rank[f.c] \in Nat
    BY <1>2, <2>1, <2>4 DEF Ranks
  <2> QED  BY <2>1, <2>2, <2>3, <2>5
<1>8. ASSUME NEW u \in PoolThread, NEW k \in DOMAIN stack'[u]
      PROVE  FrameStays(u, stack'[u][k])
  <2>1. FrameStays(t, f)  BY DEF FrameOK, FrameFor, FrameStays
  <2>2. \A v \in PoolThread : \A j \in DOMAIN stack[v] : FrameOK(v, stack[v][j])
    BY <1>1 DEF StackOK, FrameOK, FrameStays
  <2>3. \A v \in PoolThread : \A j \in DOMAIN stack[v] : FrameStays(v, stack[v][j])
    BY <2>2 DEF FrameOK, FrameFor, FrameStays
  <2> QED  BY <1>4, <1>5, <1>6, <2>1, <2>3
<1>9. ASSUME NEW u \in PoolThread, NEW j \in DOMAIN stack'[u], NEW k \in DOMAIN stack'[u], j < k
      PROVE  rank[stack'[u][k].c] < rank[stack'[u][j].c]
  <2>1. CASE u # t  BY <1>1, <1>4, <1>9, <2>1 DEF StackOK, FrameOK, FrameStays
  <2>2. CASE u = t
    <3>1. k # 1 /\ k - 1 \in DOMAIN stack[t] /\ stack'[t][k] = stack[t][k - 1]
      BY <1>5, <1>6, <1>9, <2>2
    <3>2. CASE j = 1  BY <1>5, <1>7, <2>2, <3>1, <3>2
    <3>3. CASE j # 1
      <4>1. j - 1 \in DOMAIN stack[t] /\ stack'[t][j] = stack[t][j - 1] /\ j - 1 < k - 1
        BY <1>5, <1>6, <1>9, <2>2, <3>3
      <4> QED  BY <1>1, <2>2, <3>1, <4>1 DEF StackOK, FrameOK, FrameStays
    <3> QED  BY <3>2, <3>3
  <2> QED  BY <2>1, <2>2
<1>10. StackOK(rank)'  BY <1>8, <1>9 DEF StackOK, FrameOK, FrameStays
<1> QED  BY <1>1, <1>3, <1>10 DEF PoolShape

(* The work on the pool of the first frame does nothing to the others. *)
LEMMA OtherFramesKept ==
  ASSUME PoolTypes, NEW rank \in Ranks, StackOK(rank), NEW t \in PoolThread, stack[t] # <<>>,
         OthersSame(Top(t).c), NEW u \in PoolThread, NEW k \in DOMAIN stack[u], u # t \/ k # 1
  PROVE  FrameStays(u, stack[u][k])
<1>1. stack[u][k].c # Top(t).c /\ stack[u][k].c \in Control  BY TopIsAlone, TypedStack
<1>2. pool'[stack[u][k].c] = pool[stack[u][k].c] /\ live'[stack[u][k].c] = live[stack[u][k].c]
  BY <1>1 DEF OthersSame
<1>3. FrameOK(u, stack[u][k])  BY DEF StackOK, FrameOK, FrameStays
<1> QED  BY <1>2, <1>3 DEF FrameOK, FrameFor, FrameStays

(* The first frame goes on to another step of the work on its pool. *)
LEMMA TopKeepsShape ==
  ASSUME PoolShape, PoolTypes', NEW t \in PoolThread, stack[t] # <<>>, NEW f \in FrameRecord,
         stack' = [stack EXCEPT ![t] = <<f>> \o Tail(@)], UNCHANGED ending,
         f.c = Top(t).c, SameNode(Top(t).c), OthersSame(Top(t).c), FrameStays(t, f)
  PROVE  PoolShape'
<1> DEFINE c == Top(t).c
<1>1. PICK rank \in Ranks : Tree(rank) /\ StackOK(rank)  BY DEF PoolShape
<1>2. PoolTypes /\ EndingOK /\ c \in Control /\ Top(t) = stack[t][1] /\ 1 \in DOMAIN stack[t]
  BY TopIsFirst DEF PoolShape
<1>3. pool[c].active /\ pool[c].owner = t  BY <1>1, <1>2 DEF StackOK, FrameOK, FrameFor, FrameStays
<1>4. Tree(rank)'  BY <1>1, <1>2, <1>3, TreeKept
<1>5. /\ stack'[t] = <<f>> \o Tail(stack[t]) /\ \A u \in PoolThread \ {t} : stack'[u] = stack[u]
      /\ stack[t] \in Seq(FrameRecord)
  BY <1>2, TypedStack DEF PoolTypes
<1>6. /\ DOMAIN stack'[t] = DOMAIN stack[t] /\ DOMAIN stack[t] = 1..Len(stack[t])
      /\ Len(stack[t]) \in Nat /\ stack'[t][1] = f
      /\ \A k \in 2..Len(stack[t]) : stack'[t][k] = stack[t][k]
  BY <1>5, FirstReplaced
<1>7. \A k \in DOMAIN stack[t] : k = 1 \/ (k # 1 /\ stack'[t][k] = stack[t][k])
  BY <1>6
<1>8. \A u \in PoolThread : DOMAIN stack'[u] = DOMAIN stack[u]
      /\ \A k \in DOMAIN stack[u] : stack'[u][k].c = stack[u][k].c
  BY <1>2, <1>5, <1>6, <1>7
<1>9. ASSUME NEW u \in PoolThread, NEW k \in DOMAIN stack'[u]
      PROVE  FrameStays(u, stack'[u][k])
  <2>1. CASE u = t /\ k = 1  BY <1>6, <2>1
  <2>2. CASE u # t \/ k # 1
    <3>1. k \in DOMAIN stack[u] /\ stack'[u][k] = stack[u][k]  BY <1>5, <1>7, <1>8, <2>2
    <3>2. FrameStays(u, stack[u][k])  BY <1>1, <1>2, <2>2, <3>1, OtherFramesKept
    <3> QED  BY <3>1, <3>2
  <2> QED  BY <2>1, <2>2
<1>10. StackOK(rank)'
  <2>1. \A u \in PoolThread : \A j, k \in DOMAIN stack'[u] :
          j < k => rank[stack'[u][k].c] < rank[stack'[u][j].c]
    BY <1>1, <1>8 DEF StackOK, FrameOK, FrameStays
  <2> QED  BY <1>9, <2>1 DEF StackOK, FrameOK, FrameStays
<1>11. EndingOK'
  <2>1. \A u \in PoolThread \ {t} : ending[u] = 0  BY <1>2, NobodyElseEnds
  <2>2. \A d \in Control : pool'[d].active = pool[d].active /\ pool'[d].owner = pool[d].owner
    BY DEF SameNode, OthersSame
  <2> QED  BY <1>2, <1>5, <2>1, <2>2, EndingKept
<1> QED  BY <1>1, <1>4, <1>10, <1>11 DEF PoolShape

(* The frames below the first, when that is over. *)
LEMMA FramesBelow ==
  ASSUME PoolTypes, NEW t \in PoolThread, stack[t] # <<>>,
         stack' = [stack EXCEPT ![t] = Tail(@)]
  PROVE  /\ \A u \in PoolThread \ {t} : stack'[u] = stack[u]
         /\ \A k \in DOMAIN stack'[t] :
              k + 1 \in DOMAIN stack[t] /\ k + 1 # 1 /\ stack'[t][k] = stack[t][k + 1] /\ k \in Nat
         /\ \A k \in DOMAIN stack[t] : k # 1 =>
              k - 1 \in DOMAIN stack'[t] /\ stack'[t][k - 1] = stack[t][k]
<1>1. /\ stack'[t] = Tail(stack[t]) /\ \A u \in PoolThread \ {t} : stack'[u] = stack[u]
      /\ stack[t] \in Seq(FrameRecord)
  BY TypedStack DEF PoolTypes
<1>2. /\ DOMAIN stack'[t] = 1..(Len(stack[t]) - 1) /\ DOMAIN stack[t] = 1..Len(stack[t])
      /\ Len(stack[t]) \in Nat /\ \A k \in 1..(Len(stack[t]) - 1) : stack'[t][k] = stack[t][k + 1]
  <2> DEFINE s == stack[t]
  <2>1. s \in Seq(FrameRecord) /\ s # <<>>  BY <1>1
  <2> HIDE DEF s
  <2>2. /\ DOMAIN Tail(s) = 1..(Len(s) - 1) /\ DOMAIN s = 1..Len(s) /\ Len(s) \in Nat
        /\ \A k \in 1..(Len(s) - 1) : Tail(s)[k] = s[k + 1]
    BY <2>1, FirstAndTail
  <2>3. stack'[t] = Tail(s)  BY <1>1 DEF s
  <2>4. /\ DOMAIN stack'[t] = 1..(Len(s) - 1) /\ DOMAIN s = 1..Len(s) /\ Len(s) \in Nat
        /\ \A k \in 1..(Len(s) - 1) : stack'[t][k] = s[k + 1]
    BY <2>2, <2>3
  <2> QED  BY <2>4 DEF s
<1>3. \A k \in DOMAIN stack'[t] :
        k + 1 \in DOMAIN stack[t] /\ k + 1 # 1 /\ stack'[t][k] = stack[t][k + 1] /\ k \in Nat
  BY <1>2
<1>4. ASSUME NEW k \in DOMAIN stack[t], k # 1
      PROVE  k - 1 \in DOMAIN stack'[t] /\ stack'[t][k - 1] = stack[t][k]
  <2>1. k - 1 \in 1..(Len(stack[t]) - 1) /\ (k - 1) + 1 = k  BY <1>2, <1>4
  <2> QED  BY <1>2, <2>1
<1> QED  BY <1>1, <1>3, <1>4

(* The end of a frame, whatever it did to its own pool; the tree is the     *)
(* caller's to show.                                                       *)
LEMMA PopKeepsStack ==
  ASSUME PoolTypes, NEW rank \in Ranks, StackOK(rank), NEW t \in PoolThread, stack[t] # <<>>,
         stack' = [stack EXCEPT ![t] = Tail(@)],
         \A u \in PoolThread : \A k \in DOMAIN stack[u] :
           u # t \/ k # 1 => FrameStays(u, stack[u][k])
  PROVE  StackOK(rank)'
<1>1. ASSUME NEW u \in PoolThread, NEW k \in DOMAIN stack'[u]
      PROVE  FrameStays(u, stack'[u][k])
  <2>1. CASE u = t
    <3>1. k + 1 \in DOMAIN stack[t] /\ k + 1 # 1 /\ stack'[t][k] = stack[t][k + 1]
      BY <1>1, <2>1, FramesBelow
    <3>2. FrameStays(t, stack[t][k + 1])  BY <3>1
    <3> QED  BY <2>1, <3>1, <3>2
  <2>2. CASE u # t
    <3>1. stack'[u] = stack[u]  BY <2>2, FramesBelow
    <3> QED  BY <1>1, <2>2, <3>1
  <2> QED  BY <2>1, <2>2
<1>2. ASSUME NEW u \in PoolThread, NEW j \in DOMAIN stack'[u], NEW k \in DOMAIN stack'[u], j < k
      PROVE  rank[stack'[u][k].c] < rank[stack'[u][j].c]
  <2>1. CASE u = t
    <3>1. /\ j + 1 \in DOMAIN stack[t] /\ k + 1 \in DOMAIN stack[t] /\ j \in Nat /\ k \in Nat
          /\ stack'[t][j] = stack[t][j + 1] /\ stack'[t][k] = stack[t][k + 1]
      BY <2>1, <1>2, FramesBelow
    <3>2. j + 1 < k + 1  BY <1>2, <3>1
    <3> QED  BY <2>1, <3>1, <3>2 DEF StackOK, FrameOK, FrameStays
  <2>2. CASE u # t  BY <2>2, <1>2, FramesBelow DEF StackOK, FrameOK, FrameStays
  <2> QED  BY <2>1, <2>2
<1> QED  BY <1>1, <1>2 DEF StackOK, FrameOK, FrameStays

-----------------------------------------------------------------------------
(* What an assignment to a field of a pool does to the table.               *)

OtherPools(c) == \A d \in Control \ {c} : pool'[d] = pool[d]

(* The blocks of a pool are others. *)
LEMMA BlocksSet ==
  ASSUME PoolTypes, NEW c \in Control, NEW v \in BlockLists, pool' = [pool EXCEPT ![c].blocks = v]
  PROVE  /\ pool' \in [Control -> PoolRecord] /\ OtherPools(c) /\ SameNode(c)
         /\ pool'[c].blocks = v /\ pool'[c].unmanaged = pool[c].unmanaged
         /\ pool'[c].cleanups = pool[c].cleanups /\ pool'[c].pre_cleanups = pool[c].pre_cleanups
         /\ pool'[c].userdata = pool[c].userdata
<1>1. pool \in [Control -> PoolRecord] /\ pool[c] \in PoolRecord  BY DEF PoolTypes
<1>2. pool'[c] = [pool[c] EXCEPT !.blocks = v] /\ OtherPools(c)  BY <1>1 DEF OtherPools
<1>3. pool'[c] \in PoolRecord  BY <1>1, <1>2 DEF PoolRecord
<1>4. pool' \in [Control -> PoolRecord]  BY <1>1, <1>2, <1>3 DEF OtherPools
<1> QED  BY <1>1, <1>2, <1>4 DEF PoolRecord, SameNode

(* A list of cleanups of a pool is another. *)
WithList(p, c, list, v) == [p EXCEPT ![c][list] = v]

LEMMA ListPut ==
  ASSUME NEW p \in [Control -> PoolRecord], NEW c \in Control, NEW list \in CleanupLists,
         NEW v \in Lists
  PROVE  LET q == WithList(p, c, list, v) IN
         /\ q \in [Control -> PoolRecord] /\ \A d \in Control \ {c} : q[d] = p[d]
         /\ q[c].active = p[c].active /\ q[c].parent = p[c].parent /\ q[c].owner = p[c].owner
         /\ q[c].children = p[c].children /\ q[c].unmanaged = p[c].unmanaged
         /\ q[c][list] = v /\ \A m \in CleanupLists \ {list} : q[c][m] = p[c][m]
         /\ q[c].blocks = p[c].blocks /\ q[c].userdata = p[c].userdata
<1> DEFINE q == WithList(p, c, list, v)
<1> USE DEF WithList
<1>1. p[c] \in PoolRecord /\ \A d \in Control \ {c} : q[d] = p[d]  OBVIOUS
<1>2. CASE list = "cleanups"
  <2>1. q[c] = [p[c] EXCEPT !.cleanups = v]  BY <1>2
  <2>2. q[c] \in PoolRecord  BY <1>1, <2>1 DEF PoolRecord
  <2>3. q \in [Control -> PoolRecord]  BY <1>1, <2>2
  <2> QED  BY <1>1, <1>2, <2>1, <2>3 DEF PoolRecord, CleanupLists
<1>3. CASE list = "pre_cleanups"
  <2>1. q[c] = [p[c] EXCEPT !.pre_cleanups = v]  BY <1>3
  <2>2. q[c] \in PoolRecord  BY <1>1, <2>1 DEF PoolRecord
  <2>3. q \in [Control -> PoolRecord]  BY <1>1, <2>2
  <2> QED  BY <1>1, <1>3, <2>1, <2>3 DEF PoolRecord, CleanupLists
<1> QED  BY <1>2, <1>3 DEF CleanupLists

LEMMA ListSet ==
  ASSUME PoolTypes, NEW c \in Control, NEW list \in CleanupLists, NEW v \in Lists,
         pool' = [pool EXCEPT ![c][list] = v]
  PROVE  /\ pool' \in [Control -> PoolRecord] /\ OtherPools(c) /\ SameNode(c)
         /\ pool'[c][list] = v /\ pool'[c].unmanaged = pool[c].unmanaged
         /\ \A m \in CleanupLists \ {list} : pool'[c][m] = pool[c][m]
         /\ pool'[c].blocks = pool[c].blocks /\ pool'[c].userdata = pool[c].userdata
<1> DEFINE q == WithList(pool, c, list, v)
<1>1. pool' = q /\ pool \in [Control -> PoolRecord]  BY DEF PoolTypes, WithList
<1>2. /\ q \in [Control -> PoolRecord] /\ \A d \in Control \ {c} : q[d] = pool[d]
      /\ q[c].active = pool[c].active /\ q[c].parent = pool[c].parent /\ q[c].owner = pool[c].owner
      /\ q[c].children = pool[c].children /\ q[c].unmanaged = pool[c].unmanaged
      /\ q[c][list] = v /\ \A m \in CleanupLists \ {list} : q[c][m] = pool[c][m]
      /\ q[c].blocks = pool[c].blocks /\ q[c].userdata = pool[c].userdata
  BY <1>1, ListPut
<1> HIDE DEF q
<1> QED  BY <1>1, <1>2 DEF OtherPools, SameNode

(* A list of cleanups of a typed pool. *)
LEMMA TypedList ==
  ASSUME PoolTypes, NEW c \in Control, NEW list \in CleanupLists
  PROVE  /\ pool[c][list] \in Lists /\ pool[c][list] \in Seq(Cleanup)
         /\ DOMAIN pool[c][list] = 1..Len(pool[c][list]) /\ Len(pool[c][list]) \in Nat
         /\ \A k \in DOMAIN pool[c][list] : pool[c][list][k] \in Cleanup
<1>1. pool[c][list] \in Lists  BY TypedPool DEF CleanupLists
<1> QED  BY <1>1 DEF Lists

(* The frames that the calls make. *)
LEMMA FrameTyped ==
  ASSUME NEW c \in Control, NEW op \in {"clear", "destroy"}
  PROVE  /\ Frame(c, op) \in FrameRecord /\ Frame(c, op).c = c /\ Frame(c, op).op = op
         /\ Frame(c, op).at = "pre_cleanups" /\ Frame(c, op).callback = NoCleanup
BY DEF Frame, FrameRecord

LEMMA FrameAt ==
  ASSUME NEW f \in FrameRecord,
         NEW step \in {"pre_cleanups", "children", "cleanups", "memory", "detach"}
  PROVE  LET g == [f EXCEPT !.at = step] IN
           g \in FrameRecord /\ g.c = f.c /\ g.op = f.op /\ g.at = step /\ g.callback = f.callback
BY DEF FrameRecord

LEMMA FrameCalls ==
  ASSUME NEW f \in FrameRecord, NEW d \in Cleanup \cup {NoCleanup}
  PROVE  LET g == [f EXCEPT !.callback = d] IN
           g \in FrameRecord /\ g.c = f.c /\ g.op = f.op /\ g.at = f.at /\ g.callback = d
BY DEF FrameRecord

(* What the stack is after a frame more, and after another first frame. *)
LEMMA StackTyped ==
  ASSUME PoolTypes, NEW t \in PoolThread, NEW f \in FrameRecord
  PROVE  /\ [stack EXCEPT ![t] = <<f>> \o @] \in [PoolThread -> Stacks]
         /\ stack[t] # <<>> => [stack EXCEPT ![t] = <<f>> \o Tail(@)] \in [PoolThread -> Stacks]
         /\ stack[t] # <<>> => [stack EXCEPT ![t] = Tail(@)] \in [PoolThread -> Stacks]
<1>1. stack \in [PoolThread -> Stacks] /\ stack[t] \in Seq(FrameRecord)  BY TypedStack DEF PoolTypes
<1>2. <<f>> \o stack[t] \in Stacks  BY <1>1, Prepended DEF Stacks
<1>3. stack[t] # <<>> => <<f>> \o Tail(stack[t]) \in Stacks  BY <1>1, FirstReplaced DEF Stacks
<1>4. stack[t] # <<>> => Tail(stack[t]) \in Stacks  BY <1>1, FirstAndTail DEF Stacks
<1> QED  BY <1>1, <1>2, <1>3, <1>4

(* The memory of one pool is other. *)
LEMMA LiveSet ==
  ASSUME PoolTypes, NEW c \in Control, NEW v \in SUBSET (Nat \X Nat \X Nat), live' = [live EXCEPT ![c] = v]
  PROVE  /\ live' \in [Control -> SUBSET (Nat \X Nat \X Nat)] /\ live'[c] = v
         /\ \A d \in Control \ {c} : live'[d] = live[d]
BY DEF PoolTypes

-----------------------------------------------------------------------------
(* The shape after each operation.                                          *)

(* Nobody else ends the library while a thread makes an operation. *)
LEMMA OperationEnding ==
  ASSUME EndingOK, NEW t \in PoolThread, Operation(t), UNCHANGED <<pool, ending>>,
         \A u \in PoolThread \ {t} : stack'[u] = stack[u]
  PROVE  EndingOK'
BY EndingKept DEF Operation

LEMMA ClearPoolShape ==
  ASSUME PoolShape, NEW t \in PoolThread, NEW c \in Control, ClearPool(t, c)
  PROVE  PoolShape'
<1> DEFINE f == Frame(c, "clear")
<1>1. PoolTypes /\ EndingOK /\ Operation(t) /\ stack[t] = <<>> /\ pool[c].active /\ pool[c].owner = t
  BY DEF PoolShape, ClearPool, Usable, AtRest
<1>2. stack' = [stack EXCEPT ![t] = <<f>>]  BY DEF ClearPool
<1>3. UNCHANGED <<pool, free_blocks, arena_used, capacity, used, live, runs, ending>>
  BY DEF ClearPool, memoryVars, cleanupVars
<1>4. f \in FrameRecord /\ f.c = c /\ f.at = "pre_cleanups" /\ f.callback = NoCleanup  BY FrameTyped
<1> HIDE DEF f
<1>5. stack' = [stack EXCEPT ![t] = <<f>> \o @]
  <2>1. <<f>> \o stack[t] = <<f>>  BY <1>1
  <2> QED  BY <1>2, <2>1
<1>6. stack' \in [PoolThread -> Stacks]  BY <1>1, <1>4, <1>5, StackTyped
<1>7. PoolTypes'  BY <1>1, <1>3, <1>6 DEF PoolTypes
<1>8. \A u \in PoolThread \ {t} : stack'[u] = stack[u]  BY <1>1, <1>2 DEF PoolTypes
<1>9. EndingOK'  BY <1>1, <1>3, <1>8, OperationEnding
<1> QED  BY <1>1, <1>3, <1>4, <1>5, <1>7, <1>9, PushKeepsShape

LEMMA DestroyPoolShape ==
  ASSUME PoolShape, NEW t \in PoolThread, NEW c \in Control, DestroyPool(t, c)
  PROVE  PoolShape'
<1> DEFINE f == Frame(c, "destroy")
<1>1. PoolTypes /\ EndingOK /\ Operation(t) /\ pool[c].active /\ pool[c].owner = t
  BY DEF PoolShape, DestroyPool
<1>2. stack' = [stack EXCEPT ![t] = <<f>> \o @]  BY DEF DestroyPool
<1>3. UNCHANGED <<pool, free_blocks, arena_used, capacity, used, live, runs, ending>>
  BY DEF DestroyPool, memoryVars, cleanupVars
<1>4. f \in FrameRecord /\ f.c = c /\ f.at = "pre_cleanups" /\ f.callback = NoCleanup  BY FrameTyped
<1>5. stack[t] = <<>> \/ pool[c].parent = Top(t).c
  BY DEF DestroyPool, TreeMayChange, AtRest
<1> HIDE DEF f
<1>6. stack' \in [PoolThread -> Stacks]  BY <1>1, <1>2, <1>4, StackTyped
<1>7. PoolTypes'  BY <1>1, <1>3, <1>6 DEF PoolTypes
<1>8. \A u \in PoolThread \ {t} : stack'[u] = stack[u]  BY <1>1, <1>2 DEF PoolTypes
<1>9. EndingOK'  BY <1>1, <1>3, <1>8, OperationEnding
<1> QED  BY <1>1, <1>2, <1>3, <1>4, <1>5, <1>7, <1>9, PushKeepsShape

(* The end of the library goes on to the next root, or is over. *)
LEMMA TerminateNextShape ==
  ASSUME PoolShape, NEW t \in PoolThread, TerminateNext(t)
  PROVE  PoolShape'
<1>1. PoolTypes /\ EndingOK /\ ending[t] # 0 /\ stack[t] = <<>>
  BY DEF PoolShape, TerminateNext
<1>2. UNCHANGED <<pool, free_blocks, arena_used, capacity, used, live, runs>>
  BY DEF TerminateNext, memoryVars, cleanupVars
<1>3. \A u \in PoolThread \ {t} : ending[u] = 0  BY <1>1, NobodyElseEnds
<1>4. CASE RootsLeft(t) # {}
  <2> DEFINE c == Min(RootsLeft(t))
             f == Frame(c, "destroy")
  <2>1. c \in Control /\ pool[c].active
    <3>1. RootsLeft(t) \subseteq Nat /\ RootsLeft(t) # {}
      BY <1>4, NoPoolIsNone DEF RootsLeft
    <3>2. c \in RootsLeft(t)  BY <3>1, MinIsLeast
    <3> QED  BY <3>2 DEF RootsLeft
  <2>2. stack' = [stack EXCEPT ![t] = <<f>>] /\ ending' = [ending EXCEPT ![t] = c + 1]
    BY <1>4 DEF TerminateNext
  <2>3. f \in FrameRecord /\ f.c = c /\ f.at = "pre_cleanups" /\ f.callback = NoCleanup
    BY <2>1, FrameTyped
  <2> HIDE DEF f, c
  <2>4. c + 1 \in Nat
    <3>1. c \in Nat  BY <2>1, NoPoolIsNone
    <3> QED  BY <3>1
  <2>5. pool[c].owner = t  BY <1>1, <2>1 DEF EndingOK
  <2>6. stack' = [stack EXCEPT ![t] = <<f>> \o @]
    <3>1. <<f>> \o stack[t] = <<f>>  BY <1>1
    <3> QED  BY <2>2, <3>1
  <2>7. stack' \in [PoolThread -> Stacks]  BY <1>1, <2>3, <2>6, StackTyped
  <2>8. ending' \in [PoolThread -> Nat] /\ \A u \in PoolThread \ {t} : ending'[u] = ending[u]
    BY <1>1, <2>2, <2>4 DEF PoolTypes
  <2>9. PoolTypes'  BY <1>1, <1>2, <2>7, <2>8 DEF PoolTypes
  <2>10. \A u \in PoolThread \ {t} : stack'[u] = stack[u]  BY <1>1, <2>2 DEF PoolTypes
  <2>11. EndingOK'  BY <1>1, <1>2, <1>3, <2>8, <2>10, EndingKept
  <2> QED  BY <1>1, <1>2, <2>1, <2>3, <2>5, <2>6, <2>9, <2>11, PushKeepsShape
<1>5. CASE RootsLeft(t) = {}
  <2>1. ending' = [ending EXCEPT ![t] = 0] /\ UNCHANGED stack  BY <1>5 DEF TerminateNext
  <2>2. ending' \in [PoolThread -> Nat] /\ ending'[t] = 0
        /\ \A u \in PoolThread \ {t} : ending'[u] = ending[u]
    BY <1>1, <2>1 DEF PoolTypes
  <2>3. PoolTypes'  BY <1>1, <1>2, <2>1, <2>2 DEF PoolTypes
  <2>4. EndingOK'  BY <1>1, <1>2, <1>3, <2>1, <2>2, EndingKept
  <2>5. PICK rank \in Ranks : Tree(rank) /\ StackOK(rank)  BY DEF PoolShape
  <2>6. Tree(rank)'  BY <1>2, <2>5 DEF Tree
  <2>7. StackOK(rank)'  BY <1>2, <2>1, <2>5 DEF StackOK, FrameOK
  <2> QED  BY <2>3, <2>4, <2>5, <2>6, <2>7 DEF PoolShape
<1> QED  BY <1>4, <1>5

(* A child of a pool is in use, by the thread of its parent. *)
LEMMA FirstChild ==
  ASSUME PoolTypes, NEW rank \in Ranks, Tree(rank), NEW c \in Control, pool[c].children # <<>>
  PROVE  LET d == Head(pool[c].children) IN
           d \in Control /\ pool[d].active /\ pool[d].parent = c /\ pool[d].owner = pool[c].owner
<1> DEFINE s == pool[c].children
           d == Head(s)
<1>1. s \in Seq(Control) /\ s # <<>>  BY TypedPool DEF Children
<1>2. d = s[1] /\ 1 \in DOMAIN s /\ d \in Control
  <2> HIDE DEF s
  <2> QED  BY <1>1, FirstAndTail DEF d
<1>3. pool[d].parent = c  BY <1>2 DEF Tree
<1>4. c # NoPool  BY NoPoolIsNone
<1>5. pool[d].active  BY <1>2, <1>3, <1>4 DEF Tree, EmptyPool
<1> QED  BY <1>2, <1>3, <1>4, <1>5 DEF Tree

(* The first frame, and what it says of its pool. *)
LEMMA WorkingFrame ==
  ASSUME PoolShape, NEW t \in PoolThread, stack[t] # <<>>
  PROVE  /\ PoolTypes /\ Top(t) \in FrameRecord /\ Top(t).c \in Control /\ FrameOK(t, Top(t))
         /\ Top(t) = stack[t][1] /\ 1 \in DOMAIN stack[t]
         /\ pool[Top(t).c].active /\ pool[Top(t).c].owner = t
<1>1. PICK rank \in Ranks : Tree(rank) /\ StackOK(rank)  BY DEF PoolShape
<1>2. PoolTypes /\ Top(t) = stack[t][1] /\ 1 \in DOMAIN stack[t] /\ Top(t) \in FrameRecord
      /\ Top(t).c \in Control
  BY TopIsFirst DEF PoolShape
<1>3. FrameOK(t, Top(t))  BY <1>1, <1>2 DEF StackOK
<1> QED  BY <1>2, <1>3 DEF FrameOK, FrameFor

(* The first frame goes on, and nothing else changes. *)
LEMMA AtKeepsShape ==
  ASSUME PoolShape, NEW t \in PoolThread, stack[t] # <<>>, NEW f \in FrameRecord,
         stack' = [stack EXCEPT ![t] = <<f>> \o Tail(@)], f.c = Top(t).c, FrameOK(t, f),
         UNCHANGED <<pool, live, free_blocks, capacity, used, arena_used, ending>>,
         runs' \in Seq(Nat)
  PROVE  PoolShape'
<1>1. PoolTypes /\ Top(t).c \in Control  BY WorkingFrame
<1>2. stack' \in [PoolThread -> Stacks]  BY <1>1, StackTyped
<1>3. PoolTypes'  BY <1>1, <1>2 DEF PoolTypes
<1>4. SameNode(Top(t).c) /\ OthersSame(Top(t).c)  BY DEF SameNode, OthersSame
<1>5. FrameStays(t, f)  BY DEF FrameOK, FrameStays
<1> QED  BY <1>3, <1>4, <1>5, TopKeepsShape

LEMMA DestroyChildrenShape ==
  ASSUME PoolShape, NEW t \in PoolThread, DestroyChildren(t)
  PROVE  PoolShape'
<1> DEFINE c == Top(t).c
           s == pool[c].children
<1>1. stack[t] # <<>> /\ Top(t).at = "children" /\ Top(t).callback = NoCleanup
  BY DEF DestroyChildren, Works, InCallback
<1>2. UNCHANGED <<pool, free_blocks, arena_used, capacity, used, live, runs, ending>>
  BY DEF DestroyChildren, memoryVars, cleanupVars
<1>3. /\ PoolTypes /\ Top(t) \in FrameRecord /\ c \in Control /\ FrameOK(t, Top(t))
      /\ pool[c].active /\ pool[c].owner = t
  BY <1>1, WorkingFrame
<1>4. CASE s # <<>> /\ stack' = [stack EXCEPT ![t] = <<Frame(Head(s), "destroy")>> \o @]
  <2> DEFINE d == Head(s)
             f == Frame(d, "destroy")
  <2>1. PICK rank \in Ranks : Tree(rank) /\ StackOK(rank)  BY DEF PoolShape
  <2>2. d \in Control /\ pool[d].active /\ pool[d].parent = c /\ pool[d].owner = t
    BY <1>3, <1>4, <2>1, FirstChild
  <2>3. f \in FrameRecord /\ f.c = d /\ f.at = "pre_cleanups" /\ f.callback = NoCleanup
    BY <2>2, FrameTyped
  <2>4. stack' = [stack EXCEPT ![t] = <<f>> \o @]  BY <1>4
  <2> HIDE DEF f, d, c
  <2>5. stack' \in [PoolThread -> Stacks]  BY <1>3, <2>3, <2>4, StackTyped
  <2>6. PoolTypes'  BY <1>2, <1>3, <2>5 DEF PoolTypes
  <2>7. \A u \in PoolThread \ {t} : stack'[u] = stack[u]  BY <1>3, <2>4 DEF PoolTypes
  <2>8. EndingOK'
    <3>1. EndingOK /\ \A u \in PoolThread \ {t} : ending[u] = 0
      BY <1>1, NobodyElseEnds DEF PoolShape
    <3> QED  BY <1>2, <2>7, <3>1, EndingKept
  <2>9. pool[f.c].parent = Top(t).c  BY <2>2, <2>3 DEF c
  <2> QED  BY <1>2, <2>2, <2>3, <2>4, <2>6, <2>8, <2>9, PushKeepsShape
<1>5. CASE s = <<>> /\ At(t, "cleanups")
  <2> DEFINE f == [Top(t) EXCEPT !.at = "cleanups"]
  <2>1. f \in FrameRecord /\ f.c = c /\ f.at = "cleanups" /\ f.callback = NoCleanup
    BY <1>1, <1>3, FrameAt
  <2>2. stack' = [stack EXCEPT ![t] = <<f>> \o Tail(@)]  BY <1>5 DEF At
  <2> HIDE DEF f
  <2>3. FrameOK(t, f)  BY <1>1, <1>3, <1>5, <2>1 DEF FrameOK, FrameFor
  <2>4. runs' \in Seq(Nat)  BY <1>2, <1>3 DEF PoolTypes
  <2> QED  BY <1>1, <1>2, <2>1, <2>2, <2>3, <2>4, AtKeepsShape
<1> QED  BY <1>4, <1>5 DEF DestroyChildren

(* The first of a list of cleanups runs. *)
LEMMA RunCleanupShape ==
  ASSUME PoolShape, NEW t \in PoolThread, RunCleanup(t)
  PROVE  PoolShape'
<1> DEFINE c == Top(t).c
           list == Top(t).at
<1>1. stack[t] # <<>> /\ Top(t).callback = NoCleanup /\ list \in CleanupLists
  BY DEF RunCleanup, Works, InCallback, CleanupLists
<1>2. UNCHANGED <<free_blocks, arena_used, capacity, used, live, runs, ending>>
  BY DEF RunCleanup, memoryVars, cleanupVars
<1>3. /\ PoolTypes /\ Top(t) \in FrameRecord /\ c \in Control /\ FrameOK(t, Top(t))
      /\ pool[c].active /\ pool[c].owner = t
  BY <1>1, WorkingFrame
<1>4. CASE /\ pool[c][list] # <<>>
           /\ pool' = [pool EXCEPT ![c][list] = AfterFirst(@)]
           /\ stack' = [stack EXCEPT ![t] = <<[Top(t) EXCEPT !.callback = Head(pool[c][list])]>> \o Tail(@)]
  <2> DEFINE h == Head(pool[c][list])
             f == [Top(t) EXCEPT !.callback = h]
             v == Tail(pool[c][list])
  <2>1. h \in Cleanup /\ v \in Lists
    <3>1. pool[c][list] \in Seq(Cleanup)  BY <1>1, <1>3, TypedList
    <3> QED  BY <1>4, <3>1, FirstAndTail DEF Lists
  <2>2. f \in FrameRecord /\ f.c = c /\ f.at = list /\ f.op = Top(t).op
    <3> HIDE DEF h
    <3>1. h \in Cleanup \cup {NoCleanup} /\ Top(t) \in FrameRecord  BY <1>3, <2>1
    <3> QED  BY <3>1, FrameCalls
  <2>3. stack' = [stack EXCEPT ![t] = <<f>> \o Tail(@)] /\ pool' = [pool EXCEPT ![c][list] = v]
    BY <1>4 DEF AfterFirst
  <2> HIDE DEF f, v, h
  <2>5. /\ pool' \in [Control -> PoolRecord] /\ OtherPools(c) /\ SameNode(c)
        /\ \A m \in CleanupLists \ {list} : pool'[c][m] = pool[c][m]
    <3> HIDE DEF list, c
    <3> QED  BY <1>1, <1>3, <2>1, <2>3, ListSet
  <2>6. stack' \in [PoolThread -> Stacks]  BY <1>1, <1>3, <2>2, <2>3, StackTyped
  <2>7. PoolTypes'  BY <1>2, <1>3, <2>5, <2>6 DEF PoolTypes
  <2>8. FrameStays(t, f)
    <3>1. list = "cleanups" => pool'[c].pre_cleanups = <<>> /\ pool'[c].children = <<>>
      BY <1>3, <2>5 DEF FrameOK, FrameFor, CleanupLists, SameNode
    <3>2. pool'[c].active /\ pool'[c].owner = t  BY <1>3, <2>5 DEF SameNode
    <3> QED  BY <1>1, <2>2, <3>1, <3>2 DEF FrameStays, FrameFor, CleanupLists
  <2>9. OthersSame(c)  BY <1>2, <2>5 DEF OthersSame, OtherPools
  <2> QED  BY <1>1, <1>2, <2>2, <2>3, <2>5, <2>7, <2>8, <2>9, TopKeepsShape
<1>5. CASE /\ pool[c][list] = <<>>
           /\ At(t, IF list = "pre_cleanups" THEN "children" ELSE "memory")
           /\ UNCHANGED pool
  <2> DEFINE at_next == IF list = "pre_cleanups" THEN "children" ELSE "memory"
             f == [Top(t) EXCEPT !.at = at_next]
  <2>1. f \in FrameRecord /\ f.c = c /\ f.at = at_next /\ f.callback = NoCleanup
    <3>1. at_next \in {"pre_cleanups", "children", "cleanups", "memory", "detach"}  OBVIOUS
    <3> HIDE DEF at_next
    <3>2. Top(t) \in FrameRecord /\ Top(t).callback = NoCleanup  BY <1>1, <1>3
    <3> QED  BY <3>1, <3>2, FrameAt
  <2>2. stack' = [stack EXCEPT ![t] = <<f>> \o Tail(@)]  BY <1>5 DEF At
  <2> HIDE DEF f
  <2>3. FrameOK(t, f)
    <3>1. CASE list = "pre_cleanups"
      BY <1>3, <1>5, <2>1, <3>1 DEF FrameOK, FrameFor
    <3>2. CASE list = "cleanups"
      BY <1>3, <1>5, <2>1, <3>2 DEF FrameOK, FrameFor
    <3> QED  BY <1>1, <3>1, <3>2 DEF CleanupLists
  <2>4. runs' \in Seq(Nat)  BY <1>2, <1>3 DEF PoolTypes
  <2> QED  BY <1>1, <1>2, <1>5, <2>1, <2>2, <2>3, <2>4, AtKeepsShape
<1> QED  BY <1>4, <1>5 DEF RunCleanup

(* A counter of a sequence is one more. *)
LEMMA OneMore ==
  ASSUME NEW s \in Seq(Nat), NEW n
  PROVE  LET r == [s EXCEPT ![n] = @ + 1] IN
         /\ r \in Seq(Nat) /\ Len(r) = Len(s) /\ Len(s) \in Nat
         /\ \A k \in 1..Len(s) : r[k] = IF k = n THEN s[k] + 1 ELSE s[k]
<1> DEFINE r == [s EXCEPT ![n] = @ + 1]
<1>1. Len(s) \in Nat /\ DOMAIN s = 1..Len(s) /\ \A k \in 1..Len(s) : s[k] \in Nat  OBVIOUS
<1>2. r = [k \in 1..Len(s) |-> IF k = n THEN s[k] + 1 ELSE s[k]]  BY <1>1
<1> HIDE DEF r
<1>3. \A k \in 1..Len(s) : (IF k = n THEN s[k] + 1 ELSE s[k]) \in Nat  BY <1>1
<1>4. r \in Seq(Nat) /\ Len(r) = Len(s)
  <2>1. r \in [1..Len(s) -> Nat]  BY <1>2, <1>3
  <2> QED  BY <1>1, <2>1
<1>5. \A k \in 1..Len(s) : r[k] = IF k = n THEN s[k] + 1 ELSE s[k]  BY <1>2
<1> QED  BY <1>1, <1>4, <1>5 DEF r

LEMMA CallbackReturnsShape ==
  ASSUME PoolShape, NEW t \in PoolThread, CallbackReturns(t)
  PROVE  PoolShape'
<1> DEFINE f == [Top(t) EXCEPT !.callback = NoCleanup]
           n == Top(t).callback.n
<1>1. stack[t] # <<>> /\ Top(t).callback # NoCleanup  BY DEF CallbackReturns, InCallback
<1>2. UNCHANGED <<pool, free_blocks, arena_used, capacity, used, live, ending>>
  BY DEF CallbackReturns, memoryVars
<1>3. /\ PoolTypes /\ Top(t) \in FrameRecord /\ Top(t).c \in Control /\ FrameOK(t, Top(t))
  BY <1>1, WorkingFrame
<1>4. f \in FrameRecord /\ f.c = Top(t).c /\ f.at = Top(t).at /\ f.callback = NoCleanup
  BY <1>3, FrameCalls
<1>5. stack' = [stack EXCEPT ![t] = <<f>> \o Tail(@)] /\ runs' = [runs EXCEPT ![n] = @ + 1]
  BY DEF CallbackReturns
<1> HIDE DEF f, n
<1>6. FrameOK(t, f)  BY <1>3, <1>4 DEF FrameOK, FrameFor
<1>7. runs' \in Seq(Nat)
  <2>1. runs \in Seq(Nat)  BY <1>3 DEF PoolTypes
  <2> QED  BY <1>5, <2>1, OneMore
<1> QED  BY <1>1, <1>2, <1>4, <1>5, <1>6, <1>7, AtKeepsShape

(* What the release of the memory of a pool does. *)
LEMMA ReleaseMoves ==
  ASSUME PoolShape, NEW t \in PoolThread, ReleaseMemory(t)
  PROVE  LET c == Top(t).c IN
         /\ pool' \in [Control -> PoolRecord] /\ OtherPools(c) /\ SameNode(c) /\ OthersSame(c)
         /\ pool'[c].blocks = <<>> /\ pool'[c].unmanaged = pool[c].unmanaged
         /\ pool'[c].cleanups = pool[c].cleanups /\ pool'[c].pre_cleanups = pool[c].pre_cleanups
         /\ live'[c] = {} /\ live' \in [Control -> SUBSET (Nat \X Nat \X Nat)]
<1> DEFINE c == Top(t).c
<1>1. stack[t] # <<>>  BY DEF ReleaseMemory, Works
<1>2. PoolTypes /\ c \in Control  BY <1>1, WorkingFrame
<1>3. /\ pool' = [pool EXCEPT ![c].blocks = <<>>, ![c].userdata = {}]
      /\ live' = [live EXCEPT ![c] = {}]
  BY DEF ReleaseMemory
<1> HIDE DEF c
<1>4. pool \in [Control -> PoolRecord] /\ pool[c] \in PoolRecord  BY <1>2 DEF PoolTypes
<1>5. pool'[c] = [pool[c] EXCEPT !.blocks = <<>>, !.userdata = {}] /\ OtherPools(c)
  BY <1>2, <1>3, <1>4 DEF OtherPools
<1>6. pool'[c] \in PoolRecord
  <2>1. <<>> \in BlockLists  BY DEF BlockLists
  <2> QED  BY <1>4, <1>5, <2>1 DEF PoolRecord
<1>7. pool' \in [Control -> PoolRecord]  BY <1>3, <1>4, <1>5, <1>6 DEF OtherPools
<1>8. /\ live' \in [Control -> SUBSET (Nat \X Nat \X Nat)] /\ live'[c] = {}
      /\ \A d \in Control \ {c} : live'[d] = live[d]
  BY <1>2, <1>3 DEF PoolTypes
<1>9. OthersSame(c)  BY <1>5, <1>8 DEF OthersSame, OtherPools
<1>10. SameNode(c) /\ pool'[c].blocks = <<>> /\ pool'[c].unmanaged = pool[c].unmanaged
       /\ pool'[c].cleanups = pool[c].cleanups /\ pool'[c].pre_cleanups = pool[c].pre_cleanups
  BY <1>4, <1>5 DEF PoolRecord, SameNode
<1> QED  BY <1>5, <1>7, <1>8, <1>9, <1>10 DEF c

(* The list of the blocks given back, before those that were free. *)
LEMMA GivenBackBlocks ==
  ASSUME PoolTypes, NEW c \in Control
  PROVE  /\ Reverse(pool[c].blocks) \o free_blocks \in BlockLists
         /\ [b \in DOMAIN used |-> IF Contains(pool[c].blocks, b) THEN 0 ELSE used[b]] \in Seq(Nat)
<1>1. /\ pool[c].blocks \in Seq(Nat) /\ free_blocks \in Seq(Nat) /\ used \in Seq(Nat)
      /\ Len(used) \in Nat /\ DOMAIN used = 1..Len(used)
  BY TypedPool DEF PoolTypes, BlockLists
<1>2. Reverse(pool[c].blocks) \in Seq(Nat)
  <2> DEFINE s == pool[c].blocks
  <2>1. s \in Seq(Nat) /\ Len(s) \in Nat  BY <1>1
  <2> HIDE DEF s
  <2>2. \A i \in 1..Len(s) : (Len(s) - i) + 1 \in 1..Len(s)  BY <2>1
  <2>3. \A i \in 1..Len(s) : s[(Len(s) - i) + 1] \in Nat  BY <2>1, <2>2
  <2>4. [i \in 1..Len(s) |-> s[(Len(s) - i) + 1]] \in Seq(Nat)  BY <2>1, <2>3
  <2> QED  BY <2>4 DEF Reverse, s
<1>3. Reverse(pool[c].blocks) \o free_blocks \in Seq(Nat)  BY <1>1, <1>2
<1>4. [b \in DOMAIN used |-> IF Contains(pool[c].blocks, b) THEN 0 ELSE used[b]] \in Seq(Nat)
  <2>1. \A b \in 1..Len(used) : (IF Contains(pool[c].blocks, b) THEN 0 ELSE used[b]) \in Nat
    BY <1>1
  <2> QED  BY <1>1, <2>1
<1> QED  BY <1>3, <1>4 DEF BlockLists

LEMMA ReleaseMemoryShape ==
  ASSUME PoolShape, NEW t \in PoolThread, ReleaseMemory(t)
  PROVE  PoolShape'
<1> DEFINE c == Top(t).c
<1>1. stack[t] # <<>> /\ Top(t).callback = NoCleanup /\ Top(t).at = "memory"
  BY DEF ReleaseMemory, Works, InCallback
<1>2. UNCHANGED <<arena_used, capacity, runs, ending>>
  BY DEF ReleaseMemory, cleanupVars
<1>3. /\ PoolTypes /\ EndingOK /\ Top(t) \in FrameRecord /\ c \in Control /\ FrameOK(t, Top(t))
      /\ pool[c].active /\ pool[c].owner = t
  BY <1>1, WorkingFrame DEF PoolShape
<1>4. /\ free_blocks' = Reverse(pool[c].blocks) \o free_blocks
      /\ used' = [b \in DOMAIN used |-> IF Contains(pool[c].blocks, b) THEN 0 ELSE used[b]]
  BY DEF ReleaseMemory
<1>5. free_blocks' \in BlockLists /\ used' \in Seq(Nat)  BY <1>3, <1>4, GivenBackBlocks
<1>6. /\ pool' \in [Control -> PoolRecord] /\ SameNode(c) /\ OthersSame(c)
      /\ pool'[c].blocks = <<>> /\ live'[c] = {}
      /\ pool'[c].cleanups = pool[c].cleanups /\ pool'[c].pre_cleanups = pool[c].pre_cleanups
      /\ live' \in [Control -> SUBSET (Nat \X Nat \X Nat)]
  BY ReleaseMoves
<1>7. CASE Over(t)
  <2>1. stack' = [stack EXCEPT ![t] = Tail(@)]  BY <1>7 DEF Over
  <2>2. stack' \in [PoolThread -> Stacks]
    <3>1. Top(t) \in FrameRecord  BY <1>3
    <3> QED  BY <1>1, <1>3, <2>1, <3>1, StackTyped
  <2>3. PoolTypes'  BY <1>2, <1>3, <1>5, <1>6, <2>2 DEF PoolTypes
  <2>4. PICK rank \in Ranks : Tree(rank) /\ StackOK(rank)  BY DEF PoolShape
  <2>5. Tree(rank)'  BY <1>3, <1>6, <2>4, TreeKept
  <2>6. \A u \in PoolThread : \A k \in DOMAIN stack[u] :
          u # t \/ k # 1 => FrameStays(u, stack[u][k])
    BY <1>1, <1>3, <1>6, <2>4, OtherFramesKept
  <2>7. StackOK(rank)'  BY <1>1, <1>3, <2>1, <2>4, <2>6, PopKeepsStack
  <2>8. EndingOK'
    <3>1. \A u \in PoolThread \ {t} : ending[u] = 0  BY <1>1, <1>3, NobodyElseEnds
    <3>2. \A u \in PoolThread \ {t} : stack'[u] = stack[u]  BY <1>3, <2>1 DEF PoolTypes
    <3>3. \A d \in Control : pool'[d].active = pool[d].active /\ pool'[d].owner = pool[d].owner
      BY <1>6 DEF SameNode, OthersSame
    <3> QED  BY <1>2, <1>3, <3>1, <3>2, <3>3, EndingKept
  <2> QED  BY <2>3, <2>4, <2>5, <2>7, <2>8 DEF PoolShape
<1>8. CASE At(t, "detach")
  <2> DEFINE f == [Top(t) EXCEPT !.at = "detach"]
  <2>1. f \in FrameRecord /\ f.c = c /\ f.at = "detach" /\ f.callback = NoCleanup
    BY <1>1, <1>3, FrameAt
  <2>2. stack' = [stack EXCEPT ![t] = <<f>> \o Tail(@)]  BY <1>8 DEF At
  <2> HIDE DEF f
  <2>3. stack' \in [PoolThread -> Stacks]  BY <1>1, <1>3, <2>1, <2>2, StackTyped
  <2>4. PoolTypes'  BY <1>2, <1>3, <1>5, <1>6, <2>3 DEF PoolTypes
  <2>5. FrameStays(t, f)
    BY <1>1, <1>3, <1>6, <2>1 DEF FrameStays, FrameFor, FrameOK, SameNode
  <2> QED  BY <1>1, <1>2, <1>6, <2>1, <2>2, <2>4, <2>5, TopKeepsShape
<1> QED  BY <1>7, <1>8 DEF ReleaseMemory

(* What is left of a pool, and of the list of its parent, when it is detached. *)
LEMMA DetachMoves ==
  ASSUME PoolShape, NEW rank \in Ranks, Tree(rank), NEW t \in PoolThread, Detach(t)
  PROVE  LET c == Top(t).c
             p == pool[c].parent IN
         /\ pool' \in [Control -> PoolRecord] /\ pool'[c] = EmptyPool
         /\ \A d \in Control \ {c, p} : pool'[d] = pool[d]
         /\ p # NoPool => p \in Control /\ p # c
         /\ p # NoPool =>
              /\ pool'[p].active = pool[p].active /\ pool'[p].owner = pool[p].owner
              /\ pool'[p].parent = pool[p].parent /\ pool'[p].blocks = pool[p].blocks
              /\ pool'[p].cleanups = pool[p].cleanups /\ pool'[p].pre_cleanups = pool[p].pre_cleanups
              /\ pool'[p].unmanaged = pool[p].unmanaged
              /\ \E i \in DOMAIN pool[p].children :
                   pool[p].children[i] = c /\ pool'[p].children = RemoveAt(pool[p].children, i)
<1> DEFINE c == Top(t).c
           p == pool[c].parent
<1>1. stack[t] # <<>>  BY DEF Detach, Works
<1>2. PoolTypes /\ c \in Control /\ pool[c].active  BY <1>1, WorkingFrame
<1>3. pool' = [Detached(c) EXCEPT ![c] = EmptyPool]  BY DEF Detach
<1> HIDE DEF c
<1>4. pool \in [Control -> PoolRecord] /\ pool[c] \in PoolRecord  BY <1>2 DEF PoolTypes
<1>5. EmptyPool \in PoolRecord
  <2>1. <<>> \in Children /\ <<>> \in Lists /\ <<>> \in BlockLists  BY DEF Children, Lists, BlockLists
  <2> QED  BY <2>1 DEF EmptyPool, PoolRecord
<1>6. CASE p = NoPool
  <2>1. pool' = [pool EXCEPT ![c] = EmptyPool]  BY <1>3, <1>6 DEF Detached
  <2> QED  BY <1>2, <1>4, <1>5, <1>6, <2>1 DEF c
<1>7. CASE p # NoPool
  <2> DEFINE s == pool[p].children
             S == {k \in DOMAIN s : s[k] = c}
             i == Min(S)
  <2>1. p \in Control /\ p # c
    <3>1. p \in Control  BY <1>2, <1>7, TypedPool
    <3>2. rank[p] < rank[c] /\ rank[c] \in Nat  BY <1>2, <1>7 DEF Tree, Ranks
    <3> QED  BY <3>1, <3>2
  <2>2. s \in Seq(Control)  BY <1>2, <2>1, TypedPool DEF Children
  <2>3. S # {}  BY <1>2, <1>7 DEF Tree
  <2>4. i \in S
    <3> HIDE DEF s
    <3>1. S \subseteq Nat  BY <2>2
    <3> QED  BY <2>3, <3>1, MinIsLeast
  <2>5. pool' = [[pool EXCEPT ![p].children = RemoveAt(@, i)] EXCEPT ![c] = EmptyPool]
    BY <1>3, <1>7 DEF Detached
  <2> DEFINE v == RemoveAt(s, i)
  <2>6. v \in Children
    <3> HIDE DEF s, i
    <3>1. i \in DOMAIN s  BY <2>4
    <3> QED  BY <2>2, <3>1, Removed DEF Children
  <2>7. pool' = [[pool EXCEPT ![p].children = v] EXCEPT ![c] = EmptyPool]  BY <2>5
  <2>8. i \in DOMAIN s /\ s[i] = c  BY <2>4
  <2> HIDE DEF v, i
  <2>9. pool[p] \in PoolRecord  BY <1>4, <2>1
  <2>10. pool'[p] = [pool[p] EXCEPT !.children = v] /\ pool'[c] = EmptyPool
         /\ \A d \in Control \ {c, p} : pool'[d] = pool[d]
    <3> HIDE DEF p
    <3> QED  BY <1>2, <1>4, <2>1, <2>7
  <2>11. pool'[p] \in PoolRecord  BY <2>6, <2>9, <2>10 DEF PoolRecord
  <2>12. pool' \in [Control -> PoolRecord]
    <3>1. DOMAIN pool' = Control /\ pool' = [d \in Control |-> pool'[d]]  BY <1>4, <2>7
    <3>2. \A d \in Control : pool'[d] \in PoolRecord
      BY <1>4, <1>5, <2>10, <2>11
    <3> QED  BY <3>1, <3>2
  <2>13. /\ pool'[p].active = pool[p].active /\ pool'[p].owner = pool[p].owner
         /\ pool'[p].parent = pool[p].parent /\ pool'[p].blocks = pool[p].blocks
         /\ pool'[p].cleanups = pool[p].cleanups /\ pool'[p].pre_cleanups = pool[p].pre_cleanups
         /\ pool'[p].unmanaged = pool[p].unmanaged /\ pool'[p].children = v
    BY <2>9, <2>10 DEF PoolRecord
  <2>14. \E k \in DOMAIN s : s[k] = c /\ pool'[p].children = RemoveAt(s, k)
    BY <2>8, <2>13 DEF v
  <2> QED  BY <1>7, <2>1, <2>10, <2>12, <2>13, <2>14 DEF c
<1> QED  BY <1>6, <1>7

(* The tree without a leaf. *)
LEMMA DetachTree ==
  ASSUME PoolShape, NEW rank \in Ranks, Tree(rank), NEW t \in PoolThread, Detach(t)
  PROVE  Tree(rank)'
<1> DEFINE c == Top(t).c
           p == pool[c].parent
<1>1. stack[t] # <<>> /\ Top(t).at = "detach" /\ UNCHANGED live  BY DEF Detach, Works, memoryVars
<1>2. PoolTypes /\ c \in Control /\ pool[c].active /\ pool[c].children = <<>> /\ live[c] = {}
  BY <1>1, WorkingFrame DEF FrameOK, FrameFor
<1>3. /\ pool' \in [Control -> PoolRecord] /\ pool'[c] = EmptyPool
      /\ \A d \in Control \ {c, p} : pool'[d] = pool[d]
      /\ p # NoPool => p \in Control /\ p # c
      /\ p # NoPool =>
           /\ pool'[p].active = pool[p].active /\ pool'[p].owner = pool[p].owner
           /\ pool'[p].parent = pool[p].parent
           /\ \E i \in DOMAIN pool[p].children :
                pool[p].children[i] = c /\ pool'[p].children = RemoveAt(pool[p].children, i)
  BY DetachMoves
<1> HIDE DEF c
<1>4. \A d \in Control \ {c} :
        pool'[d].active = pool[d].active /\ pool'[d].owner = pool[d].owner /\ pool'[d].parent = pool[d].parent
  BY <1>3, NoPoolIsNone
<1>5. p # NoPool => p \in Control /\ pool[p].active
  BY <1>2, <1>3 DEF Tree
<1>6. ASSUME NEW d \in Control, ~pool'[d].active  PROVE pool'[d] = EmptyPool /\ live'[d] = {}
  <2>1. CASE d = c  BY <1>1, <1>2, <1>3, <2>1
  <2>2. CASE d # c /\ d # p  BY <1>1, <1>3, <1>6, <2>2 DEF Tree
  <2>3. CASE d # c /\ d = p  BY <1>4, <1>5, <1>6, <2>3, NoPoolIsNone
  <2> QED  BY <2>1, <2>2, <2>3
<1>7. ASSUME NEW d \in Control \ {c}
      PROVE  /\ \A k \in DOMAIN pool'[d].children : \E j \in DOMAIN pool[d].children :
                  pool[d].children[j] = pool'[d].children[k] /\ pool'[d].children[k] # c
             /\ \A j \in DOMAIN pool[d].children : pool[d].children[j] # c =>
                  \E k \in DOMAIN pool'[d].children : pool'[d].children[k] = pool[d].children[j]
             /\ \A j, k \in DOMAIN pool'[d].children :
                  pool'[d].children[j] = pool'[d].children[k] => j = k
  <2> DEFINE s == pool[d].children
  <2>1. s \in Seq(Control)  BY <1>2, TypedPool DEF Children
  <2>2. \A j, k \in DOMAIN s : s[j] = s[k] => j = k  BY DEF Tree
  <2>3. CASE d # p
    <3>1. pool'[d] = pool[d]  BY <1>3, <2>3
    <3>2. \A k \in DOMAIN s : pool[s[k]].parent = d  BY DEF Tree
    <3> QED  BY <2>2, <2>3, <3>1, <3>2
  <2>4. CASE d = p
    <3>1. PICK i \in DOMAIN s : s[i] = c /\ pool'[d].children = RemoveAt(s, i)
      BY <1>3, <2>4, NoPoolIsNone
    <3> DEFINE r == RemoveAt(s, i)
    <3> HIDE DEF s
    <3>2. /\ DOMAIN r = 1..(Len(s) - 1) /\ DOMAIN s = 1..Len(s)
          /\ \A k \in 1..(Len(s) - 1) :
               Before(k, i) \in 1..Len(s) /\ Before(k, i) # i /\ r[k] = s[Before(k, i)]
          /\ \A j, k \in 1..(Len(s) - 1) : Before(j, i) = Before(k, i) => j = k
          /\ \A j \in 1..Len(s) : j # i => \E k \in 1..(Len(s) - 1) : Before(k, i) = j
      BY <2>1, Removed
    <3> HIDE DEF r
    <3>3. \A k \in DOMAIN r : \E j \in DOMAIN s : s[j] = r[k] /\ r[k] # c
      BY <2>2, <3>1, <3>2
    <3>4. \A j \in DOMAIN s : s[j] # c => \E k \in DOMAIN r : r[k] = s[j]
      BY <3>1, <3>2
    <3>5. \A j, k \in DOMAIN r : r[j] = r[k] => j = k
      BY <2>2, <3>2
    <3>6. pool'[d].children = r  BY <3>1 DEF r
    <3> QED  BY <3>3, <3>4, <3>5, <3>6 DEF s
  <2> QED  BY <2>3, <2>4
<1>8. ASSUME NEW d \in Control, pool'[d].active, pool'[d].parent # NoPool
      PROVE  /\ pool'[pool'[d].parent].active /\ pool'[pool'[d].parent].owner = pool'[d].owner
             /\ rank[pool'[d].parent] < rank[d]
             /\ \E k \in DOMAIN pool'[pool'[d].parent].children :
                  pool'[pool'[d].parent].children[k] = d
  <2> DEFINE q == pool[d].parent
  <2>1. d # c  BY <1>3, <1>8 DEF EmptyPool
  <2>2. pool'[d].parent = q /\ pool[d].active /\ q # NoPool /\ q \in Control
    BY <1>2, <1>4, <1>8, <2>1, TypedPool
  <2>3. /\ pool[q].active /\ pool[q].owner = pool[d].owner /\ rank[q] < rank[d]
        /\ \E k \in DOMAIN pool[q].children : pool[q].children[k] = d
    BY <2>2 DEF Tree
  <2>4. q # c  BY <1>2, <2>3
  <2> HIDE DEF q
  <2>5. \E k \in DOMAIN pool'[q].children : pool'[q].children[k] = d
    <3>1. PICK j \in DOMAIN pool[q].children : pool[q].children[j] = d  BY <2>3
    <3> QED  BY <1>7, <2>1, <2>2, <2>4, <3>1
  <2> QED  BY <1>4, <2>1, <2>2, <2>3, <2>4, <2>5
<1>9. ASSUME NEW d \in Control, NEW k \in DOMAIN pool'[d].children
      PROVE  pool'[pool'[d].children[k]].parent = d
  <2>1. d # c  BY <1>3, <1>9 DEF EmptyPool
  <2>2. PICK j \in DOMAIN pool[d].children :
          pool[d].children[j] = pool'[d].children[k] /\ pool'[d].children[k] # c
    BY <1>7, <2>1
  <2>3. pool[pool[d].children[j]].parent = d  BY DEF Tree
  <2>4. pool[d].children[j] \in Control  BY <1>2, TypedPool DEF Children
  <2> QED  BY <1>4, <2>2, <2>3, <2>4
<1>10. \A d \in Control : \A j, k \in DOMAIN pool'[d].children :
         pool'[d].children[j] = pool'[d].children[k] => j = k
  BY <1>3, <1>7 DEF EmptyPool
<1> QED  BY <1>6, <1>8, <1>9, <1>10 DEF Tree

LEMMA DetachShape ==
  ASSUME PoolShape, NEW t \in PoolThread, Detach(t)
  PROVE  PoolShape'
<1> DEFINE c == Top(t).c
           p == pool[c].parent
<1>1. stack[t] # <<>> /\ stack' = [stack EXCEPT ![t] = Tail(@)]  BY DEF Detach, Works, Over
<1>2. UNCHANGED <<free_blocks, arena_used, capacity, used, live, runs, ending>>
  BY DEF Detach, memoryVars, cleanupVars
<1>3. PoolTypes /\ EndingOK /\ c \in Control /\ pool[c].active /\ Top(t) \in FrameRecord
  BY <1>1, WorkingFrame DEF PoolShape
<1>4. PICK rank \in Ranks : Tree(rank) /\ StackOK(rank)  BY DEF PoolShape
<1>5. Tree(rank)'  BY <1>4, DetachTree
<1>6. /\ pool' \in [Control -> PoolRecord] /\ pool'[c] = EmptyPool
      /\ \A d \in Control \ {c, p} : pool'[d] = pool[d]
      /\ p # NoPool => p \in Control
      /\ p # NoPool =>
           /\ pool'[p].active = pool[p].active /\ pool'[p].owner = pool[p].owner
           /\ pool'[p].blocks = pool[p].blocks /\ pool'[p].cleanups = pool[p].cleanups
           /\ pool'[p].pre_cleanups = pool[p].pre_cleanups
           /\ \E i \in DOMAIN pool[p].children : pool[p].children[i] = c
  BY <1>4, DetachMoves
<1>7. stack' \in [PoolThread -> Stacks]  BY <1>1, <1>3, StackTyped
<1>8. PoolTypes'  BY <1>2, <1>3, <1>6, <1>7 DEF PoolTypes
<1>9. ASSUME NEW u \in PoolThread, NEW k \in DOMAIN stack[u], u # t \/ k # 1
      PROVE  FrameStays(u, stack[u][k])
  <2> DEFINE f == stack[u][k]
  <2>1. f.c # c /\ f.c \in Control  BY <1>1, <1>3, <1>4, <1>9, TopIsAlone, TypedStack
  <2>2. FrameOK(u, f)  BY <1>4 DEF StackOK
  <2> HIDE DEF f, c
  <2>3. CASE f.c # p
    <3>1. pool'[f.c] = pool[f.c]  BY <1>6, <2>1, <2>3
    <3> QED  BY <1>2, <2>2, <3>1 DEF FrameOK, FrameStays, f
  <2>4. CASE f.c = p
    <3>1. p # NoPool  BY <2>1, <2>4, NoPoolIsNone
    <3>2. pool[p].children # <<>>  BY <1>6, <3>1
    <3>3. FrameStays(u, f)  BY <1>2, <1>6, <2>2, <2>4, <3>1, <3>2 DEF FrameOK, FrameFor, FrameStays
    <3> QED  BY <3>3 DEF f
  <2> QED  BY <2>3, <2>4
<1>10. StackOK(rank)'  BY <1>1, <1>3, <1>4, <1>9, PopKeepsStack
<1>11. EndingOK'
  <2>1. \A u \in PoolThread \ {t} : ending[u] = 0  BY <1>1, <1>3, NobodyElseEnds
  <2>2. \A u \in PoolThread \ {t} : stack'[u] = stack[u]  BY <1>1, <1>3 DEF PoolTypes
  <2>3. \A d \in Control : pool'[d].active => pool[d].active /\ pool'[d].owner = pool[d].owner
    <3> HIDE DEF c
    <3> QED  BY <1>6, NoPoolIsNone DEF EmptyPool
  <2> QED  BY <1>2, <1>3, <2>1, <2>2, <2>3, EndingKept
<1> QED  BY <1>4, <1>5, <1>8, <1>10, <1>11 DEF PoolShape

(* The thread that ends the library takes every pool. *)
LEMMA TerminateShape ==
  ASSUME PoolShape, NEW t \in PoolThread, Terminate(t)
  PROVE  PoolShape'
<1>1. PoolTypes /\ EndingOK /\ \A u \in PoolThread : stack[u] = <<>> /\ ending[u] = 0
  BY DEF PoolShape, Terminate, AtRest
<1>2. UNCHANGED <<free_blocks, arena_used, capacity, used, live, runs, stack>>
  BY DEF Terminate, memoryVars, cleanupVars
<1>3. pool' = [c \in Control |-> IF pool[c].active THEN [pool[c] EXCEPT !.owner = t] ELSE pool[c]]
      /\ ending' = [ending EXCEPT ![t] = 1]
  BY DEF Terminate
<1>4. ASSUME NEW c \in Control
      PROVE  /\ pool'[c] \in PoolRecord /\ pool'[c].active = pool[c].active
             /\ pool'[c].parent = pool[c].parent /\ pool'[c].children = pool[c].children
             /\ pool'[c].active => pool'[c].owner = t
             /\ ~pool'[c].active => pool'[c] = pool[c]
  <2>1. pool[c] \in PoolRecord  BY <1>1 DEF PoolTypes
  <2>2. CASE pool[c].active
    <3>1. pool'[c] = [pool[c] EXCEPT !.owner = t]  BY <1>3, <2>2
    <3> QED  BY <2>1, <2>2, <3>1 DEF PoolRecord
  <2>3. CASE ~pool[c].active  BY <1>3, <2>1, <2>3
  <2> QED  BY <2>2, <2>3
<1>5. pool' \in [Control -> PoolRecord]  BY <1>3, <1>4
<1>6. ending' \in [PoolThread -> Nat] /\ \A u \in PoolThread \ {t} : ending'[u] = 0
  BY <1>1, <1>3 DEF PoolTypes
<1>7. PoolTypes'  BY <1>1, <1>2, <1>5, <1>6 DEF PoolTypes
<1>8. EndingOK'
  <2>1. \A c \in Control : pool'[c].active => pool'[c].owner = t  BY <1>4
  <2>2. \A u \in PoolThread : ending'[u] # 0 => u = t  BY <1>6
  <2>3. \A u \in PoolThread \ {t} : AtRest(u)'  BY <1>1, <1>2, <1>6 DEF AtRest
  <2> QED  BY <2>1, <2>2, <2>3 DEF EndingOK
<1>9. PICK rank \in Ranks : Tree(rank) /\ StackOK(rank)  BY DEF PoolShape
<1>10. Tree(rank)'
  <2>1. \A c \in Control : ~pool'[c].active => pool'[c] = EmptyPool /\ live'[c] = {}
    BY <1>2, <1>4, <1>9 DEF Tree
  <2>2. ASSUME NEW c \in Control, pool'[c].active, pool'[c].parent # NoPool
        PROVE  /\ pool'[pool'[c].parent].active /\ pool'[pool'[c].parent].owner = pool'[c].owner
               /\ rank[pool'[c].parent] < rank[c]
               /\ \E k \in DOMAIN pool'[pool'[c].parent].children :
                    pool'[pool'[c].parent].children[k] = c
    <3> DEFINE q == pool[c].parent
    <3>1. pool'[c].parent = q /\ q \in Control /\ pool[c].active /\ q # NoPool
      BY <1>1, <1>4, <2>2, TypedPool
    <3>2. /\ pool[q].active /\ rank[q] < rank[c]
          /\ \E k \in DOMAIN pool[q].children : pool[q].children[k] = c
      BY <1>9, <3>1 DEF Tree
    <3> QED  BY <1>4, <2>2, <3>1, <3>2
  <2>3. ASSUME NEW c \in Control, NEW k \in DOMAIN pool'[c].children
        PROVE  pool'[pool'[c].children[k]].parent = c
    <3>1. pool'[c].children = pool[c].children  BY <1>4
    <3>2. pool[c].children[k] \in Control  BY <1>1, <2>3, <3>1, TypedPool DEF Children
    <3>3. pool[pool[c].children[k]].parent = c  BY <1>9, <2>3, <3>1 DEF Tree
    <3> QED  BY <1>4, <3>1, <3>2, <3>3
  <2>4. \A c \in Control : \A j, k \in DOMAIN pool'[c].children :
          pool'[c].children[j] = pool'[c].children[k] => j = k
    BY <1>4, <1>9 DEF Tree
  <2> QED  BY <2>1, <2>2, <2>3, <2>4 DEF Tree
<1>11. StackOK(rank)'  BY <1>1, <1>2 DEF StackOK
<1> QED  BY <1>7, <1>8, <1>9, <1>10, <1>11 DEF PoolShape

(* What a new pool c, of thread t, with the parent p, does to the table. *)
NewPool(c, t, p) ==
  /\ c # p /\ ~pool[c].active /\ \A d \in Control \ {c, p} : pool'[d] = pool[d]
  /\ pool'[c].active /\ pool'[c].parent = p /\ pool'[c].owner = t
  /\ pool'[c].children = <<>> /\ pool'[c].cleanups = <<>> /\ pool'[c].pre_cleanups = <<>>
  /\ pool'[c].blocks = <<>>
  /\ p # NoPool =>
       /\ pool'[p].active = pool[p].active /\ pool'[p].owner = pool[p].owner
       /\ pool'[p].parent = pool[p].parent /\ pool'[p].blocks = pool[p].blocks
       /\ pool'[p].cleanups = pool[p].cleanups
       /\ pool'[p].pre_cleanups = pool[p].pre_cleanups
       /\ pool'[p].children = <<c>> \o pool[p].children

LEMMA CreateMoves ==
  ASSUME PoolShape, NEW t \in PoolThread, NEW p \in Control \cup {NoPool}, Create(t, p)
  PROVE  /\ pool' \in [Control -> PoolRecord] /\ (p # NoPool => Usable(t, p))
         /\ \E c \in Control : NewPool(c, t, p)
<1>1. PoolTypes /\ pool \in [Control -> PoolRecord] /\ (p # NoPool => Usable(t, p))
  BY DEF PoolShape, PoolTypes, Create
<1>2. PICK c \in Control, u \in BOOLEAN :
        /\ ~pool[c].active
        /\ LET made == [pool EXCEPT ![c] = [EmptyPool EXCEPT !.active = TRUE, !.parent = p,
                                              !.owner = t, !.unmanaged = u]] IN
             pool' = IF p = NoPool THEN made ELSE [made EXCEPT ![p].children = <<c>> \o @]
  BY DEF Create
<1> DEFINE r == [EmptyPool EXCEPT !.active = TRUE, !.parent = p, !.owner = t, !.unmanaged = u]
<1>3. /\ r \in PoolRecord /\ r.active /\ r.parent = p /\ r.owner = t /\ r.children = <<>>
      /\ r.cleanups = <<>> /\ r.pre_cleanups = <<>> /\ r.blocks = <<>>
  <2>1. <<>> \in Children /\ <<>> \in Lists /\ <<>> \in BlockLists  BY DEF Children, Lists, BlockLists
  <2> QED  BY <2>1 DEF EmptyPool, PoolRecord
<1>4. pool' = IF p = NoPool THEN [pool EXCEPT ![c] = r]
              ELSE [[pool EXCEPT ![c] = r] EXCEPT ![p].children = <<c>> \o @]
  BY <1>2
<1> HIDE DEF r
<1>5. CASE p = NoPool
  <2>1. pool' = [pool EXCEPT ![c] = r]  BY <1>4, <1>5
  <2>2. pool'[c] = r /\ \A d \in Control \ {c} : pool'[d] = pool[d]  BY <1>1, <2>1
  <2>3. pool' \in [Control -> PoolRecord]  BY <1>1, <1>3, <2>1
  <2>4. c # p  BY <1>5, NoPoolIsNone
  <2> QED  BY <1>2, <1>3, <1>5, <2>2, <2>3, <2>4 DEF NewPool
<1>6. CASE p # NoPool
  <2> DEFINE s == pool[p].children
             v == <<c>> \o s
  <2>1. p \in Control /\ pool[p].active /\ c # p  BY <1>1, <1>2, <1>6 DEF Usable
  <2>2. s \in Seq(Control)  BY <1>1, <2>1, TypedPool DEF Children
  <2>3. v \in Children
    <3> HIDE DEF s
    <3> QED  BY <2>2, Prepended DEF Children
  <2>4. [pool EXCEPT ![c] = r][p] = pool[p]  BY <1>1, <2>1
  <2>5. pool' = [[pool EXCEPT ![c] = r] EXCEPT ![p].children = v]
    <3>1. pool' = [[pool EXCEPT ![c] = r] EXCEPT ![p].children = <<c>> \o @]  BY <1>4, <1>6
    <3> QED  BY <1>1, <2>1, <2>4, <3>1
  <2> HIDE DEF v
  <2>6. pool'[p] = [pool[p] EXCEPT !.children = v] /\ pool'[c] = r
        /\ \A d \in Control \ {c, p} : pool'[d] = pool[d]
    BY <1>1, <2>1, <2>5
  <2>7. pool[p] \in PoolRecord  BY <1>1, <2>1
  <2>8. pool'[p] \in PoolRecord  BY <2>3, <2>6, <2>7 DEF PoolRecord
  <2>9. pool' \in [Control -> PoolRecord]
    <3>1. DOMAIN pool' = Control /\ pool' = [d \in Control |-> pool'[d]]  BY <1>1, <2>5
    <3>2. \A d \in Control : pool'[d] \in PoolRecord  BY <1>1, <1>3, <2>6, <2>8
    <3> QED  BY <3>1, <3>2
  <2>10. /\ pool'[p].active = pool[p].active /\ pool'[p].owner = pool[p].owner
         /\ pool'[p].parent = pool[p].parent /\ pool'[p].blocks = pool[p].blocks
         /\ pool'[p].cleanups = pool[p].cleanups
         /\ pool'[p].pre_cleanups = pool[p].pre_cleanups /\ pool'[p].children = v
    BY <2>6, <2>7 DEF PoolRecord
  <2>11. /\ c # p /\ pool'[c].active /\ pool'[c].parent = p /\ pool'[c].owner = t
         /\ pool'[c].children = <<>> /\ pool'[c].cleanups = <<>> /\ pool'[c].pre_cleanups = <<>>
         /\ pool'[c].blocks = <<>>
    BY <1>3, <2>1, <2>6
  <2>12. pool'[p].children = <<c>> \o pool[p].children  BY <2>10 DEF v
  <2>13. ~pool[c].active /\ \A d \in Control \ {c, p} : pool'[d] = pool[d]  BY <1>2, <2>6
  <2> QED  BY <1>1, <2>9, <2>10, <2>11, <2>12, <2>13 DEF NewPool
<1> QED  BY <1>5, <1>6

LEMMA CreateShape ==
  ASSUME PoolShape, NEW t \in PoolThread, NEW p \in Control \cup {NoPool}, Create(t, p)
  PROVE  PoolShape'
<1>1. PoolTypes /\ EndingOK /\ Operation(t) /\ TreeMayChange(t)
  BY DEF PoolShape, Create
<1>2. UNCHANGED <<free_blocks, arena_used, capacity, used, live, runs, stack, ending>>
  BY DEF Create, memoryVars, cleanupVars, callVars
<1>3. PICK rank \in Ranks : Tree(rank) /\ StackOK(rank)  BY DEF PoolShape
<1>4. pool' \in [Control -> PoolRecord] /\ (p # NoPool => Usable(t, p))  BY CreateMoves
<1>5. PICK c \in Control : NewPool(c, t, p)  BY CreateMoves
<1> USE DEF NewPool
<1>6. p # NoPool => p \in Control /\ pool[p].active /\ pool[p].owner = t  BY <1>4 DEF Usable
<1>7. \A d \in Control \ {c} :
        pool'[d].active = pool[d].active /\ pool'[d].owner = pool[d].owner /\ pool'[d].parent = pool[d].parent
  <2> SUFFICES ASSUME NEW d \in Control \ {c}
               PROVE  /\ pool'[d].active = pool[d].active /\ pool'[d].owner = pool[d].owner
                      /\ pool'[d].parent = pool[d].parent
    OBVIOUS
  <2>1. CASE d = p  BY <1>5, <2>1, NoPoolIsNone
  <2>2. CASE d # p  BY <1>5, <2>2
  <2> QED  BY <2>1, <2>2
<1>8. pool[c] = EmptyPool  BY <1>3, <1>5 DEF Tree
<1> DEFINE r == [rank EXCEPT ![c] = IF p = NoPool THEN 0 ELSE rank[p] + 1]
<1>9. r \in Ranks /\ (\A d \in Control \ {c} : r[d] = rank[d]) /\ (p # NoPool => rank[p] < r[c])
  <2>1. \A d \in Control : rank[d] \in Nat  BY <1>3 DEF Ranks
  <2>2. (IF p = NoPool THEN 0 ELSE rank[p] + 1) \in Nat  BY <1>6, <2>1
  <2>3. r \in Ranks /\ \A d \in Control \ {c} : r[d] = rank[d]  BY <1>3, <2>2 DEF Ranks
  <2>4. p # NoPool => rank[p] < r[c]
    <3> SUFFICES ASSUME p # NoPool  PROVE rank[p] < r[c]
      OBVIOUS
    <3>1. r[c] = rank[p] + 1  BY <1>3 DEF Ranks
    <3> QED  BY <1>6, <2>1, <3>1
  <2> QED  BY <2>3, <2>4
<1> HIDE DEF r
<1>10. ASSUME NEW d \in Control \ {c}
       PROVE  /\ \A k \in DOMAIN pool'[d].children :
                   \/ pool'[d].children[k] = c /\ d = p
                   \/ \E j \in DOMAIN pool[d].children : pool[d].children[j] = pool'[d].children[k]
              /\ \A j \in DOMAIN pool[d].children :
                   \E k \in DOMAIN pool'[d].children : pool'[d].children[k] = pool[d].children[j]
              /\ d = p => \E k \in DOMAIN pool'[d].children : pool'[d].children[k] = c
              /\ \A j, k \in DOMAIN pool'[d].children :
                   pool'[d].children[j] = pool'[d].children[k] => j = k
  <2> DEFINE s == pool[d].children
  <2>1. s \in Seq(Control) /\ DOMAIN s = 1..Len(s) /\ Len(s) \in Nat  BY <1>1, TypedPool DEF Children
  <2>2. \A j, k \in DOMAIN s : s[j] = s[k] => j = k  BY <1>3 DEF Tree
  <2>3. CASE d # p
    <3>1. pool'[d] = pool[d]  BY <1>5, <2>3
    <3> QED  BY <2>2, <2>3, <3>1
  <2>4. CASE d = p
    <3> DEFINE v == <<c>> \o s
    <3>1. pool'[d].children = v  BY <1>5, <2>4, NoPoolIsNone
    <3>2. \A k \in DOMAIN s : s[k] # c
      <4>1. \A k \in DOMAIN s : pool[s[k]].parent = d  BY <1>3 DEF Tree
      <4>2. pool[c].parent # d  BY <1>8, NoPoolIsNone DEF EmptyPool
      <4> QED  BY <4>1, <4>2
    <3> HIDE DEF s
    <3>3. /\ v[1] = c /\ DOMAIN v = 1..(Len(s) + 1) /\ \A k \in 1..Len(s) : v[k + 1] = s[k]
      BY <2>1, Prepended
    <3> HIDE DEF v
    <3>4. \A k \in DOMAIN v : k = 1 \/ (k - 1 \in DOMAIN s /\ v[k] = s[k - 1])
      <4> SUFFICES ASSUME NEW k \in DOMAIN v, k # 1  PROVE k - 1 \in DOMAIN s /\ v[k] = s[k - 1]
        OBVIOUS
      <4>1. k - 1 \in 1..Len(s) /\ (k - 1) + 1 = k  BY <2>1, <3>3
      <4> QED  BY <2>1, <3>3, <4>1
    <3>5. \A k \in DOMAIN v : v[k] = c \/ \E j \in DOMAIN s : s[j] = v[k]
      BY <3>3, <3>4
    <3>6. \A j \in DOMAIN s : \E k \in DOMAIN v : v[k] = s[j]
      <4> SUFFICES ASSUME NEW j \in DOMAIN s  PROVE \E k \in DOMAIN v : v[k] = s[j]
        OBVIOUS
      <4>1. j + 1 \in DOMAIN v /\ v[j + 1] = s[j]  BY <2>1, <3>3
      <4> QED  BY <4>1
    <3>7. \E k \in DOMAIN v : v[k] = c  BY <2>1, <3>3
    <3>8. ASSUME NEW j \in DOMAIN v, NEW k \in DOMAIN v, v[j] = v[k]  PROVE j = k
      <4>1. CASE j = 1 \/ k = 1  BY <3>2, <3>3, <3>4, <3>8, <4>1
      <4>2. CASE j # 1 /\ k # 1
        <5>1. j - 1 = k - 1  BY <2>2, <3>4, <3>8, <4>2
        <5> QED  BY <2>1, <3>3, <5>1
      <4> QED  BY <4>1, <4>2
    <3> QED  BY <2>4, <3>1, <3>5, <3>6, <3>7, <3>8 DEF s
  <2> QED  BY <2>3, <2>4
<1>11. Tree(r)'
  <2>1. ASSUME NEW d \in Control, ~pool'[d].active  PROVE pool'[d] = EmptyPool /\ live'[d] = {}
    <3>1. d # c /\ d # p  BY <1>5, <1>6, <1>7, <2>1, NoPoolIsNone
    <3> QED  BY <1>2, <1>3, <1>5, <2>1, <3>1 DEF Tree
  <2>2. ASSUME NEW d \in Control, pool'[d].active, pool'[d].parent # NoPool
        PROVE  /\ pool'[pool'[d].parent].active /\ pool'[pool'[d].parent].owner = pool'[d].owner
               /\ r[pool'[d].parent] < r[d]
               /\ \E k \in DOMAIN pool'[pool'[d].parent].children :
                    pool'[pool'[d].parent].children[k] = d
    <3>1. CASE d = c
      <4>1. pool'[d].parent = p /\ p \in Control \ {c} /\ p # NoPool  BY <1>5, <1>6, <2>2, <3>1
      <4>2. r[p] = rank[p]  BY <1>9, <4>1
      <4> QED  BY <1>5, <1>6, <1>7, <1>9, <1>10, <3>1, <4>1, <4>2
    <3>2. CASE d # c
      <4> DEFINE q == pool[d].parent
      <4>1. pool'[d].parent = q /\ pool[d].active /\ q # NoPool /\ q \in Control
        BY <1>1, <1>7, <2>2, <3>2, TypedPool
      <4>2. /\ pool[q].active /\ pool[q].owner = pool[d].owner /\ rank[q] < rank[d]
            /\ \E k \in DOMAIN pool[q].children : pool[q].children[k] = d
        BY <1>3, <4>1 DEF Tree
      <4>3. q # c  BY <1>5, <4>2
      <4> HIDE DEF q
      <4>4. \E k \in DOMAIN pool'[q].children : pool'[q].children[k] = d
        <5>1. PICK j \in DOMAIN pool[q].children : pool[q].children[j] = d  BY <4>2
        <5> QED  BY <1>10, <4>1, <4>3, <5>1
      <4>5. r[q] = rank[q] /\ r[d] = rank[d]  BY <1>9, <3>2, <4>1, <4>3
      <4> QED  BY <1>7, <3>2, <4>1, <4>2, <4>3, <4>4, <4>5
    <3> QED  BY <3>1, <3>2
  <2>3. ASSUME NEW d \in Control, NEW k \in DOMAIN pool'[d].children
        PROVE  pool'[pool'[d].children[k]].parent = d
    <3>1. d # c  BY <1>5, <2>3
    <3>2. CASE pool'[d].children[k] = c /\ d = p  BY <1>5, <3>2
    <3>3. ASSUME NEW j \in DOMAIN pool[d].children, pool[d].children[j] = pool'[d].children[k]
          PROVE  pool'[pool'[d].children[k]].parent = d
      <4>1. pool[pool[d].children[j]].parent = d  BY <1>3 DEF Tree
      <4>2. pool[d].children[j] \in Control  BY <1>1, TypedPool DEF Children
      <4>3. pool[d].children[j] # c  BY <1>8, <4>1, NoPoolIsNone DEF EmptyPool
      <4> QED  BY <1>7, <3>3, <4>1, <4>2, <4>3
    <3> QED  BY <1>10, <2>3, <3>1, <3>2, <3>3
  <2>4. \A d \in Control : \A j, k \in DOMAIN pool'[d].children :
          pool'[d].children[j] = pool'[d].children[k] => j = k
    BY <1>5, <1>10
  <2> QED  BY <2>1, <2>2, <2>3, <2>4 DEF Tree
<1>12. StackOK(r)'
  <2>1. ASSUME NEW u \in PoolThread, NEW k \in DOMAIN stack[u]
        PROVE  FrameStays(u, stack[u][k]) /\ stack[u][k].c \in Control \ {c}
    <3> DEFINE f == stack[u][k]
    <3>1. FrameOK(u, f) /\ f.c \in Control  BY <1>1, <1>3, TypedStack DEF StackOK
    <3>2. f.c # c  BY <1>5, <3>1 DEF FrameOK, FrameFor
    <3>3. CASE f.c # p
      <4>1. pool'[f.c] = pool[f.c]  BY <1>5, <3>1, <3>2, <3>3
      <4> QED  BY <1>2, <3>1, <3>2, <4>1 DEF FrameOK, FrameStays
    <3>4. CASE f.c = p
      <4>1. p # NoPool /\ Usable(t, p) /\ p \in Control  BY <1>4, <3>1, <3>4, NoPoolIsNone
      <4>2. InCallback(t) /\ f = Top(t)  BY <1>1, <1>3, <3>4, <4>1, UsableFrames
      <4>3. f.at = "pre_cleanups"  BY <1>1, <4>2 DEF TreeMayChange, AtRest, InCallback
      <4>4. FrameStays(u, f)
        BY <1>2, <1>5, <1>6, <3>1, <3>4, <4>1, <4>3 DEF FrameOK, FrameFor, FrameStays
      <4> QED  BY <3>1, <3>2, <4>4
    <3> QED  BY <3>3, <3>4
  <2>2. \A u \in PoolThread : \A j, k \in DOMAIN stack[u] :
          j < k => r[stack[u][k].c] < r[stack[u][j].c]
    <3>1. \A u \in PoolThread : \A k \in DOMAIN stack[u] : r[stack[u][k].c] = rank[stack[u][k].c]
      BY <1>9, <2>1
    <3> QED  BY <1>3, <3>1 DEF StackOK
  <2> QED  BY <1>2, <2>1, <2>2 DEF StackOK, FrameOK, FrameStays
<1>13. EndingOK'
  <2>1. \A u \in PoolThread \ {t} : ending[u] = 0  BY <1>1 DEF Operation
  <2>2. \A d \in Control : pool'[d].active =>
          (pool[d].active /\ pool'[d].owner = pool[d].owner) \/ pool'[d].owner = t
    BY <1>5, <1>7
  <2> QED  BY <1>1, <1>2, <2>1, <2>2, EndingKept
<1>14. PoolTypes'  BY <1>1, <1>2, <1>4 DEF PoolTypes
<1> QED  BY <1>9, <1>11, <1>12, <1>13, <1>14 DEF PoolShape

-----------------------------------------------------------------------------
(* What an allocation does: memory in the first block, in a block that was  *)
(* free, or in a new one.                                                   *)

MoreLive(c, m) ==
  /\ live' \in [Control -> SUBSET (Nat \X Nat \X Nat)]
  /\ live'[c] = live[c] \cup {m} /\ \A d \in Control \ {c} : live'[d] = live[d]
OneBlockMore(c, b) ==
  /\ pool' \in [Control -> PoolRecord] /\ OtherPools(c) /\ SameNode(c)
  /\ pool'[c].blocks = <<b>> \o pool[c].blocks
  /\ pool'[c].cleanups = pool[c].cleanups /\ pool'[c].pre_cleanups = pool[c].pre_cleanups

LEMMA LiveGiven ==
  ASSUME PoolTypes, NEW c \in Control, NEW b \in Nat, NEW from \in Nat, NEW size \in Nat,
         Given(c, b, from, size)
  PROVE  MoreLive(c, <<b, from, size>>)
<1> DEFINE v == live[c] \cup {<<b, from, size>>}
<1>1. live[c] \in SUBSET (Nat \X Nat \X Nat)  BY DEF PoolTypes
<1>2. v \in SUBSET (Nat \X Nat \X Nat)  BY <1>1
<1>3. live' = [live EXCEPT ![c] = v]  BY DEF Given
<1> HIDE DEF v
<1>4. /\ live' \in [Control -> SUBSET (Nat \X Nat \X Nat)] /\ live'[c] = v
      /\ \A d \in Control \ {c} : live'[d] = live[d]
  BY <1>2, <1>3, LiveSet
<1> QED  BY <1>4 DEF v, MoreLive

LEMMA BlockAdded ==
  ASSUME PoolTypes, NEW c \in Control, NEW b \in Nat, pool' = [pool EXCEPT ![c].blocks = <<b>> \o @]
  PROVE  OneBlockMore(c, b)
<1> DEFINE s == pool[c].blocks
           v == <<b>> \o s
<1>1. s \in Seq(Nat)  BY TypedPool DEF BlockLists
<1>2. v \in BlockLists
  <2> HIDE DEF s
  <2> QED  BY <1>1, Prepended DEF BlockLists
<1>3. pool' = [pool EXCEPT ![c].blocks = v]  OBVIOUS
<1> HIDE DEF v
<1>4. /\ pool' \in [Control -> PoolRecord] /\ OtherPools(c) /\ SameNode(c) /\ pool'[c].blocks = v
      /\ pool'[c].cleanups = pool[c].cleanups /\ pool'[c].pre_cleanups = pool[c].pre_cleanups
  BY <1>2, <1>3, BlocksSet
<1> QED  BY <1>4 DEF v, OneBlockMore

(* The blocks of a pool, and those that are free, were carved. *)
LEMMA BlocksCarved ==
  ASSUME MemoryInv, PoolTypes, NEW c \in Control \cup {NoPool}
  PROVE  /\ Blocks(c) \in Seq(Nat) /\ \A k \in DOMAIN Blocks(c) : Blocks(c)[k] \in Carved
         /\ c # NoPool => Blocks(c) = pool[c].blocks
         /\ c = NoPool => Blocks(c) = free_blocks
<1>1. Blocks(c) \in Seq(Nat)  BY TypedPool DEF PoolTypes, BlockLists, Blocks
<1>2. \A k \in DOMAIN Blocks(c) : Blocks(c)[k] \in Nat  BY <1>1
<1>3. \A k \in DOMAIN Blocks(c) : Blocks(c)[k] \in Carved
  BY DEF MemoryInv, BlocksOf, Members, BlockOwners
<1> QED  BY <1>1, <1>3 DEF Blocks

LEMMA InBlockMoves ==
  ASSUME PoolTypes, MemoryInv, NEW c \in Control, NEW size \in Nat, AllocInBlock(c, size)
  PROVE  \E b \in Carved :
           /\ \E k \in DOMAIN pool[c].blocks : pool[c].blocks[k] = b
           /\ used[b] \in Nat /\ used[b] + size <= capacity[b]
           /\ used' \in Seq(Nat) /\ Len(used') = Len(used) /\ used'[b] = used[b] + size
           /\ \A d \in Carved \ {b} : used'[d] = used[d]
           /\ MoreLive(c, <<b, used[b], size>>)
           /\ UNCHANGED <<pool, free_blocks, arena_used, capacity>>
<1> DEFINE s == pool[c].blocks
           b == Head(s)
<1>1. /\ s # <<>> /\ size <= capacity[b] - used[b]
      /\ Given(c, b, used[b], size) /\ used' = [used EXCEPT ![b] = @ + size]
      /\ UNCHANGED <<pool, free_blocks, arena_used, capacity>>
  BY DEF AllocInBlock, HasRoom
<1>2. s \in Seq(Nat)  BY TypedPool DEF BlockLists
<1>3. b = s[1] /\ 1 \in DOMAIN s
  <2> HIDE DEF s
  <2>1. s # <<>>  BY <1>1
  <2> QED  BY <1>2, <2>1, FirstAndTail
<1>4. c \in Control \cup {NoPool} /\ c # NoPool  BY NoPoolIsNone
<1>5. b \in Carved
  <2>1. Blocks(c) = s /\ \A k \in DOMAIN Blocks(c) : Blocks(c)[k] \in Carved
    BY <1>4, BlocksCarved
  <2> QED  BY <1>3, <2>1
<1> HIDE DEF b
<1>6. /\ used \in Seq(Nat) /\ capacity \in Seq(Nat) /\ Len(used) \in Nat /\ Len(used) = Len(capacity)
      /\ DOMAIN used = Carved /\ \A d \in Carved : used[d] \in Nat /\ capacity[d] \in Nat
  BY DEF PoolTypes, MemoryInv, Carved
<1>7. used[b] \in Nat /\ capacity[b] \in Nat /\ b \in Nat  BY <1>5, <1>6 DEF Carved
<1>8. used[b] + size <= capacity[b] /\ used[b] + size \in Nat  BY <1>1, <1>7
<1>9. /\ used'[b] = used[b] + size /\ \A d \in Carved \ {b} : used'[d] = used[d]
      /\ used' \in Seq(Nat) /\ Len(used') = Len(used)
  BY <1>1, <1>5, <1>6, <1>8
<1>10. MoreLive(c, <<b, used[b], size>>)  BY <1>1, <1>7, LiveGiven
<1> QED  BY <1>1, <1>3, <1>5, <1>7, <1>8, <1>9, <1>10

LEMMA RecycledMoves ==
  ASSUME PoolTypes, MemoryInv, NEW c \in Control, NEW size \in Nat, AllocRecycled(c, size)
  PROVE  \E k \in DOMAIN free_blocks : \E b \in Carved :
           /\ free_blocks[k] = b /\ free_blocks' = RemoveAt(free_blocks, k)
           /\ size <= capacity[b]
           /\ used' \in Seq(Nat) /\ Len(used') = Len(used) /\ used'[b] = size
           /\ \A d \in Carved \ {b} : used'[d] = used[d]
           /\ MoreLive(c, <<b, 0, size>>) /\ OneBlockMore(c, b)
           /\ UNCHANGED <<arena_used, capacity>>
<1> DEFINE k == Min(Fitting(size))
           b == free_blocks[k]
<1>1. /\ Fitting(size) # {} /\ free_blocks' = RemoveAt(free_blocks, k)
      /\ pool' = [pool EXCEPT ![c].blocks = <<b>> \o @]
      /\ used' = [used EXCEPT ![b] = size] /\ Given(c, b, 0, size)
      /\ UNCHANGED <<arena_used, capacity>>
  BY DEF AllocRecycled
<1>2. k \in Fitting(size)
  <2>1. DOMAIN free_blocks \subseteq Nat  BY DEF PoolTypes, BlockLists
  <2>2. Fitting(size) \subseteq Nat  BY <2>1 DEF Fitting
  <2> QED  BY <1>1, <2>2, MinIsLeast
<1>3. k \in DOMAIN free_blocks /\ capacity[b] >= BlockFor(size)  BY <1>2 DEF Fitting
<1> HIDE DEF k
<1>4. b \in Carved
  <2>1. Blocks(NoPool) = free_blocks /\ \A j \in DOMAIN Blocks(NoPool) : Blocks(NoPool)[j] \in Carved
    BY BlocksCarved
  <2> QED  BY <1>3, <2>1
<1>5. /\ used \in Seq(Nat) /\ capacity \in Seq(Nat) /\ Len(used) \in Nat /\ Len(used) = Len(capacity)
      /\ DOMAIN used = Carved /\ \A d \in Carved : used[d] \in Nat /\ capacity[d] \in Nat
  BY DEF PoolTypes, MemoryInv, Carved
<1>6. b \in Nat /\ capacity[b] \in Nat  BY <1>4, <1>5 DEF Carved
<1>7. size <= capacity[b]
  <2>1. BlockFor(size) \in Nat /\ BlockFor(size) >= size  BY BlockForSize
  <2> QED  BY <1>3, <1>6, <2>1
<1> HIDE DEF b
<1>8. /\ used'[b] = size /\ \A e \in Carved \ {b} : used'[e] = used[e]
      /\ used' \in Seq(Nat) /\ Len(used') = Len(used)
  BY <1>1, <1>4, <1>5
<1>9. MoreLive(c, <<b, 0, size>>) /\ OneBlockMore(c, b)  BY <1>1, <1>6, LiveGiven, BlockAdded
<1>10. free_blocks[k] = b  BY DEF b
<1> QED  BY <1>1, <1>3, <1>4, <1>7, <1>8, <1>9, <1>10

LEMMA CarvedMoves ==
  ASSUME PoolTypes, MemoryInv, NEW c \in Control, NEW size \in Nat, AllocCarved(c, size)
  PROVE  \E most \in Nat :
           /\ size <= most
           /\ capacity' = Append(capacity, most) /\ used' = Append(used, size)
           /\ arena_used' \in 0..ArenaSize
           /\ MoreLive(c, <<Len(capacity) + 1, 0, size>>) /\ OneBlockMore(c, Len(capacity) + 1)
           /\ UNCHANGED free_blocks
<1> DEFINE most == BlockFor(size)
           b == Len(capacity) + 1
<1>1. /\ arena_used + BlockHeader + most <= ArenaSize /\ arena_used' = arena_used + BlockHeader + most
      /\ capacity' = Append(capacity, most) /\ used' = Append(used, size)
      /\ pool' = [pool EXCEPT ![c].blocks = <<b>> \o @] /\ Given(c, b, 0, size)
      /\ UNCHANGED free_blocks
  BY DEF AllocCarved
<1>2. most \in Nat /\ size <= most  BY BlockForSize
<1> HIDE DEF most
<1>3. b \in Nat  BY DEF PoolTypes
<1>4. arena_used' \in 0..ArenaSize
  <2>1. arena_used \in Nat /\ ArenaSize \in Nat /\ BlockHeader \in Nat
    BY PoolsAssumption DEF PoolTypes
  <2> QED  BY <1>1, <1>2, <2>1
<1> HIDE DEF b
<1>5. MoreLive(c, <<b, 0, size>>) /\ OneBlockMore(c, b)  BY <1>1, <1>3, LiveGiven, BlockAdded
<1> QED  BY <1>1, <1>2, <1>4, <1>5 DEF b

LEMMA AllocTyped ==
  ASSUME PoolTypes, MemoryInv, NEW c \in Control, NEW size \in Nat,
         AllocInBlock(c, size) \/ AllocRecycled(c, size) \/ AllocCarved(c, size),
         UNCHANGED <<stack, ending, runs>>
  PROVE  /\ PoolTypes' /\ SameNode(c) /\ OthersSame(c)
         /\ pool'[c].cleanups = pool[c].cleanups /\ pool'[c].pre_cleanups = pool[c].pre_cleanups
<1>1. CASE AllocInBlock(c, size)
  <2>1. PICK b \in Carved :
          /\ used' \in Seq(Nat) /\ MoreLive(c, <<b, used[b], size>>)
          /\ UNCHANGED <<pool, free_blocks, arena_used, capacity>>
    BY <1>1, InBlockMoves
  <2>2. PoolTypes'  BY <2>1 DEF PoolTypes, MoreLive
  <2> QED  BY <2>1, <2>2 DEF MoreLive, SameNode, OthersSame
<1>2. CASE AllocRecycled(c, size)
  <2>1. PICK k \in DOMAIN free_blocks, b \in Carved :
          /\ free_blocks' = RemoveAt(free_blocks, k) /\ used' \in Seq(Nat)
          /\ MoreLive(c, <<b, 0, size>>) /\ OneBlockMore(c, b) /\ UNCHANGED <<arena_used, capacity>>
    BY <1>2, RecycledMoves
  <2>2. free_blocks' \in BlockLists
    <3>1. free_blocks \in Seq(Nat)  BY DEF PoolTypes, BlockLists
    <3> QED  BY <2>1, <3>1, Removed DEF BlockLists
  <2>3. PoolTypes'  BY <2>1, <2>2 DEF PoolTypes, MoreLive, OneBlockMore
  <2> QED  BY <2>1, <2>3 DEF MoreLive, OneBlockMore, OtherPools, OthersSame
<1>3. CASE AllocCarved(c, size)
  <2>1. PICK most \in Nat :
          /\ capacity' = Append(capacity, most) /\ used' = Append(used, size)
          /\ arena_used' \in 0..ArenaSize
          /\ MoreLive(c, <<Len(capacity) + 1, 0, size>>) /\ OneBlockMore(c, Len(capacity) + 1)
          /\ UNCHANGED free_blocks
    BY <1>3, CarvedMoves
  <2>2. capacity' \in Seq(Nat) /\ used' \in Seq(Nat)  BY <2>1 DEF PoolTypes
  <2>3. PoolTypes'  BY <2>1, <2>2 DEF PoolTypes, MoreLive, OneBlockMore
  <2> QED  BY <2>1, <2>3 DEF MoreLive, OneBlockMore, OtherPools, OthersSame
<1> QED  BY <1>1, <1>2, <1>3

LEMMA AllocShape ==
  ASSUME PoolShape, MemoryInv, NEW t \in PoolThread, NEW c \in Control, Alloc(t, c)
  PROVE  PoolShape'
<1>1. PoolTypes /\ Usable(t, c) /\ UNCHANGED callVars /\ UNCHANGED runs
  BY DEF PoolShape, Alloc, cleanupVars
<1>2. PICK size \in AllocSizes : AllocInBlock(c, size) \/ AllocRecycled(c, size) \/ AllocCarved(c, size)
  BY DEF Alloc
<1>3. size \in Nat  BY PoolsAssumption
<1>4. UNCHANGED <<stack, ending, runs>>  BY <1>1 DEF callVars
<1>5. /\ PoolTypes' /\ SameNode(c) /\ OthersSame(c) /\ pool'[c].pre_cleanups = pool[c].pre_cleanups
  BY <1>1, <1>2, <1>3, <1>4, AllocTyped
<1> QED  BY <1>1, <1>5, UsedKeepsShape

-----------------------------------------------------------------------------
(* What the registration of a cleanup, its withdrawal and userdata do.      *)


(* The pools with userdata more. *)
WithUserdata(c, d) == [pool EXCEPT ![c].userdata = @ \cup {d}]

LEMMA UserdataMoves ==
  ASSUME PoolTypes, NEW c \in Control, NEW d \in Data
  PROVE  LET p == WithUserdata(c, d) IN
         /\ p \in [Control -> PoolRecord] /\ \A e \in Control \ {c} : p[e] = pool[e]
         /\ p[c].active = pool[c].active /\ p[c].parent = pool[c].parent
         /\ p[c].owner = pool[c].owner /\ p[c].children = pool[c].children
         /\ p[c].cleanups = pool[c].cleanups /\ p[c].pre_cleanups = pool[c].pre_cleanups
         /\ p[c].blocks = pool[c].blocks
<1> DEFINE p == WithUserdata(c, d)
<1> USE DEF WithUserdata
<1>1. pool \in [Control -> PoolRecord] /\ pool[c] \in PoolRecord  BY DEF PoolTypes
<1>2. p[c] = [pool[c] EXCEPT !.userdata = @ \cup {d}] /\ \A e \in Control \ {c} : p[e] = pool[e]
  BY <1>1
<1>3. p[c] \in PoolRecord  BY <1>1, <1>2 DEF PoolRecord
<1>4. p \in [Control -> PoolRecord]
  <2>1. DOMAIN p = Control /\ p = [e \in Control |-> p[e]]  BY <1>1
  <2>2. \A e \in Control : p[e] \in PoolRecord  BY <1>1, <1>2, <1>3
  <2> QED  BY <2>1, <2>2
<1> QED  BY <1>1, <1>2, <1>4 DEF PoolRecord

(* What a registration does, when it finds a free entry and when not. *)
RegisterMoves(c, list, d) ==
  /\ pool' \in [Control -> PoolRecord] /\ OtherPools(c) /\ SameNode(c)
  /\ pool'[c].blocks = pool[c].blocks
  /\ \A m \in CleanupLists \ {list} : pool'[c][m] = pool[c][m]
  /\ \/ pool'[c][list] = pool[c][list] /\ UNCHANGED <<entries, runs>>
     \/ /\ pool'[c][list] = <<[n |-> Len(runs) + 1, data |-> d]>> \o pool[c][list]
        /\ entries < CleanupCapacity /\ entries' = entries + 1 /\ runs' = Append(runs, 0)

LEMMA RegisteredMoves ==
  ASSUME PoolTypes, NEW c \in Control, NEW list \in CleanupLists, NEW d \in Data,
         NEW p \in [Control -> PoolRecord], \A e \in Control \ {c} : p[e] = pool[e],
         p[c].active = pool[c].active, p[c].parent = pool[c].parent,
         p[c].owner = pool[c].owner, p[c].children = pool[c].children,
         p[c].cleanups = pool[c].cleanups, p[c].pre_cleanups = pool[c].pre_cleanups,
         p[c].blocks = pool[c].blocks, Registered(p, c, list, d)
  PROVE  RegisterMoves(c, list, d)
<1>1. \A m \in CleanupLists : p[c][m] = pool[c][m]  BY DEF CleanupLists
<1>2. CASE entries < CleanupCapacity
  <2> DEFINE e == [n |-> Len(runs) + 1, data |-> d]
             s == pool[c][list]
             v == <<e>> \o s
  <2>1. /\ entries' = entries + 1 /\ runs' = Append(runs, 0)
        /\ pool' = [p EXCEPT ![c][list] = <<e>> \o @]
    BY <1>2 DEF Registered
  <2>2. e \in Cleanup
    <3>1. Len(runs) + 1 \in Nat \ {0}  BY DEF PoolTypes
    <3> QED  BY <3>1 DEF Cleanup
  <2>3. s \in Seq(Cleanup)  BY TypedList
  <2>4. v \in Lists
    <3> HIDE DEF e, s
    <3> QED  BY <2>2, <2>3, Prepended DEF Lists
  <2>5. pool' = [p EXCEPT ![c][list] = v]
    <3>1. p[c][list] = s  BY <1>1
    <3> HIDE DEF e, s
    <3> QED  BY <2>1, <3>1
  <2> HIDE DEF v
  <2>6. /\ pool' \in [Control -> PoolRecord] /\ \A g \in Control \ {c} : pool'[g] = p[g]
        /\ pool'[c].active = p[c].active /\ pool'[c].parent = p[c].parent
        /\ pool'[c].owner = p[c].owner /\ pool'[c].children = p[c].children
        /\ pool'[c][list] = v /\ \A m \in CleanupLists \ {list} : pool'[c][m] = p[c][m]
        /\ pool'[c].blocks = p[c].blocks
    <3>1. pool' = WithList(p, c, list, v)  BY <2>5 DEF WithList
    <3> QED  BY <2>4, <3>1, ListPut
  <2>7. OtherPools(c) /\ SameNode(c) /\ pool'[c].blocks = pool[c].blocks
        /\ \A m \in CleanupLists \ {list} : pool'[c][m] = pool[c][m]
    BY <1>1, <2>6 DEF OtherPools, SameNode
  <2> QED  BY <1>2, <2>1, <2>6, <2>7 DEF v, RegisterMoves
<1>3. CASE ~(entries < CleanupCapacity)
  <2>1. pool' = p /\ UNCHANGED <<entries, runs>>  BY <1>3 DEF Registered
  <2> QED  BY <1>1, <2>1 DEF RegisterMoves, OtherPools, SameNode
<1> QED  BY <1>2, <1>3

LEMMA CleanupRegisterMoves ==
  ASSUME PoolTypes, NEW t \in PoolThread, NEW c \in Control, CleanupRegister(t, c)
  PROVE  \E d \in Data : RegisterMoves(c, "cleanups", d)
<1>1. PICK d \in Data : Registered(pool, c, "cleanups", d)  BY DEF CleanupRegister
<1>2. "cleanups" \in CleanupLists /\ pool \in [Control -> PoolRecord]  BY DEF CleanupLists, PoolTypes
<1> QED  BY <1>1, <1>2, RegisteredMoves

LEMMA PreCleanupRegisterMoves ==
  ASSUME PoolTypes, NEW t \in PoolThread, NEW c \in Control, PreCleanupRegister(t, c)
  PROVE  \E d \in Data : RegisterMoves(c, "pre_cleanups", d)
<1>1. PICK d \in Data : Registered(pool, c, "pre_cleanups", d)  BY DEF PreCleanupRegister
<1>2. "pre_cleanups" \in CleanupLists /\ pool \in [Control -> PoolRecord]  BY DEF CleanupLists, PoolTypes
<1> QED  BY <1>1, <1>2, RegisteredMoves

LEMMA UserdataSetMoves ==
  ASSUME PoolTypes, NEW t \in PoolThread, NEW c \in Control, UserdataSet(t, c)
  PROVE  \E d \in Data : RegisterMoves(c, "cleanups", d)
<1>1. PICK d \in Data :
        LET with == [pool EXCEPT ![c].userdata = @ \cup {d}] IN
          \/ pool' = with /\ UNCHANGED <<entries, runs>>
          \/ Registered(with, c, "cleanups", d)
  BY DEF UserdataSet
<1> DEFINE p == WithUserdata(c, d)
<1>2. /\ p \in [Control -> PoolRecord] /\ \A e \in Control \ {c} : p[e] = pool[e]
      /\ p[c].active = pool[c].active /\ p[c].parent = pool[c].parent
      /\ p[c].owner = pool[c].owner /\ p[c].children = pool[c].children
      /\ p[c].cleanups = pool[c].cleanups /\ p[c].pre_cleanups = pool[c].pre_cleanups
      /\ p[c].blocks = pool[c].blocks
  BY UserdataMoves
<1>3. (pool' = p /\ UNCHANGED <<entries, runs>>) \/ Registered(p, c, "cleanups", d)
  BY <1>1 DEF WithUserdata
<1>4. "cleanups" \in CleanupLists  BY DEF CleanupLists
<1> HIDE DEF p
<1>5. CASE Registered(p, c, "cleanups", d)
  <2>1. RegisterMoves(c, "cleanups", d)  BY <1>2, <1>4, <1>5, RegisteredMoves
  <2> QED  BY <2>1
<1>6. CASE pool' = p /\ UNCHANGED <<entries, runs>>
  <2>1. \A m \in CleanupLists : p[c][m] = pool[c][m]  BY <1>2 DEF CleanupLists
  <2>2. RegisterMoves(c, "cleanups", d)
    BY <1>2, <1>4, <1>6, <2>1 DEF RegisterMoves, OtherPools, SameNode
  <2> QED  BY <2>2
<1> QED  BY <1>3, <1>5, <1>6

(* The shape after a registration. *)
LEMMA RegisterShape ==
  ASSUME PoolShape, NEW t \in PoolThread, NEW c \in Control, NEW list \in CleanupLists, NEW d \in Data,
         RegisterMoves(c, list, d), Usable(t, c), list = "cleanups" \/ TreeMayChange(t),
         UNCHANGED <<memoryVars, callVars>>
  PROVE  PoolShape'
<1>1. PoolTypes /\ UNCHANGED <<free_blocks, arena_used, capacity, used, live, stack, ending>>
  BY DEF PoolShape, memoryVars, callVars
<1>2. runs' \in Seq(Nat)
  <2>1. runs \in Seq(Nat)  BY <1>1 DEF PoolTypes
  <2>2. runs' = runs \/ runs' = Append(runs, 0)  BY DEF RegisterMoves
  <2> QED  BY <2>1, <2>2
<1>3. PoolTypes'  BY <1>1, <1>2 DEF PoolTypes, RegisterMoves
<1>4. SameNode(c) /\ OthersSame(c)  BY <1>1 DEF RegisterMoves, OthersSame, OtherPools
<1>5. list = "cleanups" => pool'[c].pre_cleanups = pool[c].pre_cleanups
  BY DEF RegisterMoves, CleanupLists
<1> QED  BY <1>3, <1>4, <1>5, UsedKeepsShape

LEMMA RegistersShape ==
  ASSUME PoolShape, NEW t \in PoolThread, NEW c \in Control,
         CleanupRegister(t, c) \/ PreCleanupRegister(t, c) \/ UserdataSet(t, c)
  PROVE  PoolShape'
<1>1. PoolTypes /\ Usable(t, c) /\ UNCHANGED <<memoryVars, callVars>>
  BY DEF PoolShape, CleanupRegister, PreCleanupRegister, UserdataSet
<1>2. "cleanups" \in CleanupLists /\ "pre_cleanups" \in CleanupLists  BY DEF CleanupLists
<1>3. CASE CleanupRegister(t, c)  BY <1>1, <1>2, <1>3, CleanupRegisterMoves, RegisterShape
<1>4. CASE PreCleanupRegister(t, c)
  <2>1. TreeMayChange(t)  BY <1>4 DEF PreCleanupRegister
  <2> QED  BY <1>1, <1>2, <1>4, <2>1, PreCleanupRegisterMoves, RegisterShape
<1>5. CASE UserdataSet(t, c)  BY <1>1, <1>2, <1>5, UserdataSetMoves, RegisterShape
<1> QED  BY <1>3, <1>4, <1>5

-----------------------------------------------------------------------------
(* The registrations in a list, and the blocks in one, as the lists change. *)

LEMMA NamesPrepended ==
  ASSUME NEW s \in Seq(Cleanup), NEW e \in Cleanup, NamesOnce(s), e.n \notin Names(s)
  PROVE  NamesOnce(<<e>> \o s) /\ Names(<<e>> \o s) = Names(s) \cup {e.n}
<1> DEFINE r == <<e>> \o s
<1>1. /\ r[1] = e /\ \A k \in 1..Len(s) : r[k + 1] = s[k]
      /\ DOMAIN r = 1..(Len(s) + 1) /\ DOMAIN s = 1..Len(s) /\ Len(s) \in Nat
  BY Prepended
<1> HIDE DEF r
<1>2. \A k \in DOMAIN r : k = 1 \/ (k - 1 \in DOMAIN s /\ r[k] = s[k - 1] /\ k \in Nat)
  <2> SUFFICES ASSUME NEW k \in DOMAIN r, k # 1
               PROVE  k - 1 \in DOMAIN s /\ r[k] = s[k - 1] /\ k \in Nat
    OBVIOUS
  <2>1. k - 1 \in 1..Len(s) /\ (k - 1) + 1 = k /\ k \in Nat  BY <1>1
  <2> QED  BY <1>1, <2>1
<1>3. NamesOnce(r)
  <2> SUFFICES ASSUME NEW j \in DOMAIN r, NEW k \in DOMAIN r, r[j].n = r[k].n  PROVE j = k
    BY DEF NamesOnce
  <2>1. CASE j = 1 \/ k = 1  BY <1>1, <1>2, <2>1 DEF Names
  <2>2. CASE j # 1 /\ k # 1
    <3>1. j - 1 = k - 1 /\ j \in Nat /\ k \in Nat  BY <1>2, <2>2 DEF NamesOnce
    <3> QED  BY <3>1
  <2> QED  BY <2>1, <2>2
<1>4. Names(r) \subseteq Names(s) \cup {e.n}  BY <1>1, <1>2 DEF Names
<1>5. Names(s) \cup {e.n} \subseteq Names(r)
  <2>1. 1 \in DOMAIN r /\ r[1].n = e.n  BY <1>1
  <2>2. \A k \in DOMAIN s : k + 1 \in DOMAIN r /\ r[k + 1].n = s[k].n  BY <1>1
  <2> QED  BY <2>1, <2>2 DEF Names
<1> QED  BY <1>3, <1>4, <1>5 DEF r

LEMMA NamesOfTail ==
  ASSUME NEW s \in Seq(Cleanup), s # <<>>, NamesOnce(s)
  PROVE  /\ NamesOnce(Tail(s)) /\ Names(Tail(s)) = Names(s) \ {Head(s).n}
         /\ Head(s) \in Cleanup /\ Head(s).n \in Names(s)
<1> DEFINE r == Tail(s)
<1>1. /\ Len(s) \in Nat \ {0} /\ Head(s) = s[1] /\ s[1] \in Cleanup
      /\ \A k \in 1..(Len(s) - 1) : r[k] = s[k + 1]
      /\ DOMAIN r = 1..(Len(s) - 1) /\ DOMAIN s = 1..Len(s)
  BY FirstAndTail
<1> HIDE DEF r
<1>2. \A k \in DOMAIN r : k + 1 \in DOMAIN s /\ r[k] = s[k + 1] /\ k + 1 # 1 /\ k \in Nat  BY <1>1
<1>3. \A k \in DOMAIN s : k # 1 => k - 1 \in DOMAIN r /\ r[k - 1] = s[k]
  <2> SUFFICES ASSUME NEW k \in DOMAIN s, k # 1  PROVE k - 1 \in DOMAIN r /\ r[k - 1] = s[k]
    OBVIOUS
  <2>1. k - 1 \in 1..(Len(s) - 1) /\ (k - 1) + 1 = k  BY <1>1
  <2> QED  BY <1>1, <2>1
<1>4. NamesOnce(r)
  <2> SUFFICES ASSUME NEW j \in DOMAIN r, NEW k \in DOMAIN r, r[j].n = r[k].n  PROVE j = k
    BY DEF NamesOnce
  <2>1. j + 1 = k + 1 /\ j \in Nat /\ k \in Nat  BY <1>2 DEF NamesOnce
  <2> QED  BY <2>1
<1>5. 1 \in DOMAIN s  BY <1>1
<1>6. Names(r) \subseteq Names(s) \ {s[1].n}  BY <1>2, <1>5 DEF Names, NamesOnce
<1>7. Names(s) \ {s[1].n} \subseteq Names(r)  BY <1>3 DEF Names
<1>8. s[1].n \in Names(s)  BY <1>5 DEF Names
<1> QED  BY <1>1, <1>4, <1>6, <1>7, <1>8 DEF r

(* The withdrawal of the first registration with the data, if there is one. *)
LEMMA NamesWithout ==
  ASSUME NEW s \in Seq(Cleanup), NEW d, NamesOnce(s)
  PROVE  /\ Without(s, d) \in Seq(Cleanup) /\ NamesOnce(Without(s, d))
         /\ Names(Without(s, d)) = Names(s) \ {s[k].n : k \in First(s, d)}
         /\ \/ {s[k].n : k \in First(s, d)} = {}
            \/ \E n \in Names(s) : {s[k].n : k \in First(s, d)} = {n}
         /\ s = <<>> => Without(s, d) = <<>>
<1>1. CASE Matches(s, d) = {}  BY <1>1 DEF Without, First
<1>2. CASE Matches(s, d) # {}
  <2> DEFINE i == Min(Matches(s, d))
             r == RemoveAt(s, i)
  <2>1. i \in DOMAIN s
    <3>1. Matches(s, d) \subseteq Nat  BY DEF Matches
    <3>2. i \in Matches(s, d)  BY <1>2, <3>1, MinIsLeast
    <3> QED  BY <3>2 DEF Matches
  <2>2. Without(s, d) = r /\ First(s, d) = {i}  BY <1>2 DEF Without, First
  <2> HIDE DEF i
  <2>3. /\ r \in Seq(Cleanup) /\ DOMAIN r = 1..(Len(s) - 1) /\ DOMAIN s = 1..Len(s)
        /\ \A k \in 1..(Len(s) - 1) :
             Before(k, i) \in 1..Len(s) /\ Before(k, i) # i /\ r[k] = s[Before(k, i)]
        /\ \A j, k \in 1..(Len(s) - 1) : Before(j, i) = Before(k, i) => j = k
        /\ \A j \in 1..Len(s) : j # i => \E k \in 1..(Len(s) - 1) : Before(k, i) = j
    BY <2>1, Removed
  <2> HIDE DEF r
  <2>4. NamesOnce(r)  BY <2>3 DEF NamesOnce
  <2>5. Names(r) \subseteq Names(s) \ {s[i].n}  BY <2>1, <2>3 DEF Names, NamesOnce
  <2>6. ASSUME NEW n \in Names(s) \ {s[i].n}  PROVE n \in Names(r)
    <3>1. PICK j \in DOMAIN s : s[j].n = n  BY DEF Names
    <3>2. j # i  BY <2>6, <3>1
    <3>3. PICK k \in DOMAIN r : Before(k, i) = j  BY <2>3, <3>2
    <3> QED  BY <2>3, <3>1, <3>3 DEF Names
  <2>7. s[i].n \in Names(s)  BY <2>1 DEF Names
  <2>8. {s[k].n : k \in First(s, d)} = {s[i].n}  BY <2>2
  <2>9. s # <<>>  BY <2>1
  <2>10. Names(r) = Names(s) \ {s[i].n}  BY <2>5, <2>6
  <2> QED  BY <2>2, <2>3, <2>4, <2>7, <2>8, <2>9, <2>10
<1> QED  BY <1>1, <1>2

LEMMA MembersPrepended ==
  ASSUME NEW s \in Seq(Nat), NEW e \in Nat, Distinct(s), e \notin Members(s)
  PROVE  Distinct(<<e>> \o s) /\ Members(<<e>> \o s) = Members(s) \cup {e}
<1> DEFINE r == <<e>> \o s
<1>1. /\ r[1] = e /\ \A k \in 1..Len(s) : r[k + 1] = s[k]
      /\ DOMAIN r = 1..(Len(s) + 1) /\ DOMAIN s = 1..Len(s) /\ Len(s) \in Nat
  BY Prepended
<1> HIDE DEF r
<1>2. \A k \in DOMAIN r : k = 1 \/ (k - 1 \in DOMAIN s /\ r[k] = s[k - 1] /\ k \in Nat)
  <2> SUFFICES ASSUME NEW k \in DOMAIN r, k # 1
               PROVE  k - 1 \in DOMAIN s /\ r[k] = s[k - 1] /\ k \in Nat
    OBVIOUS
  <2>1. k - 1 \in 1..Len(s) /\ (k - 1) + 1 = k /\ k \in Nat  BY <1>1
  <2> QED  BY <1>1, <2>1
<1>3. Distinct(r)
  <2> SUFFICES ASSUME NEW j \in DOMAIN r, NEW k \in DOMAIN r, r[j] = r[k]  PROVE j = k
    BY DEF Distinct
  <2>1. CASE j = 1 \/ k = 1  BY <1>1, <1>2, <2>1 DEF Members
  <2>2. CASE j # 1 /\ k # 1
    <3>1. j - 1 = k - 1 /\ j \in Nat /\ k \in Nat  BY <1>2, <2>2 DEF Distinct
    <3> QED  BY <3>1
  <2> QED  BY <2>1, <2>2
<1>4. Members(r) \subseteq Members(s) \cup {e}  BY <1>1, <1>2 DEF Members
<1>5. Members(s) \cup {e} \subseteq Members(r)
  <2>1. 1 \in DOMAIN r /\ r[1] = e  BY <1>1
  <2>2. \A k \in DOMAIN s : k + 1 \in DOMAIN r /\ r[k + 1] = s[k]  BY <1>1
  <2> QED  BY <2>1, <2>2 DEF Members
<1> QED  BY <1>3, <1>4, <1>5 DEF r

LEMMA MembersRemoved ==
  ASSUME NEW s \in Seq(Nat), NEW i \in DOMAIN s, Distinct(s)
  PROVE  Distinct(RemoveAt(s, i)) /\ Members(RemoveAt(s, i)) = Members(s) \ {s[i]}
<1>0. /\ RemoveAt(s, i) \in Seq(Nat) /\ DOMAIN RemoveAt(s, i) = 1..(Len(s) - 1)
      /\ DOMAIN s = 1..Len(s) /\ Len(s) \in Nat \ {0} /\ i \in 1..Len(s)
      /\ \A k \in 1..(Len(s) - 1) :
           Before(k, i) \in 1..Len(s) /\ Before(k, i) # i /\ RemoveAt(s, i)[k] = s[Before(k, i)]
      /\ \A j, k \in 1..(Len(s) - 1) : Before(j, i) = Before(k, i) => j = k
      /\ \A j \in 1..Len(s) : j # i => \E k \in 1..(Len(s) - 1) : Before(k, i) = j
  BY ONLY Removed, s \in Seq(Nat), i \in DOMAIN s
<1> DEFINE r == RemoveAt(s, i)
<1>1. /\ DOMAIN r = 1..(Len(s) - 1) /\ DOMAIN s = 1..Len(s)
      /\ \A k \in 1..(Len(s) - 1) :
           Before(k, i) \in 1..Len(s) /\ Before(k, i) # i /\ r[k] = s[Before(k, i)]
      /\ \A j, k \in 1..(Len(s) - 1) : Before(j, i) = Before(k, i) => j = k
      /\ \A j \in 1..Len(s) : j # i => \E k \in 1..(Len(s) - 1) : Before(k, i) = j
  BY <1>0
<1> HIDE DEF r
<1>2. Distinct(r)
  <2> SUFFICES ASSUME NEW j \in 1..(Len(s) - 1), NEW k \in 1..(Len(s) - 1), r[j] = r[k]  PROVE j = k
    BY <1>1 DEF Distinct
  <2>1. Before(j, i) = Before(k, i)  BY <1>1 DEF Distinct
  <2> QED  BY <1>1, <2>1
<1>3. Members(r) \subseteq Members(s) \ {s[i]}  BY <1>1 DEF Members, Distinct
<1>4. ASSUME NEW n \in Members(s) \ {s[i]}  PROVE n \in Members(r)
  <2>1. PICK j \in DOMAIN s : s[j] = n  BY DEF Members
  <2>2. j # i  BY <1>4, <2>1
  <2>3. PICK k \in DOMAIN r : Before(k, i) = j  BY <1>1, <2>2
  <2> QED  BY <1>1, <2>1, <2>3 DEF Members
<1>5. Members(r) = Members(s) \ {s[i]}  BY <1>3, <1>4
<1> QED  BY <1>2, <1>5 DEF r

LEMMA Joined ==
  ASSUME NEW s \in Seq(Nat), NEW q \in Seq(Nat)
  PROVE  /\ DOMAIN (s \o q) = 1..(Len(s) + Len(q)) /\ \A k \in 1..Len(s) : (s \o q)[k] = s[k]
         /\ \A k \in 1..Len(q) : (s \o q)[Len(s) + k] = q[k]
OBVIOUS

(* The blocks given back come, the last first, before those that are free. *)
LEMMA MembersReversed ==
  ASSUME NEW s \in Seq(Nat), NEW q \in Seq(Nat), Distinct(s), Distinct(q),
         Members(s) \cap Members(q) = {}
  PROVE  Distinct(Reverse(s) \o q) /\ Members(Reverse(s) \o q) = Members(s) \cup Members(q)
<1> DEFINE l == Len(s)
           r == Reverse(s) \o q
           i(k) == (l - k) + 1
<1>1. l \in Nat /\ Len(q) \in Nat /\ DOMAIN s = 1..l /\ DOMAIN q = 1..Len(q)  OBVIOUS
<1>2. /\ DOMAIN r = 1..(l + Len(q)) /\ \A k \in 1..l : r[k] = s[i(k)]
      /\ \A k \in 1..Len(q) : r[l + k] = q[k]
  <2> DEFINE v == Reverse(s)
  <2>1. v = [k \in 1..l |-> s[i(k)]]
    BY DEF Reverse
  <2>2. \A k \in 1..l : i(k) \in 1..l  BY <1>1
  <2>3. \A k \in 1..l : s[i(k)] \in Nat  BY <1>1, <2>2
  <2> HIDE DEF v, i
  <2>4. v \in Seq(Nat) /\ Len(v) = l /\ \A k \in 1..l : v[k] = s[i(k)]
    <3> HIDE DEF l
    <3>1. v \in [1..l -> Nat]  BY <2>1, <2>3
    <3> QED  BY <1>1, <2>1, <3>1
  <2> HIDE DEF l
  <2>5. /\ DOMAIN (v \o q) = 1..(Len(v) + Len(q)) /\ \A k \in 1..Len(v) : (v \o q)[k] = v[k]
        /\ \A k \in 1..Len(q) : (v \o q)[Len(v) + k] = q[k]
    BY <2>4, Joined
  <2> DEFINE w == v \o q
  <2>6. r = w  BY DEF v
  <2>7. /\ DOMAIN w = 1..(l + Len(q)) /\ \A k \in 1..l : w[k] = v[k]
        /\ \A k \in 1..Len(q) : w[l + k] = q[k]
    BY <2>4, <2>5
  <2> HIDE DEF w
  <2> QED  BY <2>4, <2>6, <2>7
<1>3. \A k \in 1..l : i(k) \in 1..l /\ i(i(k)) = k  BY <1>1
<1> HIDE DEF r, l, i
<1>4. \A k \in DOMAIN r : k \in 1..l \/ (k - l \in 1..Len(q) /\ r[k] = q[k - l] /\ k \in Nat)
  <2> SUFFICES ASSUME NEW k \in DOMAIN r, k \notin 1..l
               PROVE  k - l \in 1..Len(q) /\ r[k] = q[k - l] /\ k \in Nat
    OBVIOUS
  <2>1. k - l \in 1..Len(q) /\ l + (k - l) = k /\ k \in Nat  BY <1>1, <1>2
  <2> QED  BY <1>2, <2>1
<1>5. \A k \in 1..l : r[k] \in Members(s)  BY <1>1, <1>2, <1>3 DEF Members
<1>6. \A k \in DOMAIN r : k \notin 1..l => r[k] \in Members(q)  BY <1>1, <1>4 DEF Members
<1>7. Distinct(r)
  <2> SUFFICES ASSUME NEW j \in DOMAIN r, NEW k \in DOMAIN r, r[j] = r[k]  PROVE j = k
    BY DEF Distinct
  <2>1. CASE j \in 1..l /\ k \in 1..l
    <3>1. i(j) = i(k)  BY <1>1, <1>2, <1>3, <2>1 DEF Distinct
    <3> QED  BY <1>3, <2>1, <3>1
  <2>2. CASE j \notin 1..l /\ k \notin 1..l
    <3>1. j - l = k - l /\ j \in Nat /\ k \in Nat  BY <1>1, <1>4, <2>2 DEF Distinct
    <3> QED  BY <1>1, <3>1
  <2>3. CASE (j \in 1..l) # (k \in 1..l)  BY <1>5, <1>6, <2>3
  <2> QED  BY <2>1, <2>2, <2>3
<1>8. Members(r) \subseteq Members(s) \cup Members(q)  BY <1>5, <1>6 DEF Members
<1>9. \A k \in DOMAIN s : s[k] \in Members(r)
  <2> SUFFICES ASSUME NEW k \in DOMAIN s  PROVE s[k] \in Members(r)
    OBVIOUS
  <2>1. i(k) \in 1..l /\ i(i(k)) = k  BY <1>1, <1>3
  <2>2. i(k) \in DOMAIN r /\ r[i(k)] = s[k]  BY <1>1, <1>2, <2>1
  <2> QED  BY <2>2 DEF Members
<1>10. \A k \in DOMAIN q : q[k] \in Members(r)
  <2> SUFFICES ASSUME NEW k \in DOMAIN q  PROVE q[k] \in Members(r)
    OBVIOUS
  <2>1. l + k \in DOMAIN r /\ r[l + k] = q[k]  BY <1>1, <1>2
  <2> QED  BY <2>1 DEF Members
<1>11. Members(r) = Members(s) \cup Members(q)  BY <1>8, <1>9, <1>10 DEF Members
<1> QED  BY <1>7, <1>11 DEF r

(* What the kill of a cleanup does to the lists of its pool. *)
KillMoves(c, d) ==
  /\ pool' \in [Control -> PoolRecord] /\ OtherPools(c) /\ SameNode(c)
  /\ pool'[c].blocks = pool[c].blocks
  /\ \A m \in CleanupLists : pool'[c][m] = Without(pool[c][m], d)
  /\ KilledBy(c, d) # {} /\ killed' = killed \cup KilledBy(c, d)
  /\ entries' = entries - Cardinality(KilledBy(c, d))

LEMMA KilledMoves ==
  ASSUME PoolTypes, CleanupInv, NEW t \in PoolThread, NEW c \in Control, Kill(t, c)
  PROVE  \E d \in Data : KillMoves(c, d)
<1>1. PICK d \in Data :
        /\ KilledBy(c, d) # {} /\ killed' = killed \cup KilledBy(c, d)
        /\ entries' = entries - Cardinality(KilledBy(c, d))
        /\ pool' = [pool EXCEPT ![c].cleanups = Without(@, d), ![c].pre_cleanups = Without(@, d)]
  BY DEF Kill
<1> DEFINE v == Without(pool[c].cleanups, d)
           w == Without(pool[c].pre_cleanups, d)
<1>2. v \in Lists /\ w \in Lists
  <2>1. \A m \in CleanupLists : pool[c][m] \in Seq(Cleanup) /\ NamesOnce(pool[c][m])
    BY TypedList DEF CleanupInv
  <2>2. \A m \in CleanupLists : Without(pool[c][m], d) \in Seq(Cleanup)  BY <2>1, NamesWithout
  <2> QED  BY <2>2 DEF CleanupLists, Lists
<1>3. pool \in [Control -> PoolRecord] /\ pool[c] \in PoolRecord  BY DEF PoolTypes
<1>4. pool' = [pool EXCEPT ![c].cleanups = v, ![c].pre_cleanups = w]  BY <1>1, <1>3 DEF PoolRecord
<1> HIDE DEF v, w
<1>5. pool'[c] = [pool[c] EXCEPT !.cleanups = v, !.pre_cleanups = w] /\ OtherPools(c)
  BY <1>3, <1>4 DEF OtherPools
<1>6. pool'[c] \in PoolRecord  BY <1>2, <1>3, <1>5 DEF PoolRecord
<1>7. pool' \in [Control -> PoolRecord]
  <2>1. DOMAIN pool' = Control /\ pool' = [e \in Control |-> pool'[e]]  BY <1>3, <1>4
  <2>2. \A e \in Control : pool'[e] \in PoolRecord  BY <1>3, <1>5, <1>6 DEF OtherPools
  <2> QED  BY <2>1, <2>2
<1>8. /\ SameNode(c) /\ pool'[c].blocks = pool[c].blocks
      /\ pool'[c].cleanups = v /\ pool'[c].pre_cleanups = w
  BY <1>3, <1>5 DEF PoolRecord, SameNode
<1>9. \A m \in CleanupLists : pool'[c][m] = Without(pool[c][m], d)  BY <1>8 DEF CleanupLists, v, w
<1> QED  BY <1>1, <1>5, <1>7, <1>8, <1>9 DEF KillMoves

LEMMA KillShape ==
  ASSUME PoolShape, CleanupInv, NEW t \in PoolThread, NEW c \in Control, Kill(t, c)
  PROVE  PoolShape'
<1>1. /\ PoolTypes /\ Usable(t, c)
      /\ UNCHANGED <<free_blocks, arena_used, capacity, used, live, stack, ending, runs>>
      /\ UNCHANGED callVars
  BY DEF PoolShape, Kill, memoryVars, callVars
<1>2. PICK d \in Data : KillMoves(c, d)  BY <1>1, KilledMoves
<1>3. PoolTypes'  BY <1>1, <1>2 DEF PoolTypes, KillMoves
<1>4. SameNode(c) /\ OthersSame(c)  BY <1>1, <1>2 DEF KillMoves, OthersSame, OtherPools
<1>5. pool[c].pre_cleanups = <<>> => pool'[c].pre_cleanups = <<>>
  <2> DEFINE s == pool[c].pre_cleanups
  <2>1. "pre_cleanups" \in CleanupLists  BY DEF CleanupLists
  <2>2. pool'[c].pre_cleanups = Without(s, d)  BY <1>2, <2>1 DEF KillMoves
  <2>3. s \in Seq(Cleanup) /\ NamesOnce(s)  BY <1>1, <2>1, TypedList DEF CleanupInv
  <2> HIDE DEF s
  <2>4. s = <<>> => Without(s, d) = <<>>  BY <2>3, NamesWithout
  <2> QED  BY <2>2, <2>4 DEF s
<1> QED  BY <1>1, <1>3, <1>4, <1>5, UsedKeepsShape

(* The shape is kept by every step. *)
LEMMA PoolShapeKept ==
  ASSUME PoolShape, CleanupInv, MemoryInv, PoolsNext
  PROVE  PoolShape'
<1>1. PICK t \in PoolThread :
        \/ Ends(t) \/ Terminate(t)
        \/ Create(t, NoPool)
        \/ \E c \in Control :
             \/ Create(t, c) \/ Alloc(t, c) \/ CleanupRegister(t, c) \/ PreCleanupRegister(t, c) \/ Kill(t, c)
             \/ UserdataSet(t, c) \/ ClearPool(t, c) \/ DestroyPool(t, c)
  BY DEF PoolsNext
<1>2. CASE Ends(t)
  BY <1>2, RunCleanupShape, CallbackReturnsShape, DestroyChildrenShape, ReleaseMemoryShape,
     DetachShape, TerminateNextShape DEF Ends
<1>3. CASE Terminate(t)  BY <1>3, TerminateShape
<1>4. CASE Create(t, NoPool)  BY <1>4, CreateShape
<1>5. ASSUME NEW c \in Control,
             \/ Create(t, c) \/ Alloc(t, c) \/ CleanupRegister(t, c) \/ PreCleanupRegister(t, c)
             \/ Kill(t, c) \/ UserdataSet(t, c) \/ ClearPool(t, c) \/ DestroyPool(t, c)
      PROVE  PoolShape'
  BY <1>5, CreateShape, AllocShape, RegistersShape, KillShape, ClearPoolShape, DestroyPoolShape
<1> QED  BY <1>1, <1>2, <1>3, <1>4, <1>5

-----------------------------------------------------------------------------
(* The memory, as the operations give it and take it back.                  *)

LEMMA MemoryStays ==
  ASSUME MemoryInv, UNCHANGED <<free_blocks, capacity, used, live>>,
         \A c \in Control : pool'[c].blocks = pool[c].blocks
  PROVE  MemoryInv'
<1>1. \A c \in BlockOwners : Blocks(c)' = Blocks(c)  BY DEF Blocks, BlockOwners
<1>2. \A c \in BlockOwners : BlocksOf(c)' = BlocksOf(c)  BY <1>1 DEF BlocksOf
<1>3. \A c \in Control : c \in BlockOwners  BY DEF BlockOwners
<1> QED  BY <1>1, <1>2, <1>3 DEF MemoryInv, Carved

(* What a pool, and the free list, have when one list changes. *)
LEMMA BlocksAre ==
  ASSUME NEW c \in Control
  PROVE  /\ Blocks(c) = pool[c].blocks /\ Blocks(NoPool) = free_blocks
         /\ BlocksOf(c) = Members(pool[c].blocks) /\ BlocksOf(NoPool) = Members(free_blocks)
         /\ c \in BlockOwners /\ NoPool \in BlockOwners /\ c # NoPool
BY NoPoolIsNone DEF Blocks, BlocksOf, BlockOwners

(* Two pieces of memory of one block, neither within the other. *)
LEMMA PieceTyped ==
  ASSUME PoolTypes, NEW c \in Control, NEW m \in live[c]
  PROVE  m = <<m[1], m[2], m[3]>> /\ m[1] \in Nat /\ m[2] \in Nat /\ m[3] \in Nat
BY DEF PoolTypes

LEMMA InBlockMemory ==
  ASSUME PoolTypes, MemoryInv, NEW c \in Control, NEW size \in Nat, AllocInBlock(c, size)
  PROVE  MemoryInv'
<1>1. PICK b \in Carved :
        /\ \E k \in DOMAIN pool[c].blocks : pool[c].blocks[k] = b
        /\ used[b] \in Nat /\ used[b] + size <= capacity[b]
        /\ used' \in Seq(Nat) /\ Len(used') = Len(used) /\ used'[b] = used[b] + size
        /\ \A d \in Carved \ {b} : used'[d] = used[d]
        /\ MoreLive(c, <<b, used[b], size>>)
        /\ UNCHANGED <<pool, free_blocks, arena_used, capacity>>
  BY InBlockMoves
<1> DEFINE n == <<b, used[b], size>>
<1>2. \A e \in BlockOwners : Blocks(e)' = Blocks(e) /\ BlocksOf(e)' = BlocksOf(e)
  BY <1>1 DEF Blocks, BlocksOf
<1>3. Carved' = Carved  BY <1>1 DEF Carved
<1>4. b \in BlocksOf(c)  BY <1>1, BlocksAre DEF Members
<1>5. n[1] = b /\ n[2] = used[b] /\ n[3] = size  OBVIOUS
<1> HIDE DEF n
<1>6. /\ live'[c] = live[c] \cup {n} /\ \A d \in Control \ {c} : live'[d] = live[d]
  BY <1>1 DEF MoreLive, n
<1>7. \A d \in Control : \A m \in live'[d] : m \in live[d] \/ (m = n /\ d = c)  BY <1>6
<1>8. \A e \in Carved : used[e] \in Nat /\ used'[e] \in Nat /\ used[e] <= used'[e]
  <2>1. \A e \in Carved : used[e] \in Nat  BY DEF PoolTypes, MemoryInv, Carved
  <2>2. used[b] + size \in Nat /\ used[b] <= used[b] + size  BY <1>1
  <2> QED  BY <1>1, <2>1, <2>2
<1>9. ASSUME NEW d \in Control, NEW m \in live[d]
      PROVE  /\ m[1] \in BlocksOf(d) /\ m[1] \in Carved /\ m[2] + m[3] <= used[m[1]]
             /\ m[2] \in Nat /\ m[3] \in Nat
  <2>1. m[1] \in BlocksOf(d) /\ m[2] + m[3] <= used[m[1]] /\ BlocksOf(d) \subseteq Carved
    BY DEF MemoryInv, BlockOwners
  <2> QED  BY <2>1, PieceTyped
<1>10. ASSUME NEW d \in Control, NEW m \in live'[d]
       PROVE  m[1] \in BlocksOf(d)' /\ m[2] + m[3] <= used'[m[1]]
  <2>1. d \in BlockOwners  BY DEF BlockOwners
  <2>2. CASE m \in live[d]
    <3>1. m[1] \in BlocksOf(d) /\ m[1] \in Carved /\ m[2] + m[3] <= used[m[1]]
          /\ m[2] \in Nat /\ m[3] \in Nat
      BY <1>9, <2>2
    <3>2. used[m[1]] \in Nat /\ used[m[1]] <= used'[m[1]] /\ used'[m[1]] \in Nat
      BY <1>8, <3>1
    <3>3. m[2] + m[3] \in Nat  BY <3>1
    <3> QED  BY <1>2, <2>1, <3>1, <3>2, <3>3
  <2>3. CASE m = n /\ d = c  BY <1>1, <1>2, <1>4, <1>5, <2>1, <2>3
  <2> QED  BY <1>7, <2>2, <2>3
<1>11. ASSUME NEW d \in Control, NEW e \in Control, NEW m \in live'[d], NEW o \in live'[e],
              o # m, o[1] = m[1]
       PROVE  o[2] >= m[2] + m[3] \/ m[2] >= o[2] + o[3]
  <2>1. CASE m \in live[d] /\ o \in live[e]  BY <1>11, <2>1 DEF MemoryInv
  <2>2. CASE m \in live[d] /\ o = n
    <3>1. m[2] + m[3] <= used[b]  BY <1>5, <1>9, <1>11, <2>2
    <3> QED  BY <1>5, <2>2, <3>1, <1>9, <1>1
  <2>3. CASE m = n /\ o \in live[e]
    <3>1. o[2] + o[3] <= used[b]  BY <1>5, <1>9, <1>11, <2>3
    <3> QED  BY <1>5, <2>3, <3>1, <1>9, <1>1
  <2> QED  BY <1>7, <1>11, <2>1, <2>2, <2>3
<1>12. Len(used') = Len(capacity') /\ \A e \in Carved' : used'[e] <= capacity'[e]
  BY <1>1, <1>3 DEF MemoryInv
<1>13. \A e \in BlockOwners : Distinct(Blocks(e)') /\ BlocksOf(e)' \subseteq Carved'
  BY <1>2, <1>3 DEF MemoryInv
<1>14. /\ \A e \in Carved' : \E d \in BlockOwners : e \in BlocksOf(d)'
       /\ \A d, e \in BlockOwners : d # e => BlocksOf(d)' \cap BlocksOf(e)' = {}
  BY <1>2, <1>3 DEF MemoryInv
<1> QED  BY <1>10, <1>11, <1>12, <1>13, <1>14 DEF MemoryInv

(* Memory in a block that the pool has now, and no other had. *)
LEMMA NewBlockMemory ==
  ASSUME PoolTypes, MemoryInv, NEW c \in Control, NEW size \in Nat, NEW b \in Nat,
         MoreLive(c, <<b, 0, size>>),
         \A d \in Control : \A m \in live[d] : m[1] # b,
         \A d \in Control : BlocksOf(d) \subseteq BlocksOf(d)',
         b \in BlocksOf(c)', used'[b] = size,
         \A e \in Carved : e # b => used'[e] = used[e]
  PROVE  /\ \A d \in Control : \A m \in live'[d] : m[1] \in BlocksOf(d)' /\ m[2] + m[3] <= used'[m[1]]
         /\ \A d, e \in Control : \A m \in live'[d] : \A o \in live'[e] :
              o # m /\ o[1] = m[1] => o[2] >= m[2] + m[3] \/ m[2] >= o[2] + o[3]
<1> DEFINE n == <<b, 0, size>>
<1>1. n[1] = b /\ n[2] + n[3] = size  OBVIOUS
<1> HIDE DEF n
<1>2. /\ live'[c] = live[c] \cup {n} /\ \A d \in Control \ {c} : live'[d] = live[d]
  BY DEF MoreLive, n
<1>3. \A d \in Control : \A m \in live'[d] : m \in live[d] \/ (m = n /\ d = c)  BY <1>2
<1>4. ASSUME NEW d \in Control, NEW m \in live'[d]
      PROVE  m[1] \in BlocksOf(d)' /\ m[2] + m[3] <= used'[m[1]]
  <2>1. CASE m \in live[d]
    <3>1. m[1] \in BlocksOf(d) /\ m[2] + m[3] <= used[m[1]] /\ BlocksOf(d) \subseteq Carved
      BY <2>1 DEF MemoryInv, BlockOwners
    <3>2. m[1] # b  BY <2>1
    <3> QED  BY <3>1, <3>2
  <2>2. CASE m = n /\ d = c
    <3>1. n[2] + n[3] <= used'[b]  BY <1>1
    <3> QED  BY <1>1, <2>2, <3>1
  <2> QED  BY <1>3, <2>1, <2>2
<1>5. ASSUME NEW d \in Control, NEW e \in Control, NEW m \in live'[d], NEW o \in live'[e],
             o # m, o[1] = m[1]
      PROVE  o[2] >= m[2] + m[3] \/ m[2] >= o[2] + o[3]
  <2>1. CASE m \in live[d] /\ o \in live[e]  BY <1>5, <2>1 DEF MemoryInv
  <2>2. CASE ~(m \in live[d] /\ o \in live[e])  BY <1>1, <1>3, <1>5, <2>2
  <2> QED  BY <2>1, <2>2
<1> QED  BY <1>4, <1>5

LEMMA RecycledMemory ==
  ASSUME PoolTypes, MemoryInv, NEW c \in Control, NEW size \in Nat, AllocRecycled(c, size)
  PROVE  MemoryInv'
<1>1. PICK k \in DOMAIN free_blocks, b \in Carved :
        /\ free_blocks[k] = b /\ free_blocks' = RemoveAt(free_blocks, k)
        /\ size <= capacity[b]
        /\ used' \in Seq(Nat) /\ Len(used') = Len(used) /\ used'[b] = size
        /\ \A d \in Carved \ {b} : used'[d] = used[d]
        /\ MoreLive(c, <<b, 0, size>>) /\ OneBlockMore(c, b)
        /\ UNCHANGED <<arena_used, capacity>>
  BY RecycledMoves
<1>2. b \in Nat /\ Carved' = Carved  BY <1>1 DEF Carved
<1>3. pool[c].blocks \in Seq(Nat) /\ free_blocks \in Seq(Nat)
  BY TypedPool DEF PoolTypes, BlockLists
<1>4. Distinct(pool[c].blocks) /\ Distinct(free_blocks)
      /\ Members(pool[c].blocks) \cap Members(free_blocks) = {}
  BY BlocksAre DEF MemoryInv
<1>5. b \in Members(free_blocks) /\ b \notin Members(pool[c].blocks)
  BY <1>1, <1>4 DEF Members
<1>6. Distinct(free_blocks') /\ Members(free_blocks') = Members(free_blocks) \ {b}
  BY <1>1, <1>3, <1>4, MembersRemoved
<1>7. Distinct(pool'[c].blocks) /\ Members(pool'[c].blocks) = Members(pool[c].blocks) \cup {b}
  <2>1. pool'[c].blocks = <<b>> \o pool[c].blocks  BY <1>1 DEF OneBlockMore
  <2> QED  BY <1>2, <1>3, <1>4, <1>5, <2>1, MembersPrepended
<1>8. /\ BlocksOf(NoPool)' = BlocksOf(NoPool) \ {b} /\ Distinct(Blocks(NoPool)')
      /\ BlocksOf(c)' = BlocksOf(c) \cup {b} /\ Distinct(Blocks(c)')
      /\ b \in BlocksOf(NoPool)
  BY <1>5, <1>6, <1>7, BlocksAre DEF Blocks, BlocksOf
<1>9. \A d \in BlockOwners : d # c /\ d # NoPool =>
        Blocks(d)' = Blocks(d) /\ BlocksOf(d)' = BlocksOf(d)
  BY <1>1 DEF OneBlockMore, OtherPools, Blocks, BlocksOf, BlockOwners
<1>10. c \in BlockOwners /\ NoPool \in BlockOwners /\ c # NoPool  BY BlocksAre
<1>11. \A d \in BlockOwners : Distinct(Blocks(d)')
  BY <1>8, <1>9 DEF MemoryInv
<1>12. \A d \in BlockOwners : BlocksOf(d) \subseteq Carved  BY DEF MemoryInv
<1>13. \A d \in BlockOwners : BlocksOf(d)' \subseteq Carved
  BY <1>8, <1>9, <1>10, <1>12
<1>14. \A e \in Carved : \E d \in BlockOwners : e \in BlocksOf(d)'
  <2> SUFFICES ASSUME NEW e \in Carved  PROVE \E d \in BlockOwners : e \in BlocksOf(d)'
    OBVIOUS
  <2>1. PICK d \in BlockOwners : e \in BlocksOf(d)  BY DEF MemoryInv
  <2>2. CASE e = b  BY <1>8, <1>10, <2>2
  <2>3. CASE e # b /\ d = NoPool  BY <1>8, <1>10, <2>1, <2>3
  <2>4. CASE d # NoPool  BY <1>8, <1>9, <2>1, <2>4
  <2> QED  BY <2>2, <2>3, <2>4
<1>15. ASSUME NEW d \in BlockOwners, NEW e \in BlockOwners, d # e
       PROVE  BlocksOf(d)' \cap BlocksOf(e)' = {}
  <2>1. \A g, h \in BlockOwners : g # h => BlocksOf(g) \cap BlocksOf(h) = {}  BY DEF MemoryInv
  <2>2. \A g \in BlockOwners \ {NoPool} : b \notin BlocksOf(g)  BY <1>8, <1>10, <2>1
  <2>3. \A g \in BlockOwners \ {c} : b \notin BlocksOf(g)'  BY <1>8, <1>9, <1>10, <2>2
  <2>4. \A g \in BlockOwners : BlocksOf(g)' \subseteq BlocksOf(g) \cup {b}  BY <1>8, <1>9
  <2> QED  BY <1>15, <2>1, <2>3, <2>4
<1>16. \A d \in Control : \A m \in live[d] : m[1] # b
  <2> SUFFICES ASSUME NEW d \in Control, NEW m \in live[d]  PROVE m[1] # b
    OBVIOUS
  <2>1. m[1] \in BlocksOf(d) /\ d \in BlockOwners /\ d # NoPool
    BY BlocksAre DEF MemoryInv
  <2> QED  BY <1>8, <1>10, <2>1 DEF MemoryInv
<1>17. \A d \in Control : BlocksOf(d) \subseteq BlocksOf(d)'
  BY <1>8, <1>9, BlocksAre
<1>18. /\ \A d \in Control : \A m \in live'[d] : m[1] \in BlocksOf(d)' /\ m[2] + m[3] <= used'[m[1]]
       /\ \A d, e \in Control : \A m \in live'[d] : \A o \in live'[e] :
            o # m /\ o[1] = m[1] => o[2] >= m[2] + m[3] \/ m[2] >= o[2] + o[3]
  BY <1>1, <1>2, <1>8, <1>16, <1>17, NewBlockMemory
<1>19. Len(used') = Len(capacity') /\ \A e \in Carved' : used'[e] <= capacity'[e]
  BY <1>1, <1>2 DEF MemoryInv
<1> QED  BY <1>2, <1>11, <1>13, <1>14, <1>15, <1>18, <1>19 DEF MemoryInv

LEMMA CarvedMemory ==
  ASSUME PoolTypes, MemoryInv, NEW c \in Control, NEW size \in Nat, AllocCarved(c, size)
  PROVE  MemoryInv'
<1>2. /\ capacity \in Seq(Nat) /\ used \in Seq(Nat) /\ Len(used) = Len(capacity) /\ Len(capacity) \in Nat
  BY DEF PoolTypes, MemoryInv
<1>0. PICK b \in Nat : b = Len(capacity) + 1  BY <1>2
<1>1. PICK most \in Nat :
        /\ size <= most /\ capacity' = Append(capacity, most) /\ used' = Append(used, size)
        /\ MoreLive(c, <<b, 0, size>>) /\ OneBlockMore(c, b)
        /\ UNCHANGED free_blocks
  BY <1>0, CarvedMoves
<1>3. /\ b \in Nat /\ b \notin Carved /\ Carved' = Carved \cup {b}
      /\ Len(used') = Len(capacity') /\ used'[b] = size /\ capacity'[b] = most
      /\ \A e \in Carved : used'[e] = used[e] /\ capacity'[e] = capacity[e]
  <2>1. Len(capacity') = b /\ capacity'[b] = most
        /\ \A e \in 1..Len(capacity) : capacity'[e] = capacity[e]
    BY <1>0, <1>1, <1>2
  <2>2. Len(used') = b /\ used'[b] = size /\ \A e \in 1..Len(capacity) : used'[e] = used[e]
    BY <1>0, <1>1, <1>2
  <2>3. 1..b = 1..Len(capacity) \cup {b} /\ b \notin 1..Len(capacity)  BY <1>0, <1>2
  <2> QED  BY <1>0, <2>1, <2>2, <2>3 DEF Carved
<1>4. pool[c].blocks \in Seq(Nat)  BY TypedPool DEF BlockLists
<1>5. \A d \in BlockOwners : BlocksOf(d) \subseteq Carved  BY DEF MemoryInv
<1>6. c \in BlockOwners /\ NoPool \in BlockOwners /\ c # NoPool  BY BlocksAre
<1>7. Distinct(pool[c].blocks) /\ b \notin Members(pool[c].blocks)
  BY <1>3, <1>5, <1>6, BlocksAre DEF MemoryInv
<1>8. Distinct(pool'[c].blocks) /\ Members(pool'[c].blocks) = Members(pool[c].blocks) \cup {b}
  <2>1. pool'[c].blocks = <<b>> \o pool[c].blocks  BY <1>1 DEF OneBlockMore
  <2> QED  BY <1>3, <1>4, <1>7, <2>1, MembersPrepended
<1>9. BlocksOf(c)' = BlocksOf(c) \cup {b} /\ Distinct(Blocks(c)')
  BY <1>6, <1>8, BlocksAre DEF Blocks, BlocksOf
<1>10. \A d \in BlockOwners : d # c => Blocks(d)' = Blocks(d) /\ BlocksOf(d)' = BlocksOf(d)
  BY <1>1 DEF OneBlockMore, OtherPools, Blocks, BlocksOf, BlockOwners
<1>11. \A d \in BlockOwners : Distinct(Blocks(d)') /\ BlocksOf(d)' \subseteq Carved'
  BY <1>3, <1>5, <1>9, <1>10 DEF MemoryInv
<1>12. \A e \in Carved' : \E d \in BlockOwners : e \in BlocksOf(d)'
  <2> SUFFICES ASSUME NEW e \in Carved'  PROVE \E d \in BlockOwners : e \in BlocksOf(d)'
    OBVIOUS
  <2>1. CASE e = b  BY <1>6, <1>9, <2>1
  <2>2. CASE e \in Carved
    <3>1. PICK d \in BlockOwners : e \in BlocksOf(d)  BY <2>2 DEF MemoryInv
    <3> QED  BY <1>9, <1>10, <3>1
  <2> QED  BY <1>3, <2>1, <2>2
<1>13. ASSUME NEW d \in BlockOwners, NEW e \in BlockOwners, d # e
       PROVE  BlocksOf(d)' \cap BlocksOf(e)' = {}
  <2>1. \A g, h \in BlockOwners : g # h => BlocksOf(g) \cap BlocksOf(h) = {}  BY DEF MemoryInv
  <2>2. \A g \in BlockOwners : b \notin BlocksOf(g)  BY <1>3, <1>5
  <2>3. \A g \in BlockOwners \ {c} : b \notin BlocksOf(g)'  BY <1>10, <2>2
  <2>4. \A g \in BlockOwners : BlocksOf(g)' \subseteq BlocksOf(g) \cup {b}  BY <1>9, <1>10
  <2> QED  BY <1>13, <2>1, <2>3, <2>4
<1>14. \A d \in Control : \A m \in live[d] : m[1] # b
  <2> SUFFICES ASSUME NEW d \in Control, NEW m \in live[d]  PROVE m[1] # b
    OBVIOUS
  <2>1. m[1] \in BlocksOf(d) /\ d \in BlockOwners  BY BlocksAre DEF MemoryInv
  <2> QED  BY <1>3, <1>5, <2>1
<1>15. \A d \in Control : BlocksOf(d) \subseteq BlocksOf(d)'
  BY <1>9, <1>10, BlocksAre
<1>16. /\ \A d \in Control : \A m \in live'[d] : m[1] \in BlocksOf(d)' /\ m[2] + m[3] <= used'[m[1]]
       /\ \A d, e \in Control : \A m \in live'[d] : \A o \in live'[e] :
            o # m /\ o[1] = m[1] => o[2] >= m[2] + m[3] \/ m[2] >= o[2] + o[3]
  <2>1. MoreLive(c, <<b, 0, size>>)  BY <1>1
  <2>2. used'[b] = size /\ \A e \in Carved : e # b => used'[e] = used[e]  BY <1>3
  <2>3. b \in BlocksOf(c)'  BY <1>9
  <2> QED  BY <1>14, <1>15, <2>1, <2>2, <2>3, NewBlockMemory
<1>17. \A e \in Carved' : used'[e] <= capacity'[e]
  BY <1>1, <1>3 DEF MemoryInv
<1> QED  BY <1>3, <1>11, <1>12, <1>13, <1>16, <1>17 DEF MemoryInv

(* The memory of a pool that is cleared or destroyed goes to the free list. *)
LEMMA ReleasedMemory ==
  ASSUME PoolShape, MemoryInv, NEW t \in PoolThread, ReleaseMemory(t)
  PROVE  MemoryInv'
<1>1. stack[t] # <<>> /\ UNCHANGED capacity  BY DEF ReleaseMemory, Works
<1>2. PoolTypes /\ Top(t).c \in Control  BY <1>1, WorkingFrame
<1> PICK c \in Control : c = Top(t).c  BY <1>2
<1> DEFINE s == pool[c].blocks
<1>3. /\ free_blocks' = Reverse(s) \o free_blocks
      /\ used' = [b \in DOMAIN used |-> IF Contains(s, b) THEN 0 ELSE used[b]]
  BY DEF ReleaseMemory
<1>4. /\ OtherPools(c) /\ OthersSame(c) /\ pool'[c].blocks = <<>> /\ live'[c] = {}
  BY ReleaseMoves
<1>5. s \in Seq(Nat) /\ free_blocks \in Seq(Nat) /\ used \in Seq(Nat) /\ Len(used) = Len(capacity)
  BY <1>2, TypedPool DEF PoolTypes, BlockLists, MemoryInv
<1>6. /\ Distinct(s) /\ Distinct(free_blocks) /\ Members(s) \cap Members(free_blocks) = {}
      /\ c \in BlockOwners /\ NoPool \in BlockOwners /\ c # NoPool
      /\ BlocksOf(c) = Members(s) /\ BlocksOf(NoPool) = Members(free_blocks)
  BY <1>2, BlocksAre DEF MemoryInv
<1>7. Distinct(free_blocks') /\ Members(free_blocks') = Members(s) \cup Members(free_blocks)
  <2> HIDE DEF s
  <2> QED  BY <1>3, <1>5, <1>6, MembersReversed
<1>8. /\ BlocksOf(NoPool)' = BlocksOf(c) \cup BlocksOf(NoPool) /\ Distinct(Blocks(NoPool)')
      /\ BlocksOf(c)' = {} /\ Distinct(Blocks(c)')
  <2>1. Members(<<>>) = {} /\ Distinct(<<>>)  BY DEF Members, Distinct
  <2>2. Blocks(NoPool)' = free_blocks' /\ Blocks(c)' = <<>>  BY <1>4, <1>6 DEF Blocks
  <2> QED  BY <1>6, <1>7, <2>1, <2>2 DEF BlocksOf
<1>9. \A d \in BlockOwners : d # c /\ d # NoPool =>
        Blocks(d)' = Blocks(d) /\ BlocksOf(d)' = BlocksOf(d)
  BY <1>4 DEF OtherPools, Blocks, BlocksOf, BlockOwners
<1>10. /\ Len(used') = Len(capacity) /\ Carved' = Carved
       /\ \A b \in Carved : used'[b] = IF b \in Members(s) THEN 0 ELSE used[b]
  <2>1. DOMAIN used = Carved /\ Len(used) \in Nat  BY <1>5 DEF Carved
  <2>2. \A b : Contains(s, b) <=> b \in Members(s)
    <3>1. DOMAIN s = 1..Len(s)  BY <1>5
    <3> QED  BY <3>1 DEF Contains, Members
  <2>3. used' = [b \in Carved |-> IF b \in Members(s) THEN 0 ELSE used[b]]  BY <1>3, <2>1, <2>2
  <2>4. used' \in Seq(Nat)  BY <1>2, <1>3, GivenBackBlocks
  <2>5. DOMAIN used' = 1..Len(used') /\ Len(used') \in Nat  BY <2>4
  <2>6. 1..Len(used') = 1..Len(used)  BY <1>5, <2>1, <2>3, <2>5 DEF Carved
  <2>7. Len(used') = Len(used)  BY <2>1, <2>5, <2>6
  <2> HIDE DEF s
  <2> QED  BY <1>1, <1>5, <2>3, <2>7 DEF Carved
<1>11. \A b \in Carved : used'[b] <= capacity[b]
  <2>1. \A b \in Carved : capacity[b] \in Nat  BY <1>2 DEF PoolTypes, Carved
  <2> QED  BY <1>10, <2>1 DEF MemoryInv
<1>12. \A d \in BlockOwners : BlocksOf(d) \subseteq Carved  BY DEF MemoryInv
<1>13. \A d \in BlockOwners : Distinct(Blocks(d)') /\ BlocksOf(d)' \subseteq Carved
  <2> SUFFICES ASSUME NEW d \in BlockOwners
               PROVE  Distinct(Blocks(d)') /\ BlocksOf(d)' \subseteq Carved
    OBVIOUS
  <2>1. CASE d = c  BY <1>8, <2>1
  <2>2. CASE d = NoPool  BY <1>6, <1>8, <1>12, <2>2
  <2>3. CASE d # c /\ d # NoPool  BY <1>9, <1>12, <2>3 DEF MemoryInv
  <2> QED  BY <2>1, <2>2, <2>3
<1>14. \A b \in Carved : \E d \in BlockOwners : b \in BlocksOf(d)'
  <2> SUFFICES ASSUME NEW b \in Carved  PROVE \E d \in BlockOwners : b \in BlocksOf(d)'
    OBVIOUS
  <2>1. PICK d \in BlockOwners : b \in BlocksOf(d)  BY DEF MemoryInv
  <2>2. CASE d = c \/ d = NoPool  BY <1>6, <1>8, <2>1, <2>2
  <2>3. CASE d # c /\ d # NoPool  BY <1>9, <2>1, <2>3
  <2> QED  BY <2>2, <2>3
<1>15. ASSUME NEW d \in BlockOwners, NEW e \in BlockOwners, d # e
       PROVE  BlocksOf(d)' \cap BlocksOf(e)' = {}
  <2>1. \A g, h \in BlockOwners : g # h => BlocksOf(g) \cap BlocksOf(h) = {}  BY DEF MemoryInv
  <2>2. CASE d = c \/ e = c  BY <1>8, <2>2
  <2>3. CASE d # c /\ e # c
    <3>1. \A g \in BlockOwners \ {c, NoPool} : BlocksOf(g)' \cap (BlocksOf(c) \cup BlocksOf(NoPool)) = {}
      BY <1>6, <1>9, <2>1
    <3> QED  BY <1>8, <1>9, <1>15, <2>1, <2>3, <3>1
  <2> QED  BY <2>2, <2>3
<1>16. ASSUME NEW d \in Control, NEW m \in live'[d]
       PROVE  d # c /\ m \in live[d] /\ m[1] \in BlocksOf(d)' /\ m[2] + m[3] <= used'[m[1]]
  <2>1. d # c /\ m \in live[d]  BY <1>4, <1>16 DEF OthersSame
  <2>2. d \in BlockOwners /\ d # NoPool  BY BlocksAre
  <2>3. m[1] \in BlocksOf(d) /\ m[2] + m[3] <= used[m[1]]  BY <2>1 DEF MemoryInv
  <2>4. m[1] \in Carved /\ m[1] \notin Members(s)
    BY <1>6, <1>12, <2>1, <2>2, <2>3 DEF MemoryInv
  <2> QED  BY <1>9, <1>10, <2>1, <2>2, <2>3, <2>4
<1>17. \A d, e \in Control : \A m \in live'[d] : \A o \in live'[e] :
         o # m /\ o[1] = m[1] => o[2] >= m[2] + m[3] \/ m[2] >= o[2] + o[3]
  BY <1>16 DEF MemoryInv
<1> QED  BY <1>1, <1>10, <1>11, <1>13, <1>14, <1>15, <1>16, <1>17 DEF MemoryInv

(* What a step leaves of the blocks and cleanups of the pools. *)
BlocksSame == \A c \in Control : pool'[c].blocks = pool[c].blocks
ListsSame ==
  \A c \in Control :
    pool'[c].cleanups = pool[c].cleanups /\ pool'[c].pre_cleanups = pool[c].pre_cleanups

LEMMA CreateLists ==
  ASSUME PoolShape, NEW t \in PoolThread, NEW p \in Control \cup {NoPool}, Create(t, p)
  PROVE  BlocksSame /\ ListsSame
<1>1. PICK c \in Control : NewPool(c, t, p)  BY CreateMoves
<1>2. PICK rank \in Ranks : Tree(rank)  BY DEF PoolShape
<1>3. pool[c] = EmptyPool  BY <1>1, <1>2 DEF NewPool, Tree
<1>4. pool[c].blocks = <<>> /\ pool[c].cleanups = <<>> /\ pool[c].pre_cleanups = <<>>
  BY <1>3 DEF EmptyPool
<1> SUFFICES ASSUME NEW d \in Control
             PROVE  /\ pool'[d].blocks = pool[d].blocks /\ pool'[d].cleanups = pool[d].cleanups
                    /\ pool'[d].pre_cleanups = pool[d].pre_cleanups
  BY DEF BlocksSame, ListsSame
<1>5. CASE d = c  BY <1>1, <1>4, <1>5 DEF NewPool
<1>6. CASE d # c /\ d = p  BY <1>1, <1>6, NoPoolIsNone DEF NewPool
<1>7. CASE d # c /\ d # p  BY <1>1, <1>7 DEF NewPool
<1> QED  BY <1>5, <1>6, <1>7

LEMMA DetachLists ==
  ASSUME PoolShape, NEW t \in PoolThread, Detach(t)
  PROVE  BlocksSame /\ ListsSame
<1>1. stack[t] # <<>> /\ Top(t).at = "detach"  BY DEF Detach, Works
<1>2. PICK rank \in Ranks : Tree(rank)  BY DEF PoolShape
<1>3. Top(t).c \in Control /\ FrameOK(t, Top(t))  BY <1>1, WorkingFrame
<1> PICK c \in Control : c = Top(t).c  BY <1>3
<1>4. pool[c].blocks = <<>> /\ pool[c].cleanups = <<>> /\ pool[c].pre_cleanups = <<>>
  BY <1>1, <1>3 DEF FrameOK, FrameFor
<1> DEFINE p == pool[c].parent
<1>5. /\ pool'[c] = EmptyPool /\ \A d \in Control \ {c, p} : pool'[d] = pool[d]
      /\ p # NoPool => p # c /\ pool'[p].blocks = pool[p].blocks
           /\ pool'[p].cleanups = pool[p].cleanups /\ pool'[p].pre_cleanups = pool[p].pre_cleanups
  BY <1>2, DetachMoves
<1> HIDE DEF p
<1> SUFFICES ASSUME NEW d \in Control
             PROVE  /\ pool'[d].blocks = pool[d].blocks /\ pool'[d].cleanups = pool[d].cleanups
                    /\ pool'[d].pre_cleanups = pool[d].pre_cleanups
  BY DEF BlocksSame, ListsSame
<1>6. CASE d = c  BY <1>4, <1>5, <1>6 DEF EmptyPool
<1>7. CASE d # c /\ d = p  BY <1>5, <1>7, NoPoolIsNone
<1>8. CASE d # c /\ d # p  BY <1>5, <1>8
<1> QED  BY <1>6, <1>7, <1>8

LEMMA TerminateLists ==
  ASSUME PoolTypes, NEW t \in PoolThread, Terminate(t)
  PROVE  BlocksSame /\ ListsSame
<1>1. pool' = [c \in Control |-> IF pool[c].active THEN [pool[c] EXCEPT !.owner = t] ELSE pool[c]]
  BY DEF Terminate
<1> SUFFICES ASSUME NEW d \in Control
             PROVE  /\ pool'[d].blocks = pool[d].blocks /\ pool'[d].cleanups = pool[d].cleanups
                    /\ pool'[d].pre_cleanups = pool[d].pre_cleanups
  BY DEF BlocksSame, ListsSame
<1>2. pool[d] \in PoolRecord  BY DEF PoolTypes
<1>3. pool'[d] = [pool[d] EXCEPT !.owner = t] \/ pool'[d] = pool[d]  BY <1>1
<1> QED  BY <1>2, <1>3 DEF PoolRecord

(* A callback takes a cleanup out of a list, and no block. *)
LEMMA RunCleanupBlocks ==
  ASSUME PoolShape, NEW t \in PoolThread, RunCleanup(t)
  PROVE  BlocksSame
<1>1. stack[t] # <<>> /\ Top(t).at \in CleanupLists  BY DEF RunCleanup, Works, CleanupLists
<1>2. PoolTypes /\ Top(t).c \in Control  BY <1>1, WorkingFrame
<1> PICK c \in Control : c = Top(t).c  BY <1>2
<1> PICK list \in CleanupLists : list = Top(t).at  BY <1>1
<1>3. CASE UNCHANGED pool  BY <1>3 DEF BlocksSame
<1>4. CASE pool[c][list] # <<>> /\ pool' = [pool EXCEPT ![c][list] = AfterFirst(@)]
  <2> DEFINE v == Tail(pool[c][list])
  <2>1. v \in Lists
    <3>1. pool[c][list] \in Seq(Cleanup)  BY <1>2, TypedList
    <3> QED  BY <1>4, <3>1, FirstAndTail DEF Lists
  <2>2. pool' = [pool EXCEPT ![c][list] = v]  BY <1>4 DEF AfterFirst
  <2> HIDE DEF v
  <2>3. pool' = WithList(pool, c, list, v) /\ pool \in [Control -> PoolRecord]
    BY <1>2, <2>2 DEF WithList, PoolTypes
  <2>4. pool'[c].blocks = pool[c].blocks /\ \A g \in Control \ {c} : pool'[g] = pool[g]
    BY <2>1, <2>3, ListPut
  <2> QED  BY <2>4 DEF BlocksSame
<1> QED  BY <1>3, <1>4 DEF RunCleanup

(* What is given of the blocks stays within them, and apart. *)
LEMMA MemoryInvKept ==
  ASSUME PoolShape, CleanupInv, MemoryInv, PoolsNext
  PROVE  MemoryInv'
<1>0. PoolTypes  BY DEF PoolShape
<1>1. PICK t \in PoolThread :
        \/ Ends(t) \/ Terminate(t)
        \/ Create(t, NoPool)
        \/ \E c \in Control :
             \/ Create(t, c) \/ Alloc(t, c) \/ CleanupRegister(t, c) \/ PreCleanupRegister(t, c) \/ Kill(t, c)
             \/ UserdataSet(t, c) \/ ClearPool(t, c) \/ DestroyPool(t, c)
  BY DEF PoolsNext
<1>2. CASE \/ RunCleanup(t) \/ Detach(t) \/ Terminate(t)
           \/ \E p \in Control \cup {NoPool} : Create(t, p)
  <2>1. BlocksSame
    BY <1>0, <1>2, RunCleanupBlocks, DetachLists, TerminateLists, CreateLists
  <2>2. UNCHANGED memoryVars  BY <1>2 DEF RunCleanup, Detach, Terminate, Create
  <2> QED  BY <2>1, <2>2, MemoryStays DEF memoryVars, BlocksSame
<1>3. CASE \/ CallbackReturns(t) \/ DestroyChildren(t) \/ TerminateNext(t)
           \/ \E c \in Control : ClearPool(t, c) \/ DestroyPool(t, c)
  <2>1. UNCHANGED pool /\ UNCHANGED memoryVars
    BY <1>3 DEF CallbackReturns, DestroyChildren, TerminateNext, ClearPool, DestroyPool
  <2> QED  BY <2>1, MemoryStays DEF memoryVars
<1>4. CASE ReleaseMemory(t)  BY <1>4, ReleasedMemory
<1>5. ASSUME NEW c \in Control,
             CleanupRegister(t, c) \/ PreCleanupRegister(t, c) \/ UserdataSet(t, c) \/ Kill(t, c)
      PROVE  MemoryInv'
  <2>1. UNCHANGED memoryVars
    BY <1>5 DEF CleanupRegister, PreCleanupRegister, UserdataSet, Kill
  <2>2. (\E list \in CleanupLists, d \in Data : RegisterMoves(c, list, d)) \/ \E d \in Data : KillMoves(c, d)
    <3>1. "cleanups" \in CleanupLists /\ "pre_cleanups" \in CleanupLists  BY DEF CleanupLists
    <3> QED  BY <1>0, <1>5, <3>1, CleanupRegisterMoves, PreCleanupRegisterMoves, UserdataSetMoves, KilledMoves
  <2>3. OtherPools(c) /\ pool'[c].blocks = pool[c].blocks  BY <2>2 DEF RegisterMoves, KillMoves
  <2> QED  BY <2>1, <2>3, MemoryStays DEF memoryVars, OtherPools
<1>6. ASSUME NEW c \in Control, Alloc(t, c)  PROVE MemoryInv'
  <2>1. PICK size \in AllocSizes : AllocInBlock(c, size) \/ AllocRecycled(c, size) \/ AllocCarved(c, size)
    BY <1>6 DEF Alloc
  <2>2. size \in Nat  BY PoolsAssumption
  <2> QED  BY <1>0, <2>1, <2>2, InBlockMemory, RecycledMemory, CarvedMemory
<1> QED  BY <1>1, <1>2, <1>3, <1>4, <1>5, <1>6 DEF Ends

-----------------------------------------------------------------------------
(* The callbacks under way, as the stacks change.                           *)

LEMMA CallsPrepended ==
  ASSUME NEW s \in Seq(FrameRecord), NEW f \in FrameRecord, CalledOnce(s),
         f.callback.n # 0 => f.callback.n \notin Callbacks(s)
  PROVE  CalledOnce(<<f>> \o s) /\ Callbacks(<<f>> \o s) = Callbacks(s) \cup ({f.callback.n} \ {0})
<1> DEFINE r == <<f>> \o s
<1>1. /\ r[1] = f /\ \A k \in 1..Len(s) : r[k + 1] = s[k]
      /\ DOMAIN r = 1..(Len(s) + 1) /\ DOMAIN s = 1..Len(s) /\ Len(s) \in Nat
  BY Prepended
<1> HIDE DEF r
<1>2. \A k \in DOMAIN r : k = 1 \/ (k - 1 \in DOMAIN s /\ r[k] = s[k - 1] /\ k \in Nat)
  <2> SUFFICES ASSUME NEW k \in DOMAIN r, k # 1
               PROVE  k - 1 \in DOMAIN s /\ r[k] = s[k - 1] /\ k \in Nat
    OBVIOUS
  <2>1. k - 1 \in 1..Len(s) /\ (k - 1) + 1 = k /\ k \in Nat  BY <1>1
  <2> QED  BY <1>1, <2>1
<1>3. CalledOnce(r)
  <2> SUFFICES ASSUME NEW j \in DOMAIN r, NEW k \in DOMAIN r,
                      r[j].callback.n = r[k].callback.n, r[j].callback.n # 0
               PROVE  j = k
    BY DEF CalledOnce
  <2>1. CASE j = 1 \/ k = 1  BY <1>1, <1>2, <2>1 DEF Callbacks
  <2>2. CASE j # 1 /\ k # 1
    <3>1. j - 1 = k - 1 /\ j \in Nat /\ k \in Nat  BY <1>2, <2>2 DEF CalledOnce
    <3> QED  BY <3>1
  <2> QED  BY <2>1, <2>2
<1>4. Callbacks(r) \subseteq Callbacks(s) \cup ({f.callback.n} \ {0})  BY <1>1, <1>2 DEF Callbacks
<1>5. Callbacks(s) \cup ({f.callback.n} \ {0}) \subseteq Callbacks(r)
  <2>1. 1 \in DOMAIN r /\ r[1].callback.n = f.callback.n  BY <1>1
  <2>2. \A k \in DOMAIN s : k + 1 \in DOMAIN r /\ r[k + 1].callback.n = s[k].callback.n  BY <1>1
  <2> QED  BY <2>1, <2>2 DEF Callbacks
<1> QED  BY <1>3, <1>4, <1>5 DEF r

LEMMA CallsOfTail ==
  ASSUME NEW s \in Seq(FrameRecord), s # <<>>, CalledOnce(s)
  PROVE  /\ CalledOnce(Tail(s)) /\ Callbacks(Tail(s)) = Callbacks(s) \ {Head(s).callback.n}
         /\ Head(s).callback.n # 0 => Head(s).callback.n \in Callbacks(s)
<1> DEFINE r == Tail(s)
<1>1. /\ Len(s) \in Nat \ {0} /\ Head(s) = s[1]
      /\ \A k \in 1..(Len(s) - 1) : r[k] = s[k + 1]
      /\ DOMAIN r = 1..(Len(s) - 1) /\ DOMAIN s = 1..Len(s)
  BY FirstAndTail
<1> HIDE DEF r
<1>2. \A k \in DOMAIN r : k + 1 \in DOMAIN s /\ r[k] = s[k + 1] /\ k + 1 # 1 /\ k \in Nat  BY <1>1
<1>3. \A k \in DOMAIN s : k # 1 => k - 1 \in DOMAIN r /\ r[k - 1] = s[k]
  <2> SUFFICES ASSUME NEW k \in DOMAIN s, k # 1  PROVE k - 1 \in DOMAIN r /\ r[k - 1] = s[k]
    OBVIOUS
  <2>1. k - 1 \in 1..(Len(s) - 1) /\ (k - 1) + 1 = k  BY <1>1
  <2> QED  BY <1>1, <2>1
<1>4. CalledOnce(r)
  <2> SUFFICES ASSUME NEW j \in DOMAIN r, NEW k \in DOMAIN r,
                      r[j].callback.n = r[k].callback.n, r[j].callback.n # 0
               PROVE  j = k
    BY DEF CalledOnce
  <2>1. j + 1 = k + 1 /\ j \in Nat /\ k \in Nat  BY <1>2 DEF CalledOnce
  <2> QED  BY <2>1
<1>5. 1 \in DOMAIN s  BY <1>1
<1>6. Callbacks(r) \subseteq Callbacks(s) \ {s[1].callback.n}  BY <1>2, <1>5 DEF Callbacks, CalledOnce
<1>7. Callbacks(s) \ {s[1].callback.n} \subseteq Callbacks(r)  BY <1>3 DEF Callbacks
<1>8. s[1].callback.n # 0 => s[1].callback.n \in Callbacks(s)  BY <1>5 DEF Callbacks
<1> QED  BY <1>1, <1>4, <1>6, <1>7, <1>8 DEF r

(* A frame more, another first frame, and one less, of one stack. *)
OthersCall(t) == \A u \in PoolThread \ {t} : stack'[u] = stack[u]

CallsSame == \A u \in PoolThread : CalledOnce(stack'[u]) /\ Callbacks(stack'[u]) = Callbacks(stack[u])

LEMMA ReplacedCalls ==
  ASSUME PoolTypes, NEW t \in PoolThread, stack[t] # <<>>, NEW f \in FrameRecord,
         CalledOnce(stack[t]), f.callback.n # 0 => f.callback.n \notin Callbacks(stack[t]),
         stack' = [stack EXCEPT ![t] = <<f>> \o Tail(@)]
  PROVE  /\ OthersCall(t) /\ CalledOnce(stack'[t])
         /\ Callbacks(stack'[t]) = (Callbacks(stack[t]) \ {Top(t).callback.n}) \cup ({f.callback.n} \ {0})
         /\ Top(t).callback.n # 0 => Top(t).callback.n \in Callbacks(stack[t])
<1>1. stack \in [PoolThread -> Stacks] /\ stack[t] \in Seq(FrameRecord)  BY TypedStack DEF PoolTypes
<1>2. OthersCall(t) /\ stack'[t] = <<f>> \o Tail(stack[t])  BY <1>1 DEF OthersCall
<1> DEFINE s == stack[t]
           r == Tail(s)
<1>3. /\ CalledOnce(r) /\ Callbacks(r) = Callbacks(s) \ {Head(s).callback.n} /\ r \in Seq(FrameRecord)
      /\ Head(s).callback.n # 0 => Head(s).callback.n \in Callbacks(s)
  BY <1>1, CallsOfTail, FirstAndTail
<1>4. Head(s) = Top(t)  BY DEF Top
<1>5. stack'[t] = <<f>> \o r  BY <1>2
<1> HIDE DEF r
<1>6. CalledOnce(<<f>> \o r) /\ Callbacks(<<f>> \o r) = Callbacks(r) \cup ({f.callback.n} \ {0})
  BY <1>3, CallsPrepended
<1> QED  BY <1>2, <1>3, <1>4, <1>5, <1>6

LEMMA PushedCalls ==
  ASSUME PoolTypes, CleanupInv, NEW t \in PoolThread, NEW f \in FrameRecord,
         f.callback = NoCleanup, stack' = [stack EXCEPT ![t] = <<f>> \o @]
  PROVE  CallsSame
<1>1. stack \in [PoolThread -> Stacks] /\ stack[t] \in Seq(FrameRecord)  BY TypedStack DEF PoolTypes
<1>2. OthersCall(t) /\ stack'[t] = <<f>> \o stack[t]  BY <1>1 DEF OthersCall
<1>3. f.callback.n = 0  BY DEF NoCleanup
<1>4. \A u \in PoolThread : CalledOnce(stack[u])  BY DEF CleanupInv, CallsOnce
<1> DEFINE s == stack[t]
<1> HIDE DEF s
<1>5. CalledOnce(<<f>> \o s) /\ Callbacks(<<f>> \o s) = Callbacks(s) \cup ({f.callback.n} \ {0})
  BY <1>1, <1>3, <1>4, CallsPrepended DEF s
<1>6. CalledOnce(stack'[t]) /\ Callbacks(stack'[t]) = Callbacks(stack[t])  BY <1>2, <1>3, <1>5 DEF s
<1> QED  BY <1>2, <1>4, <1>6 DEF CallsSame, OthersCall

LEMMA WorkedCalls ==
  ASSUME PoolTypes, CleanupInv, NEW t \in PoolThread, stack[t] # <<>>, Top(t).callback = NoCleanup,
         NEW f \in FrameRecord, f.callback = NoCleanup, stack' = [stack EXCEPT ![t] = <<f>> \o Tail(@)]
  PROVE  CallsSame
<1>1. f.callback.n = 0 /\ Top(t).callback.n = 0  BY DEF NoCleanup
<1>2. \A u \in PoolThread : CalledOnce(stack[u])  BY DEF CleanupInv, CallsOnce
<1>3. /\ OthersCall(t) /\ CalledOnce(stack'[t])
      /\ Callbacks(stack'[t]) = (Callbacks(stack[t]) \ {Top(t).callback.n}) \cup ({f.callback.n} \ {0})
  BY <1>1, <1>2, ReplacedCalls
<1>4. 0 \notin Callbacks(stack[t])  BY DEF Callbacks
<1>5. Callbacks(stack'[t]) = Callbacks(stack[t])  BY <1>1, <1>3, <1>4
<1> QED  BY <1>2, <1>3, <1>5 DEF CallsSame, OthersCall

LEMMA PoppedCalls ==
  ASSUME PoolTypes, CleanupInv, NEW t \in PoolThread, stack[t] # <<>>,
         Top(t).callback = NoCleanup, stack' = [stack EXCEPT ![t] = Tail(@)]
  PROVE  CallsSame
<1>1. stack \in [PoolThread -> Stacks] /\ stack[t] \in Seq(FrameRecord)  BY TypedStack DEF PoolTypes
<1>2. OthersCall(t) /\ stack'[t] = Tail(stack[t])  BY <1>1 DEF OthersCall
<1>3. Head(stack[t]).callback.n = 0  BY DEF Top, NoCleanup
<1>4. 0 \notin Callbacks(stack[t])  BY DEF Callbacks
<1>5. \A u \in PoolThread : CalledOnce(stack[u])  BY DEF CleanupInv, CallsOnce
<1>6. CalledOnce(Tail(stack[t])) /\ Callbacks(Tail(stack[t])) = Callbacks(stack[t]) \ {Head(stack[t]).callback.n}
  BY <1>1, <1>5, CallsOfTail
<1>7. CalledOnce(stack'[t]) /\ Callbacks(stack'[t]) = Callbacks(stack[t])  BY <1>2, <1>3, <1>4, <1>6
<1> QED  BY <1>2, <1>5, <1>7 DEF CallsSame, OthersCall

-----------------------------------------------------------------------------
(* The cleanups, as their registrations wait, run, end and are withdrawn.   *)

LEMMA OpenFinite ==
  ASSUME PoolTypes
  PROVE  /\ IsFiniteSet(Open) /\ Cardinality(Open) \in Nat /\ Open \subseteq 1..Len(runs)
         /\ Len(runs) \in Nat /\ 0 \notin Open
<1>1. Len(runs) \in Nat  BY DEF PoolTypes
<1>2. IsFiniteSet(1..Len(runs))  BY <1>1, FS_Interval
<1>3. Open \in SUBSET (1..Len(runs))  BY DEF Open
<1>4. IsFiniteSet(Open)  BY <1>2, <1>3, FS_Subset
<1> QED  BY <1>1, <1>3, <1>4, FS_CardinalityType

(* Some registrations are held no more, by lists and callbacks alike. *)
LEMMA FewerCleanups ==
  ASSUME CleanupInv, NEW gone, Open' = Open \ gone,
         \A c \in Control, list \in CleanupLists :
           NamesOnce(pool'[c][list]) /\ Names(pool'[c][list]) = Waits(c, list) \ gone,
         \A t \in PoolThread : CalledOnce(stack'[t]) /\ Callbacks(stack'[t]) = Calling(t) \ gone,
         \A n \in 1..Len(runs') : runs'[n] \in {0, 1},
         killed' \subseteq 1..Len(runs'), \A n \in killed' : runs'[n] = 0,
         entries' = Cardinality(Open'), entries' <= CleanupCapacity
  PROVE  CleanupInv'
<1>1. \A c \in Control, list \in CleanupLists :
        NamesOnce(pool[c][list])' /\ Waits(c, list)' = Waits(c, list) \ gone
  BY DEF Waits
<1>2. \A t \in PoolThread : CallsOnce(t)' /\ Calling(t)' = Calling(t) \ gone  BY DEF CallsOnce, Calling
<1>3. \A c \in Control, list \in CleanupLists : Waits(c, list)' \subseteq Open'  BY <1>1 DEF CleanupInv
<1>4. \A t \in PoolThread : Calling(t)' \subseteq Open'  BY <1>2 DEF CleanupInv
<1>5. \A n \in Open' :
       \/ \E c \in Control, list \in CleanupLists : n \in Waits(c, list)'
       \/ \E t \in PoolThread : n \in Calling(t)'
  <2> SUFFICES ASSUME NEW n \in Open'
               PROVE  \/ \E c \in Control, list \in CleanupLists : n \in Waits(c, list)'
                      \/ \E t \in PoolThread : n \in Calling(t)'
    OBVIOUS
  <2>1. n \in Open /\ n \notin gone  OBVIOUS
  <2>2. \/ \E c \in Control, list \in CleanupLists : n \in Waits(c, list)
        \/ \E t \in PoolThread : n \in Calling(t)
    BY <2>1 DEF CleanupInv
  <2> QED  BY <1>1, <1>2, <2>1, <2>2
<1>6. \A c, d \in Control : \A l, m \in CleanupLists :
        c # d \/ l # m => Waits(c, l)' \cap Waits(d, m)' = {}
  <2> SUFFICES ASSUME NEW c \in Control, NEW d \in Control, NEW l \in CleanupLists,
                      NEW m \in CleanupLists, c # d \/ l # m
               PROVE  Waits(c, l)' \cap Waits(d, m)' = {}
    OBVIOUS
  <2>1. Waits(c, l) \cap Waits(d, m) = {}  BY DEF CleanupInv
  <2> QED  BY <1>1, <2>1
<1>7. \A t, u \in PoolThread : t # u => Calling(t)' \cap Calling(u)' = {}
  BY <1>2 DEF CleanupInv
<1>8. \A c \in Control, list \in CleanupLists, t \in PoolThread :
        Waits(c, list)' \cap Calling(t)' = {}
  BY <1>1, <1>2 DEF CleanupInv
<1> QED  BY <1>1, <1>2, <1>3, <1>4, <1>5, <1>6, <1>7, <1>8 DEF CleanupInv

(* No cleanup is registered, runs or goes. *)
LEMMA SameCleanups ==
  ASSUME PoolTypes, CleanupInv, ListsSame, UNCHANGED cleanupVars, CallsSame
  PROVE  CleanupInv'
<1>1. UNCHANGED <<entries, runs, killed>>  BY DEF cleanupVars
<1>2. Open' = Open \ {}  BY <1>1 DEF Open
<1>3. \A c \in Control, list \in CleanupLists : pool'[c][list] = pool[c][list]
  BY DEF ListsSame, CleanupLists
<1>4. \A c \in Control, list \in CleanupLists :
        NamesOnce(pool'[c][list]) /\ Names(pool'[c][list]) = Waits(c, list) \ {}
  BY <1>3 DEF Waits, CleanupInv
<1>5. \A t \in PoolThread : CalledOnce(stack'[t]) /\ Callbacks(stack'[t]) = Calling(t) \ {}
  BY DEF Calling, CallsSame
<1>6. /\ \A n \in 1..Len(runs') : runs'[n] \in {0, 1}
      /\ killed' \subseteq 1..Len(runs') /\ \A n \in killed' : runs'[n] = 0
      /\ entries' = Cardinality(Open') /\ entries' <= CleanupCapacity
  BY <1>1, <1>2 DEF CleanupInv
<1> QED  BY <1>2, <1>4, <1>5, <1>6, FewerCleanups

LEMMA CallbackReturnsCleanups ==
  ASSUME PoolShape, CleanupInv, NEW t \in PoolThread, CallbackReturns(t)
  PROVE  CleanupInv'
<1> DEFINE f == [Top(t) EXCEPT !.callback = NoCleanup]
<1>1. stack[t] # <<>> /\ Top(t).callback # NoCleanup  BY DEF CallbackReturns, InCallback
<1>2. UNCHANGED <<pool, killed>> /\ entries' = entries - 1  BY DEF CallbackReturns
<1>3. /\ PoolTypes /\ Top(t) \in FrameRecord  BY <1>1, WorkingFrame
<1>4. f \in FrameRecord /\ f.callback = NoCleanup  BY <1>3, FrameCalls
<1>5. Top(t).callback \in Cleanup  BY <1>1, <1>3 DEF FrameRecord
<1>6. Top(t).callback.n \in Nat \ {0}  BY <1>5 DEF Cleanup
<1> PICK n \in Nat \ {0} : n = Top(t).callback.n  BY <1>6
<1>7. stack' = [stack EXCEPT ![t] = <<f>> \o Tail(@)] /\ runs' = [runs EXCEPT ![n] = @ + 1]
  BY DEF CallbackReturns
<1> HIDE DEF f
<1>8. f.callback.n = 0  BY <1>4 DEF NoCleanup
<1>9. CalledOnce(stack[t])  BY DEF CleanupInv, CallsOnce
<1>10. /\ OthersCall(t) /\ CalledOnce(stack'[t])
       /\ Callbacks(stack'[t]) = (Callbacks(stack[t]) \ {Top(t).callback.n}) \cup ({f.callback.n} \ {0})
       /\ Top(t).callback.n # 0 => Top(t).callback.n \in Callbacks(stack[t])
  BY <1>1, <1>3, <1>4, <1>7, <1>8, <1>9, ReplacedCalls
<1>11. Callbacks(stack'[t]) = Calling(t) \ {n} /\ n \in Calling(t)  BY <1>8, <1>10 DEF Calling
<1>12. n \in Open /\ n \in 1..Len(runs) /\ runs[n] = 0 /\ n \notin killed
  BY <1>11 DEF CleanupInv, Open
<1>13. \A u \in PoolThread : CalledOnce(stack'[u]) /\ Callbacks(stack'[u]) = Calling(u) \ {n}
  <2>1. \A u \in PoolThread \ {t} : n \notin Calling(u)  BY <1>11 DEF CleanupInv
  <2> QED  BY <1>10, <1>11, <2>1 DEF OthersCall, Calling, CleanupInv, CallsOnce
<1>14. \A c \in Control, list \in CleanupLists :
         NamesOnce(pool'[c][list]) /\ Names(pool'[c][list]) = Waits(c, list) \ {n}
  <2>1. \A c \in Control, list \in CleanupLists : n \notin Waits(c, list)  BY <1>11 DEF CleanupInv
  <2> QED  BY <1>2, <2>1 DEF Waits, CleanupInv
<1>15. Len(runs') = Len(runs) /\ \A k \in 1..Len(runs) : runs'[k] = IF k = n THEN runs[k] + 1 ELSE runs[k]
  <2>1. runs \in Seq(Nat)  BY <1>3 DEF PoolTypes
  <2> QED  BY <1>7, <2>1, OneMore
<1>16. Open' = Open \ {n}  BY <1>2, <1>12, <1>15 DEF Open
<1>17. /\ \A k \in 1..Len(runs') : runs'[k] \in {0, 1}
       /\ killed' \subseteq 1..Len(runs') /\ \A k \in killed' : runs'[k] = 0
  BY <1>2, <1>12, <1>15 DEF CleanupInv
<1>18. entries' = Cardinality(Open') /\ entries' <= CleanupCapacity
  <2>1. IsFiniteSet(Open) /\ Cardinality(Open) \in Nat  BY <1>3, OpenFinite
  <2>2. Cardinality(Open \ {n}) = Cardinality(Open) - 1  BY <1>12, <2>1, FS_RemoveElement
  <2>3. entries = Cardinality(Open) /\ entries <= CleanupCapacity  BY DEF CleanupInv
  <2> QED  BY <1>2, <1>16, <2>1, <2>2, <2>3, PoolsAssumption
<1> QED  BY <1>13, <1>14, <1>16, <1>17, <1>18, FewerCleanups

LEMMA KillCleanups ==
  ASSUME PoolShape, CleanupInv, NEW t \in PoolThread, NEW c \in Control, Kill(t, c)
  PROVE  CleanupInv'
<1>1. PoolTypes /\ UNCHANGED <<stack, runs>>  BY DEF PoolShape, Kill, callVars
<1>2. PICK d \in Data : KillMoves(c, d)  BY <1>1, KilledMoves
<1> DEFINE gone == KilledBy(c, d)
<1>3. ASSUME NEW m \in CleanupLists
      PROVE  /\ NamesOnce(pool'[c][m]) /\ Names(pool'[c][m]) = Waits(c, m) \ Withdrawn(c, m, d)
             /\ Withdrawn(c, m, d) \subseteq Waits(c, m)
  <2> DEFINE s == pool[c][m]
  <2>1. s \in Seq(Cleanup) /\ NamesOnce(s)  BY <1>1, TypedList DEF CleanupInv
  <2>2. pool'[c][m] = Without(s, d)  BY <1>2 DEF KillMoves
  <2>3. Waits(c, m) = Names(s) /\ Withdrawn(c, m, d) = {s[k].n : k \in First(s, d)}
    BY DEF Waits, Withdrawn
  <2> HIDE DEF s
  <2>4. /\ NamesOnce(Without(s, d))
        /\ Names(Without(s, d)) = Names(s) \ {s[k].n : k \in First(s, d)}
        /\ \/ {s[k].n : k \in First(s, d)} = {}
           \/ \E n \in Names(s) : {s[k].n : k \in First(s, d)} = {n}
    BY <2>1, NamesWithout
  <2> QED  BY <2>2, <2>3, <2>4
<1>4. /\ "cleanups" \in CleanupLists /\ "pre_cleanups" \in CleanupLists
      /\ gone = Withdrawn(c, "cleanups", d) \cup Withdrawn(c, "pre_cleanups", d)
      /\ \A m \in CleanupLists : m = "cleanups" \/ m = "pre_cleanups"
  BY DEF KilledBy, CleanupLists
<1>5. killed' = killed \cup gone /\ entries' = entries - Cardinality(gone)  BY <1>2 DEF KillMoves
<1> HIDE DEF gone
<1>6. gone \subseteq Waits(c, "cleanups") \cup Waits(c, "pre_cleanups")  BY <1>3, <1>4
<1>7. gone \subseteq Open  BY <1>4, <1>6 DEF CleanupInv
<1>8. \A m \in CleanupLists : Waits(c, m) \ Withdrawn(c, m, d) = Waits(c, m) \ gone
  <2>1. Waits(c, "cleanups") \cap Waits(c, "pre_cleanups") = {}  BY <1>4 DEF CleanupInv
  <2>2. /\ Withdrawn(c, "cleanups", d) \subseteq Waits(c, "cleanups")
        /\ Withdrawn(c, "pre_cleanups", d) \subseteq Waits(c, "pre_cleanups")
    BY <1>3, <1>4
  <2> QED  BY <1>4, <2>1, <2>2
<1>9. ASSUME NEW e \in Control, NEW m \in CleanupLists
      PROVE  NamesOnce(pool'[e][m]) /\ Names(pool'[e][m]) = Waits(e, m) \ gone
  <2>1. CASE e = c  BY <1>3, <1>8, <2>1
  <2>2. CASE e # c
    <3>1. pool'[e] = pool[e]  BY <1>2, <2>2 DEF KillMoves, OtherPools
    <3>2. \A l \in CleanupLists : Waits(e, m) \cap Waits(c, l) = {}  BY <2>2 DEF CleanupInv
    <3>3. Waits(e, m) \cap gone = {}  BY <1>4, <1>6, <3>2
    <3> QED  BY <3>1, <3>3 DEF Waits, CleanupInv
  <2> QED  BY <2>1, <2>2
<1>10. \A u \in PoolThread : CalledOnce(stack'[u]) /\ Callbacks(stack'[u]) = Calling(u) \ gone
  <2>1. \A u \in PoolThread, m \in CleanupLists : Calling(u) \cap Waits(c, m) = {}  BY DEF CleanupInv
  <2>2. \A u \in PoolThread : Calling(u) \cap gone = {}  BY <1>4, <1>6, <2>1
  <2> QED  BY <1>1, <2>2 DEF Calling, CleanupInv, CallsOnce
<1>11. Open' = Open \ gone  BY <1>1, <1>5 DEF Open
<1>12. /\ \A n \in 1..Len(runs') : runs'[n] \in {0, 1}
       /\ killed' \subseteq 1..Len(runs') /\ \A n \in killed' : runs'[n] = 0
  <2>1. gone \subseteq 1..Len(runs) /\ \A n \in gone : runs[n] = 0  BY <1>7 DEF Open
  <2> QED  BY <1>1, <1>5, <2>1 DEF CleanupInv
<1>13. entries' = Cardinality(Open') /\ entries' <= CleanupCapacity
  <2>1. IsFiniteSet(Open) /\ Cardinality(Open) \in Nat  BY <1>1, OpenFinite
  <2>2. IsFiniteSet(gone)  BY <1>7, <2>1, FS_Subset
  <2>3. Cardinality(gone) \in Nat  BY <2>2, FS_CardinalityType
  <2>4. Open \cap gone = gone  BY <1>7
  <2>5. Cardinality(Open \ gone) = Cardinality(Open) - Cardinality(gone)
    BY <2>1, <2>4, FS_Difference
  <2>6. entries = Cardinality(Open) /\ entries <= CleanupCapacity  BY DEF CleanupInv
  <2> QED  BY <1>5, <1>11, <2>1, <2>3, <2>5, <2>6, PoolsAssumption
<1> QED  BY <1>9, <1>10, <1>11, <1>12, <1>13, FewerCleanups

(* A cleanup more waits. *)
LEMMA RegisteredCleanups ==
  ASSUME PoolTypes, CleanupInv, NEW c \in Control, NEW list \in CleanupLists, NEW d \in Data,
         RegisterMoves(c, list, d), UNCHANGED <<stack, killed>>
  PROVE  CleanupInv'
<1>1. CASE pool'[c][list] = pool[c][list] /\ UNCHANGED <<entries, runs>>
  <2>1. \A e \in Control, m \in CleanupLists : pool'[e][m] = pool[e][m]
    BY <1>1 DEF RegisterMoves, OtherPools
  <2>2. \A e \in Control, m \in CleanupLists :
          NamesOnce(pool'[e][m]) /\ Names(pool'[e][m]) = Waits(e, m) \ {}
    BY <2>1 DEF Waits, CleanupInv
  <2>3. \A u \in PoolThread : CalledOnce(stack'[u]) /\ Callbacks(stack'[u]) = Calling(u) \ {}
    BY DEF Calling, CleanupInv, CallsOnce
  <2>4. Open' = Open \ {}  BY <1>1 DEF Open
  <2>5. /\ \A n \in 1..Len(runs') : runs'[n] \in {0, 1}
        /\ killed' \subseteq 1..Len(runs') /\ \A n \in killed' : runs'[n] = 0
        /\ entries' = Cardinality(Open') /\ entries' <= CleanupCapacity
    BY <1>1, <2>4 DEF CleanupInv
  <2> QED  BY <2>2, <2>3, <2>4, <2>5, FewerCleanups
<1>2. CASE /\ pool'[c][list] = <<[n |-> Len(runs) + 1, data |-> d]>> \o pool[c][list]
           /\ entries < CleanupCapacity /\ entries' = entries + 1 /\ runs' = Append(runs, 0)
  <2> DEFINE s == pool[c][list]
  <2>1. Len(runs) \in Nat /\ runs \in Seq(Nat) /\ s \in Seq(Cleanup) /\ NamesOnce(s) /\ Waits(c, list) = Names(s)
    BY TypedList DEF PoolTypes, Waits, CleanupInv
  <2> PICK n \in Nat \ {0} : n = Len(runs) + 1  BY <2>1
  <2> DEFINE e == [n |-> n, data |-> d]
  <2>2. /\ Len(runs') = n /\ runs'[n] = 0 /\ \A k \in 1..Len(runs) : runs'[k] = runs[k]
        /\ 1..n = 1..Len(runs) \cup {n} /\ n \notin 1..Len(runs)
    BY <1>2, <2>1
  <2>3. n \notin Open /\ n \notin killed  BY <2>2 DEF Open, CleanupInv
  <2>4. Open' = Open \cup {n}  BY <2>2, <2>3 DEF Open
  <2>5. /\ \A g \in Control, m \in CleanupLists : n \notin Waits(g, m)
        /\ \A u \in PoolThread : n \notin Calling(u)
    BY <2>3 DEF CleanupInv
  <2>6. NamesOnce(pool'[c][list]) /\ Names(pool'[c][list]) = Waits(c, list) \cup {n}
    <3>1. e \in Cleanup /\ e.n = n  BY DEF Cleanup
    <3>2. pool'[c][list] = <<e>> \o s  BY <1>2
    <3> HIDE DEF e, s
    <3>3. e.n \notin Names(s)  BY <2>1, <2>5, <3>1
    <3> QED  BY <2>1, <3>1, <3>2, <3>3, NamesPrepended
  <2>7. \A g \in Control, m \in CleanupLists :
          g # c \/ m # list => pool'[g][m] = pool[g][m]
    BY DEF RegisterMoves, OtherPools
  <2>8. /\ NamesOnce(pool[c][list])' /\ Waits(c, list)' = Waits(c, list) \cup {n}
        /\ \A g \in Control, m \in CleanupLists :
             g # c \/ m # list => NamesOnce(pool[g][m])' /\ Waits(g, m)' = Waits(g, m)
    BY <2>6, <2>7 DEF Waits, CleanupInv
  <2>9. \A u \in PoolThread : CallsOnce(u)' /\ Calling(u)' = Calling(u)
    BY DEF CallsOnce, Calling, CleanupInv
  <2>10. /\ \A g \in Control, m \in CleanupLists : NamesOnce(pool[g][m])' /\ Waits(g, m)' \subseteq Open'
         /\ \A u \in PoolThread : Calling(u)' \subseteq Open'
    BY <2>4, <2>8, <2>9 DEF CleanupInv
  <2>11. \A k \in Open' :
           \/ \E g \in Control, m \in CleanupLists : k \in Waits(g, m)'
           \/ \E u \in PoolThread : k \in Calling(u)'
    <3> SUFFICES ASSUME NEW k \in Open'
                 PROVE  \/ \E g \in Control, m \in CleanupLists : k \in Waits(g, m)'
                        \/ \E u \in PoolThread : k \in Calling(u)'
      OBVIOUS
    <3>1. CASE k = n  BY <2>8, <3>1
    <3>2. CASE k # n
      <4>1. \/ \E g \in Control, m \in CleanupLists : k \in Waits(g, m)
            \/ \E u \in PoolThread : k \in Calling(u)
        BY <2>4, <3>2 DEF CleanupInv
      <4> QED  BY <2>8, <2>9, <4>1
    <3> QED  BY <3>1, <3>2
  <2>12. \A g, h \in Control : \A l, m \in CleanupLists :
           g # h \/ l # m => Waits(g, l)' \cap Waits(h, m)' = {}
    <3> SUFFICES ASSUME NEW g \in Control, NEW h \in Control, NEW l \in CleanupLists,
                        NEW m \in CleanupLists, g # h \/ l # m
                 PROVE  Waits(g, l)' \cap Waits(h, m)' = {}
      OBVIOUS
    <3>1. Waits(g, l) \cap Waits(h, m) = {}  BY DEF CleanupInv
    <3> QED  BY <2>5, <2>8, <3>1
  <2>13. \A u, v \in PoolThread : u # v => Calling(u)' \cap Calling(v)' = {}
    BY <2>9 DEF CleanupInv
  <2>14. \A g \in Control, m \in CleanupLists, u \in PoolThread : Waits(g, m)' \cap Calling(u)' = {}
    BY <2>5, <2>8, <2>9 DEF CleanupInv
  <2>15. /\ \A k \in 1..Len(runs') : runs'[k] \in {0, 1}
         /\ killed' \subseteq 1..Len(runs') /\ \A k \in killed' : runs'[k] = 0
    <3>1. /\ killed \subseteq 1..Len(runs) /\ \A k \in killed : runs[k] = 0
          /\ \A k \in 1..Len(runs) : runs[k] \in {0, 1}
      BY DEF CleanupInv
    <3> QED  BY <2>2, <3>1
  <2>16. entries' = Cardinality(Open') /\ entries' <= CleanupCapacity
    <3>1. IsFiniteSet(Open) /\ Cardinality(Open) \in Nat  BY OpenFinite
    <3>2. Cardinality(Open \cup {n}) = Cardinality(Open) + 1  BY <2>3, <3>1, FS_AddElement
    <3>3. entries = Cardinality(Open)  BY DEF CleanupInv
    <3> QED  BY <1>2, <2>4, <3>1, <3>2, <3>3, PoolsAssumption
  <2> QED  BY <2>9, <2>10, <2>11, <2>12, <2>13, <2>14, <2>15, <2>16 DEF CleanupInv
<1> QED  BY <1>1, <1>2 DEF RegisterMoves

(* The first cleanup of a list goes to the frame that runs it. *)
LEMMA RunCleanupCleanups ==
  ASSUME PoolShape, CleanupInv, NEW t \in PoolThread, RunCleanup(t)
  PROVE  CleanupInv'
<1>1. stack[t] # <<>> /\ Top(t).callback = NoCleanup /\ Top(t).at \in CleanupLists
  BY DEF RunCleanup, Works, InCallback, CleanupLists
<1>2. UNCHANGED <<entries, runs, killed>>  BY DEF RunCleanup, cleanupVars
<1>3. PoolTypes /\ Top(t) \in FrameRecord /\ Top(t).c \in Control  BY <1>1, WorkingFrame
<1>4. CalledOnce(stack[t]) /\ Top(t).callback.n = 0  BY <1>1 DEF CleanupInv, CallsOnce, NoCleanup
<1> PICK c \in Control : c = Top(t).c  BY <1>3
<1> PICK list \in CleanupLists : list = Top(t).at  BY <1>1
<1>5. CASE /\ pool[c][list] = <<>>
           /\ At(t, IF list = "pre_cleanups" THEN "children" ELSE "memory")
           /\ UNCHANGED pool
  <2> DEFINE at_next == IF list = "pre_cleanups" THEN "children" ELSE "memory"
             f == [Top(t) EXCEPT !.at = at_next]
  <2>1. f \in FrameRecord /\ f.callback = NoCleanup
    <3>1. at_next \in {"pre_cleanups", "children", "cleanups", "memory", "detach"}  OBVIOUS
    <3> HIDE DEF at_next
    <3> QED  BY <1>1, <1>3, <3>1, FrameAt
  <2>2. stack' = [stack EXCEPT ![t] = <<f>> \o Tail(@)]  BY <1>5 DEF At
  <2> HIDE DEF f
  <2>3. CallsSame  BY <1>1, <1>3, <2>1, <2>2, WorkedCalls
  <2>4. ListsSame  BY <1>5 DEF ListsSame
  <2> QED  BY <1>2, <1>3, <2>3, <2>4, SameCleanups DEF cleanupVars
<1>6. CASE /\ pool[c][list] # <<>>
           /\ pool' = [pool EXCEPT ![c][list] = AfterFirst(@)]
           /\ stack' = [stack EXCEPT ![t] = <<[Top(t) EXCEPT !.callback = Head(pool[c][list])]>> \o Tail(@)]
  <2> DEFINE s == pool[c][list]
             h == Head(s)
             v == Tail(s)
             f == [Top(t) EXCEPT !.callback = h]
  <2>1. s \in Seq(Cleanup) /\ NamesOnce(s) /\ s # <<>> /\ Waits(c, list) = Names(s)
    BY <1>3, <1>6, TypedList DEF CleanupInv, Waits
  <2>2. pool' = [pool EXCEPT ![c][list] = v] /\ stack' = [stack EXCEPT ![t] = <<f>> \o Tail(@)]
    BY <1>6 DEF AfterFirst
  <2>3. /\ NamesOnce(v) /\ Names(v) = Names(s) \ {h.n} /\ h \in Cleanup /\ h.n \in Names(s)
        /\ v \in Lists
    <3> HIDE DEF s
    <3> QED  BY <2>1, NamesOfTail, FirstAndTail DEF Lists
  <2> HIDE DEF v
  <2>4. /\ pool'[c][list] = v /\ \A m \in CleanupLists \ {list} : pool'[c][m] = pool[c][m]
        /\ \A g \in Control \ {c} : pool'[g] = pool[g]
    <3>1. pool' = WithList(pool, c, list, v) /\ pool \in [Control -> PoolRecord]
      BY <1>3, <2>2 DEF WithList, PoolTypes
    <3> QED  BY <2>3, <3>1, ListPut
  <2> HIDE DEF h
  <2>5. f \in FrameRecord /\ f.callback = h
    <3>1. h \in Cleanup \cup {NoCleanup}  BY <2>3
    <3> QED  BY <1>3, <3>1, FrameCalls
  <2> HIDE DEF f, s
  <2>6. h.n \in Nat \ {0}  BY <2>3 DEF Cleanup
  <2> PICK n \in Nat \ {0} : n = h.n  BY <2>6
  <2>7. n \in Waits(c, list) /\ n \in Open
    BY <2>1, <2>3 DEF CleanupInv
  <2>8. \A u \in PoolThread : n \notin Calling(u)  BY <2>7 DEF CleanupInv
  <2>9. \A g \in Control, m \in CleanupLists : g # c \/ m # list => n \notin Waits(g, m)
    BY <2>7 DEF CleanupInv
  <2>10. /\ OthersCall(t) /\ CalledOnce(stack'[t])
         /\ Callbacks(stack'[t]) = (Callbacks(stack[t]) \ {Top(t).callback.n}) \cup ({f.callback.n} \ {0})
    <3>1. f.callback.n \notin Callbacks(stack[t])  BY <2>5, <2>8 DEF Calling
    <3> QED  BY <1>1, <1>3, <1>4, <2>2, <2>5, <3>1, ReplacedCalls
  <2>11. /\ CallsOnce(t)' /\ Calling(t)' = Calling(t) \cup {n}
         /\ \A u \in PoolThread \ {t} : CallsOnce(u)' /\ Calling(u)' = Calling(u)
    <3>1. 0 \notin Callbacks(stack[t])  BY DEF Callbacks
    <3>2. Callbacks(stack'[t]) = Callbacks(stack[t]) \cup {n}  BY <1>4, <2>5, <2>10, <3>1
    <3> QED  BY <2>10, <3>2 DEF OthersCall, Calling, CallsOnce, CleanupInv
  <2>12. /\ NamesOnce(pool[c][list])' /\ Waits(c, list)' = Waits(c, list) \ {n}
         /\ \A g \in Control, m \in CleanupLists :
              g # c \/ m # list => NamesOnce(pool[g][m])' /\ Waits(g, m)' = Waits(g, m)
    BY <2>1, <2>3, <2>4 DEF Waits, CleanupInv
  <2>13. Open' = Open  BY <1>2 DEF Open
  <2>14. /\ \A g \in Control, m \in CleanupLists : NamesOnce(pool[g][m])' /\ Waits(g, m)' \subseteq Open'
         /\ \A u \in PoolThread : CallsOnce(u)' /\ Calling(u)' \subseteq Open'
    BY <2>7, <2>11, <2>12, <2>13 DEF CleanupInv
  <2>15. \A k \in Open' :
           \/ \E g \in Control, m \in CleanupLists : k \in Waits(g, m)'
           \/ \E u \in PoolThread : k \in Calling(u)'
    <3> SUFFICES ASSUME NEW k \in Open'
                 PROVE  \/ \E g \in Control, m \in CleanupLists : k \in Waits(g, m)'
                        \/ \E u \in PoolThread : k \in Calling(u)'
      OBVIOUS
    <3>1. CASE k = n  BY <2>11, <3>1
    <3>2. CASE k # n
      <4>1. \/ \E g \in Control, m \in CleanupLists : k \in Waits(g, m)
            \/ \E u \in PoolThread : k \in Calling(u)
        BY <2>13 DEF CleanupInv
      <4>2. ASSUME NEW g \in Control, NEW m \in CleanupLists, k \in Waits(g, m)
            PROVE  k \in Waits(g, m)'
        BY <2>12, <3>2, <4>2
      <4>3. ASSUME NEW u \in PoolThread, k \in Calling(u)  PROVE k \in Calling(u)'
        BY <2>11, <4>3
      <4> QED  BY <4>1, <4>2, <4>3
    <3> QED  BY <3>1, <3>2
  <2>16. \A g, i \in Control : \A l, m \in CleanupLists :
           g # i \/ l # m => Waits(g, l)' \cap Waits(i, m)' = {}
    <3> SUFFICES ASSUME NEW g \in Control, NEW i \in Control, NEW l \in CleanupLists,
                        NEW m \in CleanupLists, g # i \/ l # m
                 PROVE  Waits(g, l)' \cap Waits(i, m)' = {}
      OBVIOUS
    <3>1. Waits(g, l) \cap Waits(i, m) = {}  BY DEF CleanupInv
    <3>2. Waits(g, l)' \subseteq Waits(g, l) /\ Waits(i, m)' \subseteq Waits(i, m)  BY <2>12
    <3> QED  BY <3>1, <3>2
  <2>17. \A u, w \in PoolThread : u # w => Calling(u)' \cap Calling(w)' = {}
    BY <2>8, <2>11 DEF CleanupInv
  <2>18. \A g \in Control, m \in CleanupLists, u \in PoolThread : Waits(g, m)' \cap Calling(u)' = {}
    <3> SUFFICES ASSUME NEW g \in Control, NEW m \in CleanupLists, NEW u \in PoolThread
                 PROVE  Waits(g, m)' \cap Calling(u)' = {}
      OBVIOUS
    <3>1. Waits(g, m) \cap Calling(u) = {}  BY DEF CleanupInv
    <3>2. Waits(g, m)' \subseteq Waits(g, m) \ {n}  BY <2>9, <2>12
    <3>3. Calling(u)' \subseteq Calling(u) \cup {n}  BY <2>11
    <3> QED  BY <3>1, <3>2, <3>3
  <2>19. /\ \A k \in 1..Len(runs') : runs'[k] \in {0, 1}
         /\ killed' \subseteq 1..Len(runs') /\ \A k \in killed' : runs'[k] = 0
         /\ entries' = Cardinality(Open') /\ entries' <= CleanupCapacity
    BY <1>2, <2>13 DEF CleanupInv
  <2> QED  BY <2>14, <2>15, <2>16, <2>17, <2>18, <2>19 DEF CleanupInv
<1> QED  BY <1>5, <1>6 DEF RunCleanup

(* A step of a clear, a destroy or the end of the library, of no cleanup. *)
LEMMA OtherCleanups ==
  ASSUME PoolShape, CleanupInv, NEW t \in PoolThread,
         \/ DestroyChildren(t) \/ ReleaseMemory(t) \/ Detach(t) \/ TerminateNext(t)
         \/ \E c \in Control : ClearPool(t, c) \/ DestroyPool(t, c)
  PROVE  CleanupInv'
<1>0. PoolTypes  BY DEF PoolShape
<1>1. UNCHANGED cleanupVars
  BY DEF DestroyChildren, ReleaseMemory, Detach, TerminateNext, ClearPool, DestroyPool
<1>2. ListsSame
  <2>1. CASE Detach(t)  BY <2>1, DetachLists
  <2>2. CASE ReleaseMemory(t)
    <3>1. stack[t] # <<>>  BY <2>2 DEF ReleaseMemory, Works
    <3>2. Top(t).c \in Control  BY <3>1, WorkingFrame
    <3> PICK c \in Control : c = Top(t).c  BY <3>2
    <3>3. /\ pool'[c].cleanups = pool[c].cleanups /\ pool'[c].pre_cleanups = pool[c].pre_cleanups
          /\ OtherPools(c)
      BY <2>2, ReleaseMoves
    <3> QED  BY <3>3 DEF ListsSame, OtherPools
  <2>3. CASE UNCHANGED pool  BY <2>3 DEF ListsSame
  <2> QED  BY <2>1, <2>2, <2>3 DEF DestroyChildren, TerminateNext, ClearPool, DestroyPool
<1>3. \/ UNCHANGED stack
      \/ \E d \in Control, op \in {"clear", "destroy"} : stack' = [stack EXCEPT ![t] = <<Frame(d, op)>> \o @]
      \/ /\ stack[t] # <<>> /\ Top(t).callback = NoCleanup
         /\ \/ \E step \in {"pre_cleanups", "children", "cleanups", "memory", "detach"} : At(t, step)
            \/ Over(t)
  <2>1. CASE DestroyChildren(t)
    <3>1. stack[t] # <<>> /\ Top(t).callback = NoCleanup  BY <2>1 DEF DestroyChildren, Works, InCallback
    <3>2. Top(t).c \in Control  BY <3>1, WorkingFrame
    <3> DEFINE s == pool[Top(t).c].children
    <3>3. s \in Seq(Control)  BY <1>0, <3>2, TypedPool DEF Children
    <3>4. CASE s # <<>> /\ stack' = [stack EXCEPT ![t] = <<Frame(Head(s), "destroy")>> \o @]
      <4>1. Head(s) \in Control  BY <3>3, <3>4, FirstAndTail
      <4> QED  BY <3>4, <4>1
    <3>5. CASE At(t, "cleanups")  BY <3>1, <3>5
    <3> QED  BY <2>1, <3>4, <3>5 DEF DestroyChildren
  <2>2. CASE ReleaseMemory(t) \/ Detach(t)
    BY <2>2 DEF ReleaseMemory, Detach, Works, InCallback
  <2>3. CASE TerminateNext(t)
    <3>1. stack[t] = <<>>  BY <2>3 DEF TerminateNext
    <3>2. CASE RootsLeft(t) # {}
      <4> DEFINE d == Min(RootsLeft(t))
                 f == Frame(d, "destroy")
      <4>1. RootsLeft(t) \subseteq Nat  BY NoPoolIsNone DEF RootsLeft
      <4>2. d \in RootsLeft(t)  BY <3>2, <4>1, MinIsLeast
      <4>3. d \in Control  BY <4>2 DEF RootsLeft
      <4>4. stack' = [stack EXCEPT ![t] = <<f>>]  BY <2>3, <3>2 DEF TerminateNext
      <4>5. <<f>> = <<f>> \o stack[t]  BY <3>1
      <4> HIDE DEF d
      <4>6. stack' = [stack EXCEPT ![t] = <<f>> \o @]  BY <4>4, <4>5
      <4> QED  BY <4>3, <4>6
    <3>3. CASE RootsLeft(t) = {}  BY <2>3, <3>3 DEF TerminateNext
    <3> QED  BY <3>2, <3>3
  <2>4. ASSUME NEW c \in Control, ClearPool(t, c) \/ DestroyPool(t, c)
        PROVE  \E op \in {"clear", "destroy"} : stack' = [stack EXCEPT ![t] = <<Frame(c, op)>> \o @]
    <3>1. CASE DestroyPool(t, c)  BY <3>1 DEF DestroyPool
    <3>2. CASE ClearPool(t, c)
      <4> DEFINE f == Frame(c, "clear")
      <4>1. stack[t] = <<>> /\ stack' = [stack EXCEPT ![t] = <<f>>]  BY <3>2 DEF ClearPool, AtRest
      <4>2. <<f>> = <<f>> \o stack[t]  BY <4>1
      <4>3. stack' = [stack EXCEPT ![t] = <<f>> \o @]  BY <4>1, <4>2
      <4> QED  BY <4>3
    <3> QED  BY <2>4, <3>1, <3>2
  <2> QED  BY <2>1, <2>2, <2>3, <2>4
<1>4. CallsSame
  <2>1. CASE UNCHANGED stack  BY <2>1 DEF CallsSame, CleanupInv, CallsOnce
  <2>2. ASSUME NEW d \in Control, NEW op \in {"clear", "destroy"},
               stack' = [stack EXCEPT ![t] = <<Frame(d, op)>> \o @]
        PROVE  CallsSame
    <3>1. Frame(d, op) \in FrameRecord /\ Frame(d, op).callback = NoCleanup  BY FrameTyped
    <3> QED  BY <1>0, <2>2, <3>1, PushedCalls
  <2>3. ASSUME NEW step \in {"pre_cleanups", "children", "cleanups", "memory", "detach"},
               stack[t] # <<>>, Top(t).callback = NoCleanup, At(t, step)
        PROVE  CallsSame
    <3> DEFINE f == [Top(t) EXCEPT !.at = step]
    <3>0. Top(t) \in FrameRecord  BY <2>3, WorkingFrame
    <3>1. f \in FrameRecord /\ f.callback = NoCleanup  BY <2>3, <3>0, FrameAt
    <3>2. stack' = [stack EXCEPT ![t] = <<f>> \o Tail(@)]  BY <2>3 DEF At
    <3> HIDE DEF f
    <3> QED  BY <1>0, <2>3, <3>1, <3>2, WorkedCalls
  <2>4. ASSUME stack[t] # <<>>, Top(t).callback = NoCleanup, Over(t)  PROVE CallsSame
    BY <1>0, <2>4, PoppedCalls DEF Over
  <2> QED  BY <1>3, <2>1, <2>2, <2>3, <2>4
<1> QED  BY <1>0, <1>1, <1>2, <1>4, SameCleanups

(* Every registered cleanup runs once, or is killed. *)
LEMMA CleanupInvKept ==
  ASSUME PoolShape, CleanupInv, PoolsNext
  PROVE  CleanupInv'
<1>0. PoolTypes  BY DEF PoolShape
<1>1. PICK t \in PoolThread :
        \/ Ends(t) \/ Terminate(t)
        \/ Create(t, NoPool)
        \/ \E c \in Control :
             \/ Create(t, c) \/ Alloc(t, c) \/ CleanupRegister(t, c) \/ PreCleanupRegister(t, c) \/ Kill(t, c)
             \/ UserdataSet(t, c) \/ ClearPool(t, c) \/ DestroyPool(t, c)
  BY DEF PoolsNext
<1>2. CASE \/ Terminate(t) \/ \E p \in Control \cup {NoPool} : Create(t, p)
  <2>1. ListsSame  BY <1>0, <1>2, TerminateLists, CreateLists
  <2>2. UNCHANGED cleanupVars /\ UNCHANGED stack  BY <1>2 DEF Terminate, Create, callVars
  <2>3. CallsSame  BY <2>2 DEF CallsSame, CleanupInv, CallsOnce
  <2> QED  BY <1>0, <2>1, <2>2, <2>3, SameCleanups
<1>3. ASSUME NEW c \in Control, Alloc(t, c)  PROVE CleanupInv'
  <2>1. PICK size \in AllocSizes : AllocInBlock(c, size) \/ AllocRecycled(c, size) \/ AllocCarved(c, size)
    BY <1>3 DEF Alloc
  <2>2. ListsSame
    <3>1. CASE UNCHANGED pool  BY <3>1 DEF ListsSame
    <3>2. ASSUME NEW b, pool' = [pool EXCEPT ![c].blocks = <<b>> \o @]  PROVE ListsSame
      <4>1. pool \in [Control -> PoolRecord]  BY <1>0 DEF PoolTypes
      <4>2. pool'[c] = [pool[c] EXCEPT !.blocks = <<b>> \o @] /\ \A d \in Control \ {c} : pool'[d] = pool[d]
        BY <3>2, <4>1
      <4>3. pool'[c].cleanups = pool[c].cleanups /\ pool'[c].pre_cleanups = pool[c].pre_cleanups
        BY <4>1, <4>2 DEF PoolRecord
      <4> QED  BY <4>2, <4>3 DEF ListsSame
    <3> QED  BY <2>1, <3>1, <3>2 DEF AllocInBlock, AllocRecycled, AllocCarved
  <2>3. UNCHANGED cleanupVars /\ UNCHANGED stack  BY <1>3 DEF Alloc, callVars
  <2>4. CallsSame  BY <2>3 DEF CallsSame, CleanupInv, CallsOnce
  <2> QED  BY <1>0, <2>2, <2>3, <2>4, SameCleanups
<1>4. ASSUME NEW c \in Control,
             CleanupRegister(t, c) \/ PreCleanupRegister(t, c) \/ UserdataSet(t, c)
      PROVE  CleanupInv'
  <2>1. "cleanups" \in CleanupLists /\ "pre_cleanups" \in CleanupLists  BY DEF CleanupLists
  <2>2. PICK list \in CleanupLists, d \in Data : RegisterMoves(c, list, d)
    BY <1>0, <1>4, <2>1, CleanupRegisterMoves, PreCleanupRegisterMoves, UserdataSetMoves
  <2>3. UNCHANGED <<stack, killed>>
    BY <1>4 DEF CleanupRegister, PreCleanupRegister, UserdataSet, callVars
  <2> QED  BY <1>0, <2>2, <2>3, RegisteredCleanups
<1> QED  BY <1>1, <1>2, <1>3, <1>4, RunCleanupCleanups, CallbackReturnsCleanups, KillCleanups, OtherCleanups DEF Ends

-----------------------------------------------------------------------------
(* What the run checks of the pools, from the invariants.                   *)

LEMMA PoolsWellFormed ==
  ASSUME PoolShape, CleanupInv
  PROVE  PoolsTypeOK /\ PoolTree
<1>1. PoolTypes  BY DEF PoolShape
<1>2. PICK rank \in Ranks : Tree(rank)  BY DEF PoolShape
<1>3. PoolsTypeOK
  <2>1. entries \in 0..CleanupCapacity
    <3>1. Cardinality(Open) \in Nat  BY <1>1, OpenFinite
    <3> QED  BY <3>1, PoolsAssumption DEF CleanupInv
  <2>2. \A c \in Control : pool[c].active \in BOOLEAN /\ pool[c].parent \in Control \cup {NoPool}
    BY <1>1, TypedPool
  <2> QED  BY <1>1, <2>1, <2>2 DEF PoolsTypeOK, PoolTypes
<1>4. ASSUME NEW c \in Control, pool[c].active, pool[c].parent # NoPool
      PROVE  /\ pool[pool[c].parent].active
             /\ Cardinality({k \in DOMAIN pool[pool[c].parent].children :
                                pool[pool[c].parent].children[k] = c}) = 1
  <2> DEFINE p == pool[c].parent
             s == pool[p].children
  <2>1. p \in Control  BY <1>1, <1>4, TypedPool
  <2>2. pool[p].active /\ \E k \in DOMAIN s : s[k] = c  BY <1>2, <1>4 DEF Tree
  <2>3. \A j, k \in DOMAIN s : s[j] = s[k] => j = k  BY <1>2, <2>1 DEF Tree
  <2> HIDE DEF s
  <2>4. PICK k \in DOMAIN s : s[k] = c  BY <2>2
  <2>5. {j \in DOMAIN s : s[j] = c} = {k}  BY <2>3, <2>4
  <2>6. Cardinality({j \in DOMAIN s : s[j] = c}) = 1  BY <2>5, FS_Singleton
  <2> QED  BY <2>2, <2>6 DEF s
<1>5. \A c \in Control : \A k \in DOMAIN pool[c].children : pool[pool[c].children[k]].parent = c
  BY <1>2 DEF Tree
<1> QED  BY <1>3, <1>4, <1>5 DEF PoolTree

LEMMA MemoryGiven ==
  ASSUME PoolTypes, MemoryInv
  PROVE  PoolMemory
<1>1. /\ capacity \in Seq(Nat) /\ used \in Seq(Nat) /\ DOMAIN capacity = Carved
      /\ \A b \in Carved : capacity[b] \in Nat /\ used[b] \in Nat
  BY DEF PoolTypes, Carved, MemoryInv
<1>2. ASSUME NEW b \in DOMAIN capacity  PROVE Cardinality(PlacesOf(b)) = 1
  <2>1. PICK c \in BlockOwners : b \in BlocksOf(c)  BY <1>1 DEF MemoryInv
  <2>2. PICK k \in DOMAIN Blocks(c) : Blocks(c)[k] = b  BY <2>1 DEF BlocksOf, Members
  <2>3. \A d \in BlockOwners : \A j \in DOMAIN Blocks(d) : Blocks(d)[j] = b => d = c /\ j = k
    <3> SUFFICES ASSUME NEW d \in BlockOwners, NEW j \in DOMAIN Blocks(d), Blocks(d)[j] = b
                 PROVE  d = c /\ j = k
      OBVIOUS
    <3>1. b \in BlocksOf(d)  BY DEF BlocksOf, Members
    <3>2. d = c  BY <2>1, <3>1 DEF MemoryInv
    <3> QED  BY <2>2, <3>2 DEF MemoryInv, Distinct
  <2>4. \A p : p \in PlacesOf(b) <=>
                 \E d \in BlockOwners : \E j \in DOMAIN Blocks(d) : Blocks(d)[j] = b /\ p = <<d, j>>
    BY DEF PlacesOf, BlockOwners
  <2>5. PlacesOf(b) = {<<c, k>>}  BY <2>2, <2>3, <2>4
  <2> QED  BY <2>5, FS_Singleton
<1>3. ASSUME NEW c \in Control, NEW m \in live[c]
      PROVE  Contains(pool[c].blocks, m[1]) /\ m[2] + m[3] <= capacity[m[1]]
  <2>1. m[1] \in BlocksOf(c) /\ m[2] + m[3] <= used[m[1]]  BY DEF MemoryInv
  <2>2. m[1] \in Members(pool[c].blocks) /\ c \in BlockOwners  BY <2>1, BlocksAre
  <2>3. m[1] \in Carved  BY <2>1, <2>2 DEF MemoryInv
  <2>4. used[m[1]] <= capacity[m[1]]  BY <2>3 DEF MemoryInv
  <2>5. m[2] \in Nat /\ m[3] \in Nat  BY PieceTyped
  <2>6. m[2] + m[3] <= capacity[m[1]]  BY <1>1, <2>1, <2>3, <2>4, <2>5
  <2>7. DOMAIN pool[c].blocks = 1..Len(pool[c].blocks)
    <3>1. pool[c].blocks \in Seq(Nat)  BY TypedPool DEF BlockLists
    <3> QED  BY <3>1
  <2> QED  BY <2>2, <2>6, <2>7 DEF Contains, Members
<1>4. MemoryDisjoint  BY <1>3 DEF MemoryDisjoint, MemoryInv
<1> QED  BY <1>2, <1>4 DEF PoolMemory, BlocksOnce

(* Where a registration waits, and where it runs: in one place at most. *)
LEMMA WaitsOnce ==
  ASSUME PoolTypes, CleanupInv, NEW n
  PROVE  /\ (\E c \in Control, list \in CleanupLists : n \in Waits(c, list)) =>
              Cardinality(Pending(n)) = 1 /\ Pending(n) # {}
         /\ ~(\E c \in Control, list \in CleanupLists : n \in Waits(c, list)) => Pending(n) = {}
<1>1. \A p : p \in Pending(n) <=>
               \E c \in Control, list \in CleanupLists : \E k \in DOMAIN pool[c][list] :
                 pool[c][list][k].n = n /\ p = <<c, list, k>>
  <2> DEFINE P(c, list) == {<<c, list, k>> : k \in {i \in DOMAIN pool[c][list] : pool[c][list][i].n = n}}
  <2>1. Pending(n) = UNION {P(c, list) : c \in Control, list \in CleanupLists}
    BY DEF Pending, CleanupLists
  <2>2. \A c \in Control, list \in CleanupLists : \A p :
          p \in P(c, list) <=> \E k \in DOMAIN pool[c][list] : pool[c][list][k].n = n /\ p = <<c, list, k>>
    OBVIOUS
  <2> HIDE DEF P
  <2>3. \A p : p \in Pending(n) <=> \E c \in Control, list \in CleanupLists : p \in P(c, list)
    BY <2>1
  <2> QED  BY <2>2, <2>3
<1>2. ASSUME NEW c \in Control, NEW list \in CleanupLists, n \in Waits(c, list)
      PROVE  Cardinality(Pending(n)) = 1 /\ Pending(n) # {}
  <2>1. PICK k \in DOMAIN pool[c][list] : pool[c][list][k].n = n  BY <1>2 DEF Waits, Names
  <2>2. ASSUME NEW d \in Control, NEW m \in CleanupLists, NEW j \in DOMAIN pool[d][m], pool[d][m][j].n = n
        PROVE  d = c /\ m = list /\ j = k
    <3>1. n \in Waits(d, m)  BY <2>2 DEF Waits, Names
    <3>2. d = c /\ m = list  BY <1>2, <3>1 DEF CleanupInv
    <3> QED  BY <2>1, <2>2, <3>2 DEF CleanupInv, NamesOnce
  <2>3. Pending(n) = {<<c, list, k>>}  BY <1>1, <2>1, <2>2
  <2> QED  BY <2>3, FS_Singleton
<1>3. ASSUME NEW p \in Pending(n)  PROVE \E c \in Control, list \in CleanupLists : n \in Waits(c, list)
  BY <1>1, <1>3 DEF Waits, Names
<1> QED  BY <1>2, <1>3

LEMMA CalledIsOne ==
  ASSUME PoolTypes, CleanupInv, NEW n, n # 0
  PROVE  /\ (\E t \in PoolThread : n \in Calling(t)) =>
              Cardinality(Running(n)) = 1 /\ Running(n) # {}
         /\ ~(\E t \in PoolThread : n \in Calling(t)) => Running(n) = {}
<1>1. \A p : p \in Running(n) <=>
               \E t \in PoolThread : \E k \in DOMAIN stack[t] : stack[t][k].callback.n = n /\ p = <<t, k>>
  BY DEF Running
<1>2. ASSUME NEW t \in PoolThread, n \in Calling(t)
      PROVE  Cardinality(Running(n)) = 1 /\ Running(n) # {}
  <2>1. PICK k \in DOMAIN stack[t] : stack[t][k].callback.n = n  BY <1>2 DEF Calling, Callbacks
  <2>2. ASSUME NEW u \in PoolThread, NEW j \in DOMAIN stack[u], stack[u][j].callback.n = n
        PROVE  u = t /\ j = k
    <3>1. n \in Calling(u)  BY <2>2 DEF Calling, Callbacks
    <3>2. u = t  BY <1>2, <3>1 DEF CleanupInv
    <3> QED  BY <2>1, <2>2, <3>2 DEF CleanupInv, CallsOnce, CalledOnce
  <2>3. Running(n) = {<<t, k>>}  BY <1>1, <2>1, <2>2
  <2> QED  BY <2>3, FS_Singleton
<1>3. ASSUME NEW p \in Running(n)  PROVE \E t \in PoolThread : n \in Calling(t)
  BY <1>1, <1>3 DEF Calling, Callbacks
<1> QED  BY <1>2, <1>3

LEMMA CleanupsHeld ==
  ASSUME PoolTypes, CleanupInv
  PROVE  CleanupsOnce
<1>1. DOMAIN runs = 1..Len(runs) /\ Len(runs) \in Nat  BY DEF PoolTypes
<1>2. ASSUME NEW n \in 1..Len(runs), n \in Open
      PROVE  /\ Cardinality(Pending(n)) + Cardinality(Running(n)) = 1 /\ Pending(n) \cup Running(n) # {}
             /\ runs[n] = 0 /\ n \notin killed
  <2>1. runs[n] = 0 /\ n \notin killed  BY <1>2 DEF Open
  <2>2. n # 0 /\ Cardinality({}) = 0  BY <1>1, FS_EmptySet
  <2>3. CASE \E c \in Control, list \in CleanupLists : n \in Waits(c, list)
    <3>1. ~(\E t \in PoolThread : n \in Calling(t))  BY <2>3 DEF CleanupInv
    <3>2. Cardinality(Pending(n)) = 1 /\ Pending(n) # {} /\ Running(n) = {}
      BY <2>2, <2>3, <3>1, WaitsOnce, CalledIsOne
    <3> QED  BY <2>1, <2>2, <3>2
  <2>4. CASE ~(\E c \in Control, list \in CleanupLists : n \in Waits(c, list))
    <3>1. \E t \in PoolThread : n \in Calling(t)  BY <1>2, <2>4 DEF CleanupInv
    <3>2. Pending(n) = {} /\ Cardinality(Running(n)) = 1 /\ Running(n) # {}
      BY <2>2, <2>4, <3>1, WaitsOnce, CalledIsOne
    <3> QED  BY <2>1, <2>2, <3>2
  <2> QED  BY <2>3, <2>4
<1>3. ASSUME NEW n \in 1..Len(runs), n \notin Open
      PROVE  /\ Pending(n) = {} /\ Running(n) = {}
             /\ (runs[n] = 1 /\ n \notin killed) \/ (runs[n] = 0 /\ n \in killed)
  <2>1. n # 0  BY <1>1
  <2>2. /\ ~(\E c \in Control, list \in CleanupLists : n \in Waits(c, list))
        /\ ~(\E t \in PoolThread : n \in Calling(t))
    BY <1>3 DEF CleanupInv
  <2>3. Pending(n) = {} /\ Running(n) = {}  BY <2>1, <2>2, WaitsOnce, CalledIsOne
  <2>4. runs[n] # 0 \/ n \in killed  BY <1>3 DEF Open
  <2> QED  BY <2>3, <2>4 DEF CleanupInv
<1>4. ASSUME NEW n \in DOMAIN runs
      PROVE  Cardinality(Pending(n)) + Cardinality(Running(n)) + runs[n]
               + (IF n \in killed THEN 1 ELSE 0) = 1
  <2>1. CASE n \in Open
    <3> DEFINE a == Cardinality(Pending(n))
               b == Cardinality(Running(n))
    <3>1. a + b = 1 /\ runs[n] = 0 /\ n \notin killed  BY <1>1, <1>2, <2>1
    <3> HIDE DEF a, b
    <3>2. a + b + runs[n] + (IF n \in killed THEN 1 ELSE 0) = 1  BY <3>1
    <3> QED  BY <3>2 DEF a, b
  <2>2. CASE n \notin Open
    <3>1. Cardinality(Pending(n)) = 0 /\ Cardinality(Running(n)) = 0  BY <1>1, <1>3, <2>2, FS_EmptySet
    <3> QED  BY <1>1, <1>3, <2>2, <3>1
  <2> QED  BY <2>1, <2>2
<1>5. {n \in DOMAIN runs : Pending(n) \cup Running(n) # {}} = Open
  <2>1. Open \subseteq DOMAIN runs  BY <1>1 DEF Open
  <2> QED  BY <1>1, <1>2, <1>3, <2>1
<1> QED  BY <1>4, <1>5 DEF CleanupsOnce, CleanupInv

-----------------------------------------------------------------------------
(* The invariant of the pools.                                             *)

PoolsInv == PoolShape /\ CleanupInv /\ MemoryInv

LEMMA PoolsInitially == PoolsInit => PoolsInv
<1> SUFFICES ASSUME PoolsInit  PROVE PoolsInv
  OBVIOUS
<1>1. /\ pool = [c \in Control |-> EmptyPool] /\ live = [c \in Control |-> {}]
      /\ free_blocks = <<>> /\ arena_used = 0 /\ capacity = <<>> /\ used = <<>> /\ entries = 0
      /\ stack = [t \in PoolThread |-> <<>>] /\ ending = [t \in PoolThread |-> 0]
      /\ runs = <<>> /\ killed = {}
  BY DEF PoolsInit
<1>2. \A c \in Control :
        /\ pool[c] = EmptyPool /\ live[c] = {} /\ ~pool[c].active /\ pool[c].children = <<>>
        /\ pool[c].cleanups = <<>> /\ pool[c].pre_cleanups = <<>> /\ pool[c].blocks = <<>>
  BY <1>1 DEF EmptyPool
<1>3. EmptyPool \in PoolRecord
  <2>1. <<>> \in Lists /\ <<>> \in Children /\ <<>> \in BlockLists  BY DEF Lists, Children, BlockLists
  <2> QED  BY <2>1 DEF EmptyPool, PoolRecord
<1>4. PoolTypes
  <2>1. <<>> \in Stacks /\ <<>> \in BlockLists /\ <<>> \in Seq(Nat)  BY DEF Stacks, BlockLists
  <2>2. 0 \in 0..ArenaSize  BY PoolsAssumption
  <2> QED  BY <1>1, <1>3, <2>1, <2>2 DEF PoolTypes
<1>5. PoolShape
  <2> DEFINE rank == [c \in Control |-> 0]
  <2>1. rank \in Ranks  BY DEF Ranks
  <2> HIDE DEF rank
  <2>2. Tree(rank)  BY <1>2 DEF Tree
  <2>3. StackOK(rank)  BY <1>1 DEF StackOK
  <2>4. EndingOK  BY <1>1 DEF EndingOK
  <2> QED  BY <1>4, <2>1, <2>2, <2>3, <2>4 DEF PoolShape
<1>6. CleanupInv
  <2>1. Len(runs) = 0 /\ 1..Len(runs) = {}  BY <1>1
  <2>2. Open = {} /\ Cardinality(Open) = 0  BY <2>1, FS_EmptySet DEF Open
  <2>3. \A c \in Control, list \in CleanupLists : pool[c][list] = <<>>  BY <1>2 DEF CleanupLists
  <2>4. \A c \in Control, list \in CleanupLists : NamesOnce(pool[c][list]) /\ Waits(c, list) = {}
    BY <2>3 DEF NamesOnce, Waits, Names
  <2>5. \A t \in PoolThread : CallsOnce(t) /\ Calling(t) = {}
    BY <1>1 DEF CallsOnce, CalledOnce, Calling, Callbacks
  <2> QED  BY <1>1, <2>1, <2>2, <2>4, <2>5, PoolsAssumption DEF CleanupInv
<1>7. MemoryInv
  <2>1. Len(capacity) = 0 /\ Len(used) = 0 /\ Carved = {}  BY <1>1 DEF Carved
  <2>2. \A c \in BlockOwners : Blocks(c) = <<>>  BY <1>1, <1>2 DEF Blocks, BlockOwners
  <2>3. \A c \in BlockOwners : Distinct(Blocks(c)) /\ BlocksOf(c) = {}
    BY <2>2 DEF Distinct, BlocksOf, Members
  <2> QED  BY <1>2, <2>1, <2>3 DEF MemoryInv
<1> QED  BY <1>5, <1>6, <1>7 DEF PoolsInv

LEMMA PoolsStutter ==
  ASSUME PoolsInv, UNCHANGED poolVars
  PROVE  PoolsInv'
<1>1. UNCHANGED <<pool, free_blocks, arena_used, capacity, used, live, entries, runs, killed, stack, ending>>
  BY DEF poolVars, memoryVars, cleanupVars, callVars
<1>2. PoolTypes /\ EndingOK  BY DEF PoolsInv, PoolShape
<1>3. PICK rank \in Ranks : Tree(rank) /\ StackOK(rank)  BY DEF PoolsInv, PoolShape
<1>4. PoolTypes'  BY <1>1, <1>2 DEF PoolTypes
<1>5. EndingOK'  BY <1>1, <1>2 DEF EndingOK, AtRest
<1>6. Tree(rank)'  BY <1>1, <1>3 DEF Tree
<1>7. StackOK(rank)'  BY <1>1, <1>3 DEF StackOK, FrameOK
<1>8. PoolShape'  BY <1>4, <1>5, <1>6, <1>7 DEF PoolShape
<1>9. MemoryInv'  BY <1>1, MemoryStays DEF PoolsInv
<1>10. CleanupInv'
  <2>1. ListsSame /\ UNCHANGED cleanupVars  BY <1>1 DEF ListsSame, cleanupVars
  <2>2. CallsSame  BY <1>1 DEF CallsSame, PoolsInv, CleanupInv, CallsOnce
  <2> QED  BY <1>2, <2>1, <2>2, SameCleanups DEF PoolsInv
<1> QED  BY <1>8, <1>9, <1>10 DEF PoolsInv

LEMMA PoolsInvKept == PoolsInv /\ [PoolsNext]_poolVars => PoolsInv'
<1>1. ASSUME PoolsInv, PoolsNext  PROVE PoolsInv'
  BY <1>1, PoolShapeKept, CleanupInvKept, MemoryInvKept DEF PoolsInv
<1>2. ASSUME PoolsInv, UNCHANGED poolVars  PROVE PoolsInv'
  BY <1>2, PoolsStutter
<1> QED  BY <1>1, <1>2

LEMMA PoolsInvGives == PoolsInv => PoolsTypeOK /\ PoolTree /\ PoolMemory /\ CleanupsOnce
<1>1. PoolsInv => PoolTypes  BY DEF PoolsInv, PoolShape
<1> QED  BY <1>1, PoolsWellFormed, MemoryGiven, CleanupsHeld DEF PoolsInv

-----------------------------------------------------------------------------
(* The three parts of the APR, one a behaviour.                             *)

AprInv == PoolsInv /\ CondLoose /\ (overlong \/ CondInv) /\ ThreadInv

LEMMA AprSteps == AprNext \/ UNCHANGED aprVars => [PoolsNext]_poolVars /\ [CondNext]_condVars /\ [ThreadNext]_threadVars
BY DEF AprNext, aprVars, PoolsPart, CondPart, ThreadPart

LEMMA LooseKept == CondLoose /\ [CondNext]_condVars => CondLoose'
<1>1. ASSUME CondLoose, UNCHANGED condVars  PROVE CondLoose'
  <2>1. UNCHANGED <<holder, waiters, pending_signals, tokens, blocked, at>>  BY <1>1 DEF condVars
  <2>2. CondTypes' /\ QueuedOnce'  BY <1>1, <2>1 DEF CondLoose, CondTypes, QueuedOnce
  <2>3. InWait' = InWait  BY <2>1 DEF InWait, Inside
  <2> QED  BY <1>1, <2>1, <2>2, <2>3 DEF CondLoose
<1> QED  BY <1>1, CondLooseKept

LEMMA ThreadsKept == ThreadInv /\ [ThreadNext]_threadVars => ThreadInv'
<1>1. ASSUME ThreadInv, UNCHANGED threadVars  PROVE ThreadInv'
  <2>1. UNCHANGED <<calls, registry, call, mine, process, signalled, active>>  BY <1>1 DEF threadVars
  <2>2. ThreadTypes'  BY <1>1, <2>1 DEF ThreadInv, ThreadTypes
  <2>3. OneCreator'  BY <1>1, <2>1 DEF ThreadInv, OneCreator, Has
  <2>4. Registry'  BY <1>1, <2>1 DEF ThreadInv, Registry, Has
  <2> QED  BY <2>2, <2>3, <2>4 DEF ThreadInv
<1> QED  BY <1>1, ThreadInvKept

LEMMA TokensKept == (overlong \/ CondInv) /\ [CondNext]_condVars => (overlong \/ CondInv)'
<1>1. overlong /\ [CondNext]_condVars => overlong'
  BY DEF CondNext, condVars, Add, Stop, Steps, Lock, Leave, Wait, WaitSemaphore, Relock, TimesOut, GivesUp
<1> QED  BY <1>1, CondStep

LEMMA AprInvInitially == AprInit => AprInv
<1>1. CondInit => CondLoose
  BY CondInitially DEF CondInit, CondInv, Counted, CondLoose
<1>2. CondInit => overlong \/ CondInv  BY CondInitially
<1> QED  BY <1>1, <1>2, PoolsInitially, InitThreadInv DEF AprInit, AprInv

LEMMA AprInvKept == AprInv /\ [AprNext]_aprVars => AprInv'
<1> SUFFICES ASSUME AprInv, [AprNext]_aprVars  PROVE AprInv'
  OBVIOUS
<1>1. [PoolsNext]_poolVars /\ [CondNext]_condVars /\ [ThreadNext]_threadVars  BY AprSteps
<1> QED  BY <1>1, PoolsInvKept, LooseKept, TokensKept, ThreadsKept DEF AprInv

LEMMA AprInvGives == AprInv => AprWellFormed /\ PoolMemory /\ CleanupsOnce
<1>1. overlong \/ CondInv => CondTokens
  BY DEF CondInv, Counted, CondTokens, InWait, Awake
<1> QED  BY <1>1, PoolsInvGives, CondLooseGives, ThreadInvGives DEF AprInv, AprWellFormed

\* However the clears and destroys of any number of threads go, with callbacks
\* that use the pool under way, the pools form trees, the threads that are not
\* joined are in the registry, and the signals of a condition are counted
\* (apr_pool_create_ex, apr_pool_destroy, apr_thread_join, apr_thread_cond_wait).
THEOREM PartsWellFormed == AprSpec => []AprWellFormed
<1>1. AprInv => AprWellFormed  BY AprInvGives
<1> QED  BY <1>1, AprInvInitially, AprInvKept, PTL DEF AprSpec

\* Each block of the arena is in one pool or free, whatever pools are cleared and
\* destroyed, and the memory that a pool gave lies in a block of that pool and
\* overlaps no other memory given (apex_apr_palloc, apex_apr_pool_clear_internal).
THEOREM MemoryApart == AprSpec => []PoolMemory
<1>1. AprInv => PoolMemory  BY AprInvGives
<1> QED  BY <1>1, AprInvInitially, AprInvKept, PTL DEF AprSpec

\* A registered cleanup waits in one list, is being called, has run once or was
\* killed, one of these at any time, whatever callbacks register and kill, and
\* the entries in use are those of the cleanups that wait or are called
\* (apex_apr_pool_cleanup_register_internal, apex_apr_pool_run_cleanups).
THEOREM CleanupsRunOnce == AprSpec => []CleanupsOnce
<1>1. AprInv => CleanupsOnce  BY AprInvGives
<1> QED  BY <1>1, AprInvInitially, AprInvKept, PTL DEF AprSpec

-----------------------------------------------------------------------------
(* The list of nodes, for every size: its links and those of the free nodes  *)
(* make up two strings that share no node, and each call is the call of a    *)
(* bounded list.  What Chain and ldp_clean_list compute by recursion is      *)
(* proved by counting up, on sets of numbers.                                *)

(* What holds of 0 and of the number after each one it holds of, holds of all. *)
LEMMA CountingUp ==
  ASSUME NEW S, 0 \in S, \A k \in Nat : k \in S => k + 1 \in S
  PROVE  Nat \subseteq S
<1> DEFINE Others == {k \in Nat : k \notin S}
<1> SUFFICES ASSUME Others # {} PROVE FALSE  OBVIOUS
<1>1. PICK k \in Others : \A y \in Others : k <= y
  <2>1. Others \in SUBSET Nat  OBVIOUS
  <2> HIDE DEF Others
  <2> QED  BY <2>1, MinIsLeast
<1>2. k \in Nat /\ k # 0 /\ k \notin S  BY <1>1
<1>3. k - 1 \in Nat /\ (k - 1) + 1 = k /\ ~ (k <= k - 1)  BY <1>2
<1>4. k - 1 \in S  BY <1>1, <1>3
<1> QED  BY <1>2, <1>3, <1>4

(* A list has at least two nodes, which are numbers and not NULL. *)
LEMMA ListConstants ==
  /\ max_size \in Nat /\ max_size >= 2
  /\ ListNode \subseteq Nat /\ NULL \notin ListNode
BY ListAssumption DEF max_size, ListNode

(* The nodes of s, each with the one before it as its link, the last t. *)
Link == ListNode \cup {NULL}
Strung(links, t, s) ==
  /\ s \in Seq(ListNode)
  /\ t = IF s = <<>> THEN NULL ELSE s[Len(s)]
  /\ \A i \in 1..Len(s) : links[s[i]] = IF i = 1 THEN NULL ELSE s[i - 1]

(* One more level of the walk that Chain makes: from each node, j links.   *)
Level(links, g, j) ==
  [n \in Link |-> IF n = NULL \/ j = 0 THEN <<>> ELSE Append(g[j - 1][links[n]], n)]

(* Only the level before counts. *)
LEMMA LevelDepends ==
  ASSUME NEW links, NEW g, NEW h, NEW j, j # 0 => g[j - 1] = h[j - 1]
  PROVE  Level(links, g, j) = Level(links, h, j)
BY DEF Level

(* The levels exist up to any number. *)
LEMMA LevelsExist ==
  ASSUME NEW links
  PROVE  \A k \in Nat : \E g : g = [j \in 0..k |-> Level(links, g, j)]
<1> DEFINE S == {k \in Nat : \E g : g = [j \in 0..k |-> Level(links, g, j)]}
<1>1. 0 \in S
  <2> DEFINE g == [j \in 0..0 |-> Level(links, <<>>, j)]
  <2>1. \A j \in 0..0 : Level(links, g, j) = Level(links, <<>>, j)
    BY LevelDepends
  <2>2. g = [j \in 0..0 |-> Level(links, g, j)]  BY <2>1
  <2> QED  BY <2>2
<1>2. ASSUME NEW k \in Nat, k \in S  PROVE k + 1 \in S
  <2>1. PICK g : g = [j \in 0..k |-> Level(links, g, j)]  BY <1>2
  <2> DEFINE h == [j \in 0..k + 1 |-> Level(links, g, j)]
  <2>2. ASSUME NEW j \in 0..k + 1  PROVE Level(links, h, j) = Level(links, g, j)
    <3>1. ASSUME j # 0  PROVE h[j - 1] = g[j - 1]
      <4>1. j - 1 \in 0..k /\ j - 1 \in 0..k + 1  BY <1>2, <2>2, <3>1
      <4>2. g[j - 1] = Level(links, g, j - 1)  BY <2>1, <4>1
      <4> QED  BY <4>1, <4>2
    <3> HIDE DEF h
    <3> QED  BY <3>1, LevelDepends
  <2>3. h = [j \in 0..k + 1 |-> Level(links, h, j)]
    <3>1. \A j \in 0..k + 1 : Level(links, h, j) = Level(links, g, j)  BY <2>2
    <3> QED  BY <3>1
  <2> HIDE DEF h
  <2>4. \E e : e = [j \in 0..k + 1 |-> Level(links, e, j)]  BY <2>3
  <2> QED  BY <2>4
<1> HIDE DEF S
<1>3. Nat \subseteq S  BY <1>1, <1>2, CountingUp
<1> QED  BY <1>3 DEF S

IsWalk(links, g) == g = [j \in 0..max_size |-> Level(links, g, j)]

(* Chain is the last of its levels. *)
LEMMA ChainLevels ==
  ASSUME NEW links, NEW t
  PROVE  \E g : IsWalk(links, g) /\ Chain(links, t) = g[max_size][t]
<1> DEFINE upTo == CHOOSE g : g = [j \in 0..max_size |-> Level(links, g, j)]
<1>1. upTo = [j \in 0..max_size |-> Level(links, upTo, j)]
  <2>1. \E g : g = [j \in 0..max_size |-> Level(links, g, j)]
    BY LevelsExist, ListConstants
  <2> QED  BY <2>1
<1>2. Chain(links, t) = upTo[max_size][t]
  BY DEF Chain, Level, Link
<1> HIDE DEF upTo
<1> QED  BY <1>1, <1>2 DEF IsWalk

(* What a walk of k links from the i-th node of a string gathers: the nodes *)
(* up to it, when k is enough.                                              *)
LEMMA WalkOfStrung ==
  ASSUME NEW links, NEW t, NEW s, Strung(links, t, s), Len(s) <= max_size,
         NEW g, IsWalk(links, g)
  PROVE  \A i \in Nat : \A k \in 0..max_size :
           i \in 1..Len(s) /\ i <= k => g[k][s[i]] = SubSeq(s, 1, i)
<1> DEFINE Fits(i) == \A k \in 0..max_size :
             i \in 1..Len(s) /\ i <= k => g[k][s[i]] = SubSeq(s, 1, i)
           S == {i \in Nat : Fits(i)}
<1>1. s \in Seq(ListNode) /\ Len(s) \in Nat /\ \A i \in 1..Len(s) : s[i] \in ListNode
  BY DEF Strung
<1>2. max_size \in Nat /\ NULL \notin ListNode /\ g = [j \in 0..max_size |-> Level(links, g, j)]
  BY ListConstants DEF IsWalk
<1>3. 0 \in S  BY <1>1
<1>4. ASSUME NEW i \in Nat, i \in S  PROVE i + 1 \in S
  <2>1. ASSUME NEW k \in 0..max_size, i + 1 \in 1..Len(s), i + 1 <= k
        PROVE  g[k][s[i + 1]] = SubSeq(s, 1, i + 1)
    <3>1. s[i + 1] \in ListNode /\ s[i + 1] # NULL /\ k # 0 /\ k - 1 \in 0..max_size
      BY <1>1, <1>2, <1>4, <2>1
    <3>2. g[k] = Level(links, g, k)  BY <1>2
    <3>3. g[k][s[i + 1]] = Append(g[k - 1][links[s[i + 1]]], s[i + 1])
      BY <3>1, <3>2 DEF Level, Link
    <3>4. g[k - 1][links[s[i + 1]]] = SubSeq(s, 1, i)
      <4>1. CASE i = 0
        <5>1. links[s[i + 1]] = NULL
          <6>1. i + 1 = 1  BY <4>1
          <6> QED  BY <2>1, <6>1 DEF Strung
        <5>2. g[k - 1][NULL] = <<>>
          <6>1. g[k - 1] = Level(links, g, k - 1)  BY <1>2, <3>1
          <6> QED  BY <6>1 DEF Level, Link
        <5>3. SubSeq(s, 1, i) = <<>>  BY <1>1, <4>1
        <5> QED  BY <5>1, <5>2, <5>3
      <4>2. CASE i # 0
        <5>1. i + 1 # 1 /\ (i + 1) - 1 = i  BY <1>4, <4>2
        <5>2. links[s[i + 1]] = s[i]  BY <2>1, <5>1 DEF Strung
        <5>3. i \in 1..Len(s) /\ i <= k - 1  BY <1>1, <1>4, <2>1, <4>2, <3>1
        <5>4. Fits(i)  BY <1>4
        <5> QED  BY <3>1, <5>2, <5>3, <5>4
      <4> QED  BY <4>1, <4>2
    <3>5. Append(SubSeq(s, 1, i), s[i + 1]) = SubSeq(s, 1, i + 1)
      <4>1. i \in 0..Len(s) /\ i + 1 \in 1..Len(s)  BY <1>1, <1>4, <2>1
      <4> QED  BY <1>1, <4>1
    <3> QED  BY <3>3, <3>4, <3>5
  <2> QED  BY <1>4, <2>1
<1> HIDE DEF S
<1>5. Nat \subseteq S  BY <1>3, <1>4, CountingUp
<1> QED  BY <1>5 DEF S

(* Chain reads the string of nodes. *)
LEMMA ChainOfStrung ==
  ASSUME NEW links, NEW t, NEW s, Strung(links, t, s), Len(s) <= max_size
  PROVE  Chain(links, t) = s
<1>1. PICK g : IsWalk(links, g) /\ Chain(links, t) = g[max_size][t]
  BY ChainLevels
<1>2. s \in Seq(ListNode) /\ Len(s) \in Nat /\ max_size \in Nat  BY ListConstants DEF Strung
<1>3. CASE s = <<>>
  <2>1. t = NULL /\ max_size \in 0..max_size  BY <1>2, <1>3 DEF Strung
  <2>2. g[max_size] = Level(links, g, max_size)  BY <1>1, <2>1 DEF IsWalk
  <2>3. g[max_size][NULL] = <<>>  BY <2>2 DEF Level, Link
  <2> QED  BY <1>1, <1>3, <2>1, <2>3
<1>4. CASE s # <<>>
  <2>1. t = s[Len(s)] /\ Len(s) \in 1..Len(s)  BY <1>2, <1>4 DEF Strung
  <2>2. max_size \in 0..max_size  BY <1>2
  <2>3. \A i \in Nat : \A k \in 0..max_size :
           i \in 1..Len(s) /\ i <= k => g[k][s[i]] = SubSeq(s, 1, i)
    BY <1>1, WalkOfStrung
  <2>4. g[max_size][s[Len(s)]] = SubSeq(s, 1, Len(s))  BY <1>2, <2>1, <2>2, <2>3
  <2>5. SubSeq(s, 1, Len(s)) = s  BY <1>2
  <2> QED  BY <1>1, <2>1, <2>4, <2>5
<1> QED  BY <1>3, <1>4

(* What the fields of a list say: the strings u of its nodes and f of the   *)
(* free ones share no node, the links of both go back from their tails, and *)
(* those of the list forward too.  (The forward links of the free nodes are *)
(* as their removal left them.)                                             *)
Apart(u, f) ==
  /\ \A i, j \in 1..Len(u) : u[i] = u[j] => i = j
  /\ \A i, j \in 1..Len(f) : f[i] = f[j] => i = j
  /\ \A i \in 1..Len(u), j \in 1..Len(f) : u[i] # f[j]

Holds(l, u, f) ==
  /\ l.next \in [ListNode -> Link] /\ l.prev \in [ListNode -> Link]
  /\ l.size = Len(u) /\ Len(u) + Len(f) = max_size
  /\ Strung(l.prev, l.used, u) /\ Strung(l.prev, l.unused, f) /\ Apart(u, f)
  /\ \A i \in 1..Len(u) : l.next[u[i]] = IF i = Len(u) THEN NULL ELSE u[i + 1]

ListInv == \E u, f \in Seq(ListNode) : Holds(Fields, u, f)

(* The sequence without its i-th element. *)
WithoutPlace(s, i) == [j \in 1..Len(s) - 1 |-> IF j < i THEN s[j] ELSE s[j + 1]]

LEMMA OneFewer ==
  ASSUME NEW s \in Seq(ListNode), NEW i \in 1..Len(s)
  PROVE  /\ WithoutPlace(s, i) \in Seq(ListNode)
         /\ Len(WithoutPlace(s, i)) = Len(s) - 1 /\ Len(s) \in Nat \ {0}
         /\ SubSeq(s, 1, i - 1) \o SubSeq(s, i + 1, Len(s)) = WithoutPlace(s, i)
<1> DEFINE w == WithoutPlace(s, i)
           p == SubSeq(s, 1, i - 1)
           q == SubSeq(s, i + 1, Len(s))
<1>1. Len(s) \in Nat \ {0} /\ \A j \in 1..Len(s) : s[j] \in ListNode  OBVIOUS
<1>2. w \in [1..Len(s) - 1 -> ListNode]  BY <1>1 DEF WithoutPlace
<1>3. Len(s) - 1 \in Nat  BY <1>1
<1>4. w \in Seq(ListNode) /\ Len(w) = Len(s) - 1  BY <1>2, <1>3
<1>5. p \in Seq(ListNode) /\ Len(p) = i - 1 /\ \A j \in 1..i - 1 : p[j] = s[j]
  BY <1>1
<1>6. q \in Seq(ListNode) /\ Len(q) = Len(s) - i /\ \A j \in 1..Len(s) - i : q[j] = s[j + i]
  BY <1>1
<1> HIDE DEF p, q
<1>7. p \o q \in Seq(ListNode) /\ Len(p \o q) = Len(s) - 1  BY <1>1, <1>5, <1>6
<1>8. ASSUME NEW j \in 1..Len(s) - 1  PROVE (p \o q)[j] = w[j]
  <2>1. CASE j < i
    <3>1. (p \o q)[j] = p[j]  BY <1>1, <1>5, <1>6, <1>8, <2>1
    <3> QED  BY <1>1, <1>5, <1>8, <2>1, <3>1 DEF WithoutPlace
  <2>2. CASE ~ (j < i)
    <3>1. (p \o q)[j] = q[j - (i - 1)]  BY <1>1, <1>5, <1>6, <1>8, <2>2
    <3>2. j - (i - 1) \in 1..Len(s) - i /\ j - (i - 1) + i = j + 1  BY <1>1, <1>8, <2>2
    <3> QED  BY <1>6, <1>8, <2>2, <3>1, <3>2 DEF WithoutPlace
  <2> QED  BY <2>1, <2>2
<1> HIDE DEF w
<1>9. p \o q = w  BY <1>4, <1>7, <1>8, SeqEqual
<1> QED  BY <1>1, <1>4, <1>9 DEF w, p, q

(* The links r are those given, but for that of m, if it is a node. *)
SetAt(links, m, to, r) ==
  /\ r \in [ListNode -> Link]
  /\ \A x \in ListNode : r[x] = IF x = m THEN to ELSE links[x]

LEMMA LinkedAt ==
  ASSUME NEW links \in [ListNode -> Link], NEW m \in Link, NEW to \in Link
  PROVE  SetAt(links, m, to, Linked(links, m, to))
BY ListConstants DEF Linked, Link, SetAt

(* The i-th node of a list, and its neighbours. *)
Beside(l, u, i) ==
  /\ u[i] \in ListNode
  /\ l.prev[u[i]] = (IF i = 1 THEN NULL ELSE u[i - 1])
  /\ l.next[u[i]] = (IF i = Len(u) THEN NULL ELSE u[i + 1])
  /\ l.prev[u[i]] \in Link /\ l.next[u[i]] \in Link /\ l.unused \in Link

LEMMA Neighbours ==
  ASSUME NEW l, NEW u \in Seq(ListNode), NEW f \in Seq(ListNode), Holds(l, u, f),
         NEW i \in 1..Len(u)
  PROVE  Beside(l, u, i)
<1>1. u[i] \in ListNode  OBVIOUS
<1>2. l.unused \in Link
  <2>1. CASE f = <<>>  BY <2>1 DEF Holds, Strung, Link
  <2>2. CASE f # <<>>
    <3>1. Len(f) \in 1..Len(f)  BY <2>2
    <3> QED  BY <2>2, <3>1 DEF Holds, Strung, Link
  <2> QED  BY <2>1, <2>2
<1> QED  BY <1>1, <1>2 DEF Holds, Strung, Beside

(* The fields r after a removal of n from l, node by node. *)
CutFrom(l, n, r) ==
  /\ r.next \in [ListNode -> Link] /\ r.prev \in [ListNode -> Link]
  /\ \A x \in ListNode :
       /\ r.next[x] = IF x = n THEN NULL ELSE IF x = l.prev[n] THEN l.next[n] ELSE l.next[x]
       /\ r.prev[x] = IF x = n THEN l.unused ELSE IF x = l.next[n] THEN l.prev[n] ELSE l.prev[x]
  /\ r.size = l.size - 1 /\ r.unused = n
  /\ r.used = IF n = l.used THEN l.prev[n] ELSE l.used

LEMMA LinksWithout ==
  ASSUME NEW l, NEW u \in Seq(ListNode), NEW f \in Seq(ListNode), Holds(l, u, f),
         NEW i \in 1..Len(u)
  PROVE  CutFrom(l, u[i], WithoutNode(l, u[i]))
<1>1. Beside(l, u, i)  BY Neighbours
<1> PICK n : n = u[i]  OBVIOUS
<1> DEFINE r == WithoutNode(l, n)
<1>2. /\ n \in ListNode /\ NULL \in Link
      /\ l.prev[n] \in Link /\ l.next[n] \in Link /\ l.unused \in Link
  BY <1>1 DEF Link, Beside
<1>3. l.next \in [ListNode -> Link] /\ l.prev \in [ListNode -> Link]  BY DEF Holds
<1> DEFINE N == Linked(l.next, l.prev[n], l.next[n])
           P == Linked(l.prev, l.next[n], l.prev[n])
<1> PICK a \in Link, b \in Link : a = l.prev[n] /\ b = l.next[n]  BY <1>2
<1> PICK ns \in [ListNode -> Link], ps \in [ListNode -> Link] : ns = l.next /\ ps = l.prev
  BY <1>3
<1>4. /\ N \in [ListNode -> Link]
      /\ \A x \in ListNode : N[x] = IF x = l.prev[n] THEN l.next[n] ELSE l.next[x]
  <2>1. SetAt(ns, a, b, Linked(ns, a, b))  BY LinkedAt
  <2>2. N = Linked(ns, a, b)  OBVIOUS
  <2> HIDE DEF N
  <2> QED  BY <2>1, <2>2 DEF SetAt
<1>5. /\ P \in [ListNode -> Link]
      /\ \A x \in ListNode : P[x] = IF x = l.next[n] THEN l.prev[n] ELSE l.prev[x]
  <2>1. SetAt(ps, b, a, Linked(ps, b, a))  BY LinkedAt
  <2>2. P = Linked(ps, b, a)  OBVIOUS
  <2> HIDE DEF P
  <2> QED  BY <2>1, <2>2 DEF SetAt
<1>6. r = [size |-> l.size - 1, used |-> TailWithout(l, n), unused |-> n,
           next |-> [N EXCEPT ![n] = NULL], prev |-> [P EXCEPT ![n] = l.unused]]
  BY DEF WithoutNode
<1> HIDE DEF N, P, r
<1>7. CutFrom(l, n, r)  BY <1>2, <1>4, <1>5, <1>6 DEF TailWithout, CutFrom
<1> QED  BY <1>7 DEF r

(* A removal takes the node from one string and puts it at the end of the   *)
(* other: nothing else moves.                                               *)
LEMMA RemovalHolds ==
  ASSUME NEW l, NEW u \in Seq(ListNode), NEW f \in Seq(ListNode), Holds(l, u, f),
         NEW i \in 1..Len(u)
  PROVE  Holds(WithoutNode(l, u[i]), WithoutPlace(u, i), Append(f, u[i]))
<1>1. Beside(l, u, i)  BY Neighbours
<1>2. CutFrom(l, u[i], WithoutNode(l, u[i]))  BY LinksWithout
<1> DEFINE n == u[i]
           r == WithoutNode(l, n)
           w == WithoutPlace(u, i)
           g == Append(f, n)
<1>3. /\ n \in ListNode
      /\ l.prev[n] = (IF i = 1 THEN NULL ELSE u[i - 1])
      /\ l.next[n] = (IF i = Len(u) THEN NULL ELSE u[i + 1])
  BY <1>1 DEF Beside
<1>4. /\ r.next \in [ListNode -> Link] /\ r.prev \in [ListNode -> Link]
      /\ \A x \in ListNode :
           /\ r.next[x] = IF x = n THEN NULL ELSE IF x = l.prev[n] THEN l.next[n] ELSE l.next[x]
           /\ r.prev[x] = IF x = n THEN l.unused ELSE IF x = l.next[n] THEN l.prev[n] ELSE l.prev[x]
      /\ r.size = l.size - 1 /\ r.unused = n
      /\ r.used = IF n = l.used THEN l.prev[n] ELSE l.used
  BY <1>2 DEF CutFrom
<1>5. /\ w \in Seq(ListNode) /\ Len(w) = Len(u) - 1 /\ Len(u) \in Nat \ {0}
      /\ \A j \in 1..Len(u) - 1 : w[j] = IF j < i THEN u[j] ELSE u[j + 1]
  BY OneFewer DEF WithoutPlace
<1>6. /\ g \in Seq(ListNode) /\ Len(g) = Len(f) + 1 /\ Len(f) \in Nat
      /\ \A j \in 1..Len(f) : g[j] = f[j] /\ f[j] \in ListNode
      /\ g[Len(f) + 1] = n
  BY <1>3
<1>7. /\ \A j \in 1..Len(u) : u[j] \in ListNode /\ u[j] # NULL
      /\ \A j, k \in 1..Len(u) : u[j] = u[k] => j = k
      /\ \A j, k \in 1..Len(f) : f[j] = f[k] => j = k
      /\ \A j \in 1..Len(u), k \in 1..Len(f) : u[j] # f[k]
  BY ListConstants DEF Holds, Apart
<1>8. /\ \A j \in 1..Len(u) : l.prev[u[j]] = IF j = 1 THEN NULL ELSE u[j - 1]
      /\ \A j \in 1..Len(f) : l.prev[f[j]] = IF j = 1 THEN NULL ELSE f[j - 1]
      /\ \A j \in 1..Len(u) : l.next[u[j]] = IF j = Len(u) THEN NULL ELSE u[j + 1]
      /\ l.used = u[Len(u)] /\ l.unused = (IF f = <<>> THEN NULL ELSE f[Len(f)])
      /\ l.size = Len(u) /\ Len(u) + Len(f) = max_size
  BY <1>5 DEF Holds, Strung
<1>9. i \in Nat \ {0} /\ i <= Len(u)  BY <1>5
<1> HIDE DEF n, r, w, g
<1>10. n = u[i]  BY DEF n
<1>11. ASSUME NEW j \in 1..Len(u)
      PROVE  /\ j # i => u[j] # n
             /\ j # i + 1 => u[j] # l.next[n]
             /\ j # i - 1 => u[j] # l.prev[n]
  <2>1. j # i => u[j] # n  BY <1>7, <1>10, <1>11
  <2>2. ASSUME j # i + 1  PROVE u[j] # l.next[n]
    <3>1. CASE i = Len(u)  BY <1>3, <1>7, <1>11, <3>1
    <3>2. CASE i # Len(u)
      <4>1. i + 1 \in 1..Len(u)  BY <1>5, <1>9, <3>2
      <4> QED  BY <1>3, <1>7, <1>11, <2>2, <3>2, <4>1
    <3> QED  BY <3>1, <3>2
  <2>3. ASSUME j # i - 1  PROVE u[j] # l.prev[n]
    <3>1. CASE i = 1  BY <1>3, <1>7, <1>11, <3>1
    <3>2. CASE i # 1
      <4>1. i - 1 \in 1..Len(u)  BY <1>5, <1>9, <3>2
      <4> QED  BY <1>3, <1>7, <1>11, <2>3, <3>2, <4>1
    <3> QED  BY <3>1, <3>2
  <2> QED  BY <2>1, <2>2, <2>3
<1>12. Strung(r.prev, r.used, w)
  <2>1. ASSUME NEW j \in 1..Len(w)
        PROVE  r.prev[w[j]] = IF j = 1 THEN NULL ELSE w[j - 1]
    <3>1. CASE j < i
      <4>1. w[j] = u[j] /\ j \in 1..Len(u) /\ (j # 1 => w[j - 1] = u[j - 1])
        BY <1>5, <1>9, <2>1, <3>1
      <4>2. u[j] # n /\ u[j] # l.next[n]
        <5>1. j # i /\ j # i + 1  BY <1>9, <2>1, <3>1
        <5> QED  BY <1>11, <4>1, <5>1
      <4> QED  BY <1>4, <1>7, <1>8, <4>1, <4>2
    <3>2. CASE j = i
      <4>1. w[j] = u[j + 1] /\ j + 1 \in 1..Len(u) /\ (j # 1 => w[j - 1] = u[j - 1])
        BY <1>5, <1>9, <2>1, <3>2
      <4>2. u[j + 1] # n /\ l.next[n] = u[j + 1]
        BY <1>3, <1>5, <1>7, <1>9, <1>10, <3>2, <4>1
      <4> QED  BY <1>3, <1>4, <1>7, <3>2, <4>1, <4>2
    <3>3. CASE j > i
      <4>1. /\ w[j] = u[j + 1] /\ j + 1 \in 1..Len(u) /\ j # 1 /\ w[j - 1] = u[j]
            /\ j + 1 # 1 /\ (j + 1) - 1 = j /\ j + 1 # i /\ j + 1 # i + 1
        BY <1>5, <1>9, <2>1, <3>3
      <4>2. u[j + 1] # n /\ u[j + 1] # l.next[n]
        BY <1>11, <4>1
      <4>3. l.prev[u[j + 1]] = u[j]  BY <1>8, <4>1
      <4> QED  BY <1>4, <1>7, <4>1, <4>2, <4>3
    <3> QED  BY <1>5, <1>9, <2>1, <3>1, <3>2, <3>3
  <2>2. r.used = IF w = <<>> THEN NULL ELSE w[Len(w)]
    <3>1. CASE i = Len(u)
      <4>1. r.used = l.prev[n]  BY <1>4, <1>8, <1>10, <3>1
      <4>2. CASE i = 1
        <5>1. w = <<>>  BY <1>5, <3>1, <4>2
        <5> QED  BY <1>3, <4>1, <4>2, <5>1
      <4>3. CASE i # 1
        <5>1. w # <<>> /\ w[Len(w)] = u[i - 1]  BY <1>5, <1>9, <3>1, <4>3
        <5> QED  BY <1>3, <4>1, <4>3, <5>1
      <4> QED  BY <4>2, <4>3
    <3>2. CASE i # Len(u)
      <4>1. Len(u) \in 1..Len(u)  BY <1>5
      <4>2. r.used = u[Len(u)]  BY <1>4, <1>7, <1>8, <1>10, <3>2, <4>1
      <4>3. Len(w) # 0 /\ ~ (Len(w) < i) /\ Len(w) \in 1..Len(u) - 1 /\ Len(w) + 1 = Len(u)
        BY <1>5, <1>9, <3>2
      <4>4. w # <<>> /\ w[Len(w)] = u[Len(u)]  BY <1>5, <4>3
      <4> QED  BY <4>2, <4>4
    <3> QED  BY <3>1, <3>2
  <2> QED  BY <1>5, <2>1, <2>2 DEF Strung
<1>13. Strung(r.prev, r.unused, g)
  <2>1. ASSUME NEW j \in 1..Len(g)
        PROVE  r.prev[g[j]] = IF j = 1 THEN NULL ELSE g[j - 1]
    <3>1. CASE j = Len(f) + 1
      <4>1. r.prev[g[j]] = l.unused  BY <1>3, <1>4, <1>6, <3>1
      <4>2. CASE f = <<>>
        <5>1. j = 1  BY <3>1, <4>2
        <5> QED  BY <1>8, <4>1, <4>2, <5>1
      <4>3. CASE f # <<>>
        <5>1. Len(f) \in 1..Len(f) /\ j # 1 /\ j - 1 = Len(f)  BY <1>6, <3>1, <4>3
        <5>2. g[j - 1] = f[Len(f)]  BY <1>6, <5>1
        <5> QED  BY <1>8, <4>1, <4>3, <5>1, <5>2
      <4> QED  BY <4>2, <4>3
    <3>2. CASE j # Len(f) + 1
      <4>1. j \in 1..Len(f) /\ g[j] = f[j] /\ (j # 1 => g[j - 1] = f[j - 1])
        BY <1>6, <2>1, <3>2
      <4>2. f[j] # n /\ f[j] # l.next[n]
        <5>1. f[j] # u[i]  BY <1>7, <4>1
        <5>2. CASE i = Len(u)
          BY <1>3, <1>6, <1>10, <4>1, <5>1, <5>2, ListConstants
        <5>3. CASE i # Len(u)
          <6>1. i + 1 \in 1..Len(u)  BY <1>5, <1>9, <5>3
          <6> QED  BY <1>3, <1>7, <1>10, <4>1, <5>1, <5>3, <6>1
        <5> QED  BY <5>2, <5>3
      <4>3. r.prev[f[j]] = l.prev[f[j]]  BY <1>4, <1>6, <4>1, <4>2
      <4> QED  BY <1>8, <4>1, <4>3
    <3> QED  BY <3>1, <3>2
  <2>2. g # <<>> /\ g[Len(g)] = n  BY <1>6
  <2> QED  BY <1>4, <1>6, <2>1, <2>2 DEF Strung
<1>14. ASSUME NEW j \in 1..Len(w)
       PROVE  r.next[w[j]] = IF j = Len(w) THEN NULL ELSE w[j + 1]
  <2>1. CASE j < i - 1
    <3>1. /\ w[j] = u[j] /\ j \in 1..Len(u) /\ w[j + 1] = u[j + 1] /\ j # Len(w) /\ j # Len(u)
          /\ j # i /\ j # i - 1
      BY <1>5, <1>9, <1>14, <2>1
    <3>2. u[j] # n /\ u[j] # l.prev[n]  BY <1>11, <3>1
    <3>3. l.next[u[j]] = u[j + 1]  BY <1>8, <3>1
    <3> QED  BY <1>4, <1>7, <3>1, <3>2, <3>3
  <2>2. CASE j = i - 1
    <3>1. /\ w[j] = u[j] /\ j \in 1..Len(u) /\ i # 1 /\ j # i
          /\ (j # Len(w) => w[j + 1] = u[i + 1]) /\ (j = Len(w) <=> i = Len(u))
      <4>1. j \in 1..Len(u) - 1 /\ j < i /\ j + 1 = i  BY <1>5, <1>9, <1>14, <2>2
      <4>2. w[j] = u[j] /\ j \in 1..Len(u) /\ i # 1 /\ j # i  BY <1>5, <1>9, <4>1
      <4>3. j = Len(w) <=> i = Len(u)  BY <1>5, <1>9, <4>1
      <4>4. ASSUME j # Len(w)  PROVE w[j + 1] = u[i + 1]
        <5>1. i \in 1..Len(u) - 1 /\ ~ (i < i)  BY <1>5, <1>9, <4>3, <4>4
        <5> QED  BY <1>5, <4>1, <5>1
      <4> QED  BY <4>2, <4>3, <4>4
    <3>2. u[j] # n /\ u[j] = l.prev[n]
      BY <1>3, <1>7, <1>9, <1>10, <2>2, <3>1
    <3>3. r.next[u[j]] = l.next[n]  BY <1>4, <1>7, <3>1, <3>2
    <3> QED  BY <1>3, <3>1, <3>3
  <2>3. CASE j >= i
    <3>1. /\ w[j] = u[j + 1] /\ j + 1 \in 1..Len(u) /\ (j = Len(w) <=> j + 1 = Len(u))
          /\ (j # Len(w) => w[j + 1] = u[(j + 1) + 1]) /\ j + 1 # i /\ j + 1 # i - 1
      BY <1>5, <1>9, <1>14, <2>3
    <3>2. u[j + 1] # n /\ u[j + 1] # l.prev[n]  BY <1>11, <3>1
    <3>3. r.next[u[j + 1]] = l.next[u[j + 1]]  BY <1>4, <1>7, <3>1, <3>2
    <3> QED  BY <1>8, <3>1, <3>3
  <2> QED  BY <1>5, <1>9, <1>14, <2>1, <2>2, <2>3
<1>15. Apart(w, g)
  <2>1. ASSUME NEW j \in 1..Len(w)
        PROVE  /\ w[j] = (IF j < i THEN u[j] ELSE u[j + 1])
               /\ j \in 1..Len(u) /\ j + 1 \in 1..Len(u) /\ j \in Nat
    BY <1>5, <2>1
  <2>2. ASSUME NEW j \in 1..Len(w), NEW k \in 1..Len(w), w[j] = w[k]  PROVE j = k
    <3>1. CASE j < i /\ k < i  BY <1>7, <2>1, <2>2, <3>1
    <3>2. CASE j < i /\ ~ (k < i)
      <4>1. j = k + 1  BY <1>7, <2>1, <2>2, <3>2
      <4> QED  BY <1>9, <2>1, <3>2, <4>1
    <3>3. CASE ~ (j < i) /\ k < i
      <4>1. j + 1 = k  BY <1>7, <2>1, <2>2, <3>3
      <4> QED  BY <1>9, <2>1, <3>3, <4>1
    <3>4. CASE ~ (j < i) /\ ~ (k < i)
      <4>1. j + 1 = k + 1  BY <1>7, <2>1, <2>2, <3>4
      <4> QED  BY <2>1, <4>1
    <3> QED  BY <3>1, <3>2, <3>3, <3>4
  <2>3. ASSUME NEW j \in 1..Len(g), NEW k \in 1..Len(g), g[j] = g[k]  PROVE j = k
    <3>1. CASE j = Len(f) + 1 /\ k # Len(f) + 1
      <4>1. k \in 1..Len(f)  BY <1>6, <2>3, <3>1
      <4> QED  BY <1>6, <1>7, <1>10, <2>3, <3>1, <4>1
    <3>2. CASE j # Len(f) + 1 /\ k = Len(f) + 1
      <4>1. j \in 1..Len(f)  BY <1>6, <2>3, <3>2
      <4> QED  BY <1>6, <1>7, <1>10, <2>3, <3>2, <4>1
    <3>3. CASE j # Len(f) + 1 /\ k # Len(f) + 1
      <4>1. j \in 1..Len(f) /\ k \in 1..Len(f)  BY <1>6, <2>3, <3>3
      <4> QED  BY <1>6, <1>7, <2>3, <4>1
    <3> QED  BY <3>1, <3>2, <3>3
  <2>4. ASSUME NEW j \in 1..Len(w), NEW k \in 1..Len(g)  PROVE w[j] # g[k]
    <3>1. PICK m \in 1..Len(u) : w[j] = u[m] /\ m # i
      <4>1. CASE j < i  BY <2>1, <4>1
      <4>2. CASE ~ (j < i)
        <5>1. j + 1 # i  BY <1>9, <2>1, <4>2
        <5> QED  BY <2>1, <4>2, <5>1
      <4> QED  BY <4>1, <4>2
    <3>2. CASE k = Len(f) + 1  BY <1>6, <1>7, <1>10, <3>1, <3>2
    <3>3. CASE k # Len(f) + 1
      <4>1. k \in 1..Len(f)  BY <1>6, <2>4, <3>3
      <4> QED  BY <1>6, <1>7, <3>1, <4>1
    <3> QED  BY <3>2, <3>3
  <2> QED  BY <2>2, <2>3, <2>4 DEF Apart
<1>16. r.size = Len(w) /\ Len(w) + Len(g) = max_size  BY <1>4, <1>5, <1>6, <1>8
<1> QED  BY <1>4, <1>12, <1>13, <1>14, <1>15, <1>16 DEF Holds, n, r, w, g

(* An addition takes the last free node and puts it at the end of the list. *)
Adds(new) ==
  /\ list_size' = list_size + 1 /\ unused_list_tail' = prev[new] /\ used_list_tail' = new
  /\ next' = [Linked(Linked(next, prev[new], NULL), used_list_tail, new) EXCEPT ![new] = NULL]
  /\ prev' = [prev EXCEPT ![new] = used_list_tail]

LEMMA AdditionHolds ==
  ASSUME NEW u \in Seq(ListNode), NEW f \in Seq(ListNode), Holds(Fields, u, f), f # <<>>,
         NEW new, new = f[Len(f)], Adds(new)
  PROVE  Holds(Fields', Append(u, new), SubSeq(f, 1, Len(f) - 1))
<1> DEFINE w == Append(u, new)
           g == SubSeq(f, 1, Len(f) - 1)
<1>1. /\ Len(u) \in Nat /\ Len(f) \in Nat \ {0} /\ Len(f) \in 1..Len(f)
      /\ \A j \in 1..Len(u) : u[j] \in ListNode
      /\ \A j \in 1..Len(f) : f[j] \in ListNode
      /\ new \in ListNode
  OBVIOUS
<1>2. /\ w \in Seq(ListNode) /\ Len(w) = Len(u) + 1 /\ w # <<>>
      /\ \A j \in 1..Len(u) : w[j] = u[j]
      /\ w[Len(u) + 1] = new
  BY <1>1
<1>3. /\ g \in Seq(ListNode) /\ Len(g) = Len(f) - 1
      /\ \A j \in 1..Len(f) - 1 : g[j] = f[j]
      /\ Len(f) # 1 => Len(f) - 1 \in 1..Len(f)
  <2> PICK m \in Nat \ {0} : m = Len(f)  BY <1>1
  <2>1. m - 1 \in 0..m /\ (m # 1 => m - 1 \in 1..m)  OBVIOUS
  <2>2. \A j \in 1..m - 1 : j \in 1..m  OBVIOUS
  <2>3. \A j \in 1..m - 1 : f[j] \in ListNode  BY <1>1, <2>2
  <2>4. g = SubSeq(f, 1, m - 1)  OBVIOUS
  <2> HIDE DEF g
  <2>5. g \in Seq(ListNode) /\ Len(g) = m - 1 /\ \A j \in 1..m - 1 : g[j] = f[j]
    BY <2>1, <2>2, <2>3, <2>4
  <2> QED  BY <2>1, <2>5
<1> HIDE DEF w, g
<1>4. /\ next \in [ListNode -> Link] /\ prev \in [ListNode -> Link]
      /\ list_size = Len(u) /\ Len(u) + Len(f) = max_size
      /\ used_list_tail = (IF u = <<>> THEN NULL ELSE u[Len(u)])
      /\ unused_list_tail = f[Len(f)]
      /\ \A i \in 1..Len(u) : prev[u[i]] = IF i = 1 THEN NULL ELSE u[i - 1]
      /\ \A i \in 1..Len(f) : prev[f[i]] = IF i = 1 THEN NULL ELSE f[i - 1]
      /\ \A i \in 1..Len(u) : next[u[i]] = IF i = Len(u) THEN NULL ELSE u[i + 1]
  BY DEF Holds, Strung, Fields
<1>5. /\ \A i, j \in 1..Len(u) : u[i] = u[j] => i = j
      /\ \A i, j \in 1..Len(f) : f[i] = f[j] => i = j
      /\ \A i \in 1..Len(u), j \in 1..Len(f) : u[i] # f[j]
  BY DEF Holds, Apart
<1>6. used_list_tail \in Link /\ prev[new] \in Link /\ NULL \in Link /\ new \in Link
  <2>1. u # <<>> => Len(u) \in 1..Len(u)  BY <1>1
  <2> QED  BY <1>1, <1>4, <2>1 DEF Link
<1>7. /\ next' \in [ListNode -> Link] /\ prev' \in [ListNode -> Link]
      /\ \A x \in ListNode :
           /\ next'[x] = IF x = new THEN NULL ELSE IF x = used_list_tail THEN new
                         ELSE IF x = prev[new] THEN NULL ELSE next[x]
           /\ prev'[x] = IF x = new THEN used_list_tail ELSE prev[x]
  <2> DEFINE N == Linked(next, prev[new], NULL)
             M == Linked(N, used_list_tail, new)
  <2> PICK before \in Link : before = prev[new]  BY <1>6
  <2>1. SetAt(next, before, NULL, Linked(next, before, NULL))  BY <1>4, <1>6, LinkedAt
  <2>2. /\ N \in [ListNode -> Link]
        /\ \A x \in ListNode : N[x] = IF x = before THEN NULL ELSE next[x]
    BY <2>1 DEF SetAt
  <2> HIDE DEF N
  <2>3. SetAt(N, used_list_tail, new, M)  BY <1>6, <2>2, LinkedAt
  <2>4. /\ next' = [M EXCEPT ![new] = NULL]
        /\ prev' = [prev EXCEPT ![new] = used_list_tail]
    BY DEF N, Adds
  <2> HIDE DEF M
  <2> QED  BY <1>1, <1>4, <1>6, <2>2, <2>3, <2>4 DEF SetAt
<1>8. Strung(prev', used_list_tail', w)
  <2>1. ASSUME NEW j \in 1..Len(w)
        PROVE  prev'[w[j]] = IF j = 1 THEN NULL ELSE w[j - 1]
    <3>1. CASE j = Len(u) + 1
      <4>1. prev'[w[j]] = used_list_tail  BY <1>1, <1>2, <1>7, <3>1
      <4>2. CASE u = <<>>
        <5>1. j = 1  BY <3>1, <4>2
        <5> QED  BY <1>4, <4>1, <4>2, <5>1
      <4>3. CASE u # <<>>
        <5>1. Len(u) \in 1..Len(u) /\ j # 1 /\ j - 1 = Len(u)  BY <1>1, <3>1, <4>3
        <5> QED  BY <1>2, <1>4, <4>1, <4>3, <5>1
      <4> QED  BY <4>2, <4>3
    <3>2. CASE j # Len(u) + 1
      <4>1. j \in 1..Len(u) /\ w[j] = u[j] /\ (j # 1 => w[j - 1] = u[j - 1])
        BY <1>1, <1>2, <2>1, <3>2
      <4>2. u[j] # new  BY <1>1, <1>5, <4>1
      <4> QED  BY <1>1, <1>4, <1>7, <4>1, <4>2
    <3> QED  BY <3>1, <3>2
  <2>2. used_list_tail' = w[Len(w)]  BY <1>2 DEF Adds
  <2> QED  BY <1>2, <2>1, <2>2 DEF Strung
<1>9. Strung(prev', unused_list_tail', g)
  <2>1. ASSUME NEW j \in 1..Len(g)
        PROVE  prev'[g[j]] = IF j = 1 THEN NULL ELSE g[j - 1]
    <3>1. /\ j \in 1..Len(f) /\ j # Len(f) /\ g[j] = f[j] /\ (j # 1 => g[j - 1] = f[j - 1])
      BY <1>1, <1>3, <2>1
    <3>2. f[j] # new  BY <1>1, <1>5, <3>1
    <3> QED  BY <1>1, <1>4, <1>7, <3>1, <3>2
  <2>2. prev[new] = IF g = <<>> THEN NULL ELSE g[Len(g)]
    <3>1. prev[new] = IF Len(f) = 1 THEN NULL ELSE f[Len(f) - 1]  BY <1>1, <1>4
    <3>2. CASE Len(f) = 1
      <4>1. g = <<>>  BY <1>3, <3>2
      <4> QED  BY <3>1, <3>2, <4>1
    <3>3. CASE Len(f) # 1
      <4>1. g # <<>> /\ g[Len(g)] = f[Len(f) - 1]  BY <1>1, <1>3, <3>3
      <4> QED  BY <3>1, <3>3, <4>1
    <3> QED  BY <3>2, <3>3
  <2>3. unused_list_tail' = prev[new]  BY DEF Adds
  <2> QED  BY <1>3, <2>1, <2>2, <2>3 DEF Strung
<1>10. ASSUME NEW j \in 1..Len(w)
       PROVE  next'[w[j]] = IF j = Len(w) THEN NULL ELSE w[j + 1]
  <2>1. CASE j = Len(u) + 1  BY <1>1, <1>2, <1>7, <2>1
  <2>2. CASE j # Len(u) + 1
    <3>1. /\ j \in 1..Len(u) /\ w[j] = u[j] /\ j # Len(w) /\ u # <<>> /\ Len(u) \in 1..Len(u)
          /\ (j = Len(u) => w[j + 1] = new) /\ (j # Len(u) => w[j + 1] = u[j + 1])
      BY <1>1, <1>2, <1>10, <2>2
    <3>2. u[j] # new /\ used_list_tail = u[Len(u)]  BY <1>1, <1>4, <1>5, <3>1
    <3>3. u[j] # prev[new]
      <4>1. CASE Len(f) = 1  BY <1>1, <1>4, <3>1, <4>1, ListConstants
      <4>2. CASE Len(f) # 1
        <5>1. Len(f) - 1 \in 1..Len(f)  BY <1>3, <4>2
        <5>2. prev[new] = f[Len(f) - 1]  BY <1>1, <1>4, <4>2
        <5> QED  BY <1>5, <3>1, <5>1, <5>2
      <4> QED  BY <4>1, <4>2
    <3>4. CASE j = Len(u)  BY <1>1, <1>7, <3>1, <3>2, <3>4
    <3>5. CASE j # Len(u)
      <4>1. u[j] # used_list_tail  BY <1>5, <3>1, <3>2, <3>5
      <4> QED  BY <1>1, <1>4, <1>7, <3>1, <3>2, <3>3, <3>5, <4>1
    <3> QED  BY <3>4, <3>5
  <2> QED  BY <2>1, <2>2
<1>11. Apart(w, g)
  <2>1. ASSUME NEW j \in 1..Len(g)  PROVE j \in 1..Len(f) /\ g[j] = f[j] /\ g[j] # new
    <3>1. j \in 1..Len(f) - 1 /\ j \in 1..Len(f) /\ j # Len(f)  BY <1>1, <1>3, <2>1
    <3> QED  BY <1>1, <1>3, <1>5, <3>1
  <2>2. ASSUME NEW j \in 1..Len(w), NEW k \in 1..Len(w), w[j] = w[k]  PROVE j = k
    <3>1. ASSUME NEW i \in 1..Len(u)  PROVE w[i] = u[i] /\ w[i] # new
      BY <1>1, <1>2, <1>5, <3>1
    <3>2. /\ (j # Len(u) + 1 => j \in 1..Len(u)) /\ (k # Len(u) + 1 => k \in 1..Len(u))
      BY <1>1, <1>2, <2>2
    <3>3. CASE j = Len(u) + 1 \/ k = Len(u) + 1  BY <1>2, <2>2, <3>1, <3>2, <3>3
    <3>4. CASE j # Len(u) + 1 /\ k # Len(u) + 1  BY <1>5, <2>2, <3>1, <3>2, <3>4
    <3> QED  BY <3>3, <3>4
  <2>3. ASSUME NEW j \in 1..Len(w), NEW k \in 1..Len(g)  PROVE w[j] # g[k]
    <3>1. CASE j = Len(u) + 1  BY <1>2, <2>1, <3>1
    <3>2. CASE j # Len(u) + 1
      <4>1. j \in 1..Len(u)  BY <1>1, <1>2, <2>3, <3>2
      <4> QED  BY <1>2, <1>5, <2>1, <4>1
    <3> QED  BY <3>1, <3>2
  <2>4. \A j, k \in 1..Len(g) : g[j] = g[k] => j = k  BY <1>5, <2>1
  <2> QED  BY <2>2, <2>3, <2>4 DEF Apart
<1>12. list_size' = Len(w) /\ Len(w) + Len(g) = max_size  BY <1>1, <1>2, <1>3, <1>4 DEF Adds
<1>13. Holds(Fields', w, g)
  BY <1>7, <1>8, <1>9, <1>10, <1>11, <1>12 DEF Holds, Fields
<1> QED  BY <1>13 DEF w, g

(* One more round of ldp_clean_list on the fields that g gives. *)
Round(l, g, k) == IF k = 0 THEN l ELSE WithoutTail(g[k - 1])
Rounds(l, g, m) == g = [k \in 0..m |-> Round(l, g, k)]

LEMMA RoundsExist ==
  ASSUME NEW l
  PROVE  \A m \in Nat : \E g : Rounds(l, g, m)
<1> DEFINE S == {m \in Nat : \E g : Rounds(l, g, m)}
<1>1. 0 \in S
  <2> DEFINE g == [k \in 0..0 |-> l]
  <2>1. \A k \in 0..0 : Round(l, g, k) = l  BY DEF Round
  <2>2. g = [k \in 0..0 |-> Round(l, g, k)]  BY <2>1
  <2> QED  BY <2>2 DEF Rounds
<1>2. ASSUME NEW m \in Nat, m \in S  PROVE m + 1 \in S
  <2>1. PICK g : g = [k \in 0..m |-> Round(l, g, k)]  BY <1>2 DEF Rounds
  <2> DEFINE h == [k \in 0..m + 1 |-> Round(l, g, k)]
  <2>2. ASSUME NEW k \in 0..m + 1  PROVE Round(l, h, k) = Round(l, g, k)
    <3>1. ASSUME k # 0  PROVE h[k - 1] = g[k - 1]
      <4>1. k - 1 \in 0..m /\ k - 1 \in 0..m + 1  BY <1>2, <2>2, <3>1
      <4>2. g[k - 1] = Round(l, g, k - 1)  BY <2>1, <4>1
      <4> QED  BY <4>1, <4>2
    <3> HIDE DEF h
    <3> QED  BY <3>1 DEF Round
  <2>3. h = [k \in 0..m + 1 |-> Round(l, h, k)]
    <3>1. \A k \in 0..m + 1 : Round(l, h, k) = Round(l, g, k)  BY <2>2
    <3> QED  BY <3>1
  <2> HIDE DEF h
  <2>4. \E e : Rounds(l, e, m + 1)  BY <2>3 DEF Rounds
  <2> QED  BY <2>4
<1> HIDE DEF S
<1>3. Nat \subseteq S  BY <1>1, <1>2, CountingUp
<1> QED  BY <1>3 DEF S

(* ldp_clean_list is the last of max_size rounds. *)
LEMMA CleanIsRounds ==
  ASSUME ldp_clean_list
  PROVE  \E g : Rounds(Fields, g, max_size) /\ Becomes(g[max_size]) /\ returned' = NULL
<1> DEFINE cleaned == CHOOSE g : g = [k \in 0..max_size |-> Round(Fields, g, k)]
<1>1. cleaned = [k \in 0..max_size |-> Round(Fields, cleaned, k)]
  <2>1. \E g : g = [k \in 0..max_size |-> Round(Fields, g, k)]
    BY RoundsExist, ListConstants DEF Rounds
  <2> QED  BY <2>1
<1>2. Becomes(cleaned[max_size]) /\ returned' = NULL
  BY DEF ldp_clean_list, Round
<1> HIDE DEF cleaned
<1> QED  BY <1>1, <1>2 DEF Rounds

(* Each round takes the last node, until there is none. *)
LEMMA RoundsEmpty ==
  ASSUME NEW l, NEW u \in Seq(ListNode), NEW f \in Seq(ListNode), Holds(l, u, f),
         NEW c, Rounds(l, c, max_size)
  PROVE  \E g \in Seq(ListNode) : Holds(c[max_size], <<>>, g)
<1> DEFINE Left(k, v, g) == Holds(c[k], v, g) /\ Len(v) = IF k <= Len(u) THEN Len(u) - k ELSE 0
           S == {k \in Nat : k <= max_size => \E v, g \in Seq(ListNode) : Left(k, v, g)}
<1>1. Len(u) \in Nat /\ Len(f) \in Nat /\ max_size \in Nat /\ Len(u) <= max_size
  <2>1. Len(u) + Len(f) = max_size  BY DEF Holds
  <2> QED  BY <2>1, ListConstants
<1>2. \A k \in 0..max_size : c[k] = IF k = 0 THEN l ELSE WithoutTail(c[k - 1])
  BY DEF Rounds, Round
<1>3. 0 \in S
  <2>1. c[0] = l  BY <1>1, <1>2
  <2>2. Left(0, u, f)  BY <1>1, <2>1
  <2> QED  BY <2>2
<1>4. ASSUME NEW k \in Nat, k \in S  PROVE k + 1 \in S
  <2> SUFFICES ASSUME k + 1 <= max_size
               PROVE  \E v, g \in Seq(ListNode) : Left(k + 1, v, g)
    BY <1>4
  <2>1. k <= max_size /\ k + 1 \in 0..max_size /\ k + 1 # 0 /\ (k + 1) - 1 = k
    BY <1>1, <1>4
  <2>2. PICK v \in Seq(ListNode), g \in Seq(ListNode) : Left(k, v, g)  BY <1>4, <2>1
  <2>3. c[k + 1] = WithoutTail(c[k])  BY <1>2, <2>1
  <2>4. c[k].used = IF v = <<>> THEN NULL ELSE v[Len(v)]  BY <2>2 DEF Holds, Strung
  <2>5. CASE v = <<>>
    <3>1. c[k + 1] = c[k]  BY <2>3, <2>4, <2>5 DEF WithoutTail
    <3>2. Len(v) = 0  BY <2>5
    <3>3. k >= Len(u)  BY <1>1, <1>4, <2>2, <3>2
    <3>4. Len(v) = IF k + 1 <= Len(u) THEN Len(u) - (k + 1) ELSE 0  BY <1>1, <1>4, <3>2, <3>3
    <3> QED  BY <2>2, <3>1, <3>4
  <2>6. CASE v # <<>>
    <3>1. Len(v) \in Nat \ {0} /\ Len(v) \in 1..Len(v) /\ v[Len(v)] \in ListNode  BY <2>6
    <3>2. c[k + 1] = WithoutNode(c[k], v[Len(v)])
      BY <2>3, <2>4, <2>6, <3>1, ListConstants DEF WithoutTail
    <3> DEFINE w == WithoutPlace(v, Len(v))
               h == Append(g, v[Len(v)])
    <3>3. Holds(c[k + 1], w, h)  BY <2>2, <3>1, <3>2, RemovalHolds
    <3>4. w \in Seq(ListNode) /\ Len(w) = Len(v) - 1  BY <3>1, OneFewer
    <3>5. h \in Seq(ListNode)  BY <3>1
    <3>6. Len(v) - 1 = IF k + 1 <= Len(u) THEN Len(u) - (k + 1) ELSE 0
      <4> PICK m \in Nat, n \in Nat : m = Len(u) /\ n = Len(v)  BY <1>1, <3>1
      <4>1. n = (IF k <= m THEN m - k ELSE 0) /\ n # 0  BY <2>2, <3>1
      <4>2. n - 1 = IF k + 1 <= m THEN m - (k + 1) ELSE 0  BY <1>4, <4>1
      <4> QED  BY <4>2
    <3> HIDE DEF w, h
    <3>7. Left(k + 1, w, h)  BY <3>3, <3>4, <3>6
    <3> QED  BY <3>4, <3>5, <3>7
  <2> QED  BY <2>5, <2>6
<1> HIDE DEF S
<1>5. Nat \subseteq S  BY <1>3, <1>4, CountingUp
<1>6. PICK v \in Seq(ListNode), g \in Seq(ListNode) : Left(max_size, v, g)
  BY <1>1, <1>5 DEF S
<1>7. Len(v) = 0
  <2> PICK m \in Nat, n \in Nat : m = Len(u) /\ n = max_size /\ m <= n  BY <1>1
  <2>1. (IF n <= m THEN m - n ELSE 0) = 0  OBVIOUS
  <2> QED  BY <1>6, <2>1
<1>8. v = <<>>  BY <1>7
<1> QED  BY <1>6, <1>8

(* The fields become those of a record. *)
LEMMA BecomesHolds ==
  ASSUME NEW l, NEW w, NEW g, Becomes(l), Holds(l, w, g)
  PROVE  Holds(Fields', w, g)
BY DEF Becomes, Holds, Fields

(* What the walk reads is the string of the list, before and after. *)
LEMMA UsedIsString ==
  ASSUME NEW u \in Seq(ListNode), NEW f \in Seq(ListNode)
  PROVE  /\ Holds(Fields, u, f) => Used = u
         /\ Holds(Fields', u, f) => Used' = u
<1>1. ASSUME NEW l, Holds(l, u, f)  PROVE Chain(l.prev, l.used) = u
  <2>1. Len(u) \in Nat /\ Len(f) \in Nat /\ Len(u) + Len(f) = max_size  BY <1>1 DEF Holds
  <2>2. Len(u) <= max_size  BY <2>1, ListConstants
  <2>3. Strung(l.prev, l.used, u)  BY <1>1 DEF Holds
  <2> QED  BY <2>2, <2>3, ChainOfStrung
<1>2. Fields.prev = prev /\ Fields.used = used_list_tail  BY DEF Fields
<1>3. Fields'.prev = prev' /\ Fields'.used = used_list_tail'  BY DEF Fields
<1> QED  BY <1>1, <1>2, <1>3 DEF Used

(* At first all the nodes are free, each before the one with the next number. *)
LEMMA InitListHolds == ListInit => ListInv /\ List!Init
<1> SUFFICES ASSUME ListInit PROVE ListInv /\ List!Init  OBVIOUS
<1> DEFINE f == [i \in 1..max_size |-> i]
           u == <<>>
<1>1. max_size \in Nat /\ max_size # 0 /\ NULL \notin ListNode /\ ListNode = 1..max_size
  BY ListConstants DEF ListNode
<1>2. f \in Seq(ListNode) /\ Len(f) = max_size /\ \A i \in 1..max_size : f[i] = i
  BY <1>1
<1>3. u \in Seq(ListNode) /\ Len(u) = 0  OBVIOUS
<1> HIDE DEF f, u
<1>4. f # <<>>  BY <1>1, <1>2
<1>5. next \in [ListNode -> Link] /\ prev \in [ListNode -> Link]  BY <1>1 DEF ListInit, Link
<1>6. Strung(prev, unused_list_tail, f)
  <2>1. unused_list_tail = f[Len(f)]  BY <1>1, <1>2 DEF ListInit
  <2>2. ASSUME NEW i \in 1..Len(f)  PROVE prev[f[i]] = IF i = 1 THEN NULL ELSE f[i - 1]
    <3>1. i \in ListNode /\ f[i] = i /\ (i # 1 => f[i - 1] = i - 1)  BY <1>1, <1>2, <2>2
    <3> QED  BY <3>1 DEF ListInit
  <2> QED  BY <1>2, <1>4, <2>1, <2>2 DEF Strung
<1>7. Strung(prev, used_list_tail, u)  BY <1>3 DEF Strung, ListInit, u
<1>8. Apart(u, f)  BY <1>2, <1>3 DEF Apart
<1>9. list_size = Len(u) /\ Len(u) + Len(f) = max_size  BY <1>1, <1>2, <1>3 DEF ListInit
<1>10. Holds(Fields, u, f)
  <2>1. \A i \in 1..Len(u) : next[u[i]] = IF i = Len(u) THEN NULL ELSE u[i + 1]  BY <1>3
  <2> QED  BY <1>5, <1>6, <1>7, <1>8, <1>9, <2>1 DEF Holds, Fields
<1>11. Used = <<>> /\ returned = NULL  BY <1>2, <1>3, <1>10, UsedIsString DEF u, ListInit
<1> QED  BY <1>2, <1>3, <1>10, <1>11 DEF ListInv, List!Init

(* A node that leaves the list. *)
LEMMA RemovalStep ==
  ASSUME NEW u \in Seq(ListNode), NEW f \in Seq(ListNode), Holds(Fields, u, f),
         NEW i \in 1..Len(u), Becomes(WithoutNode(Fields, u[i]))
  PROVE  ListInv' /\ Used = u /\ Used' = WithoutPlace(u, i)
<1> DEFINE w == WithoutPlace(u, i)
           g == Append(f, u[i])
<1>1. w \in Seq(ListNode) /\ g \in Seq(ListNode)
  <2>1. WithoutPlace(u, i) \in Seq(ListNode)  BY OneFewer
  <2>2. u[i] \in ListNode  OBVIOUS
  <2> QED  BY <2>1, <2>2
<1>2. Holds(WithoutNode(Fields, u[i]), w, g)  BY RemovalHolds
<1> HIDE DEF w, g
<1>3. Holds(Fields', w, g)  BY <1>2, BecomesHolds
<1>4. ListInv'  BY <1>1, <1>3 DEF ListInv
<1>5. Used = u  BY UsedIsString
<1>6. Used' = w  BY <1>1, <1>3, UsedIsString
<1> QED  BY <1>4, <1>5, <1>6 DEF w

(* Each call keeps the two strings and is one of those of the bounded list. *)
LEMMA ListStep == ListInv /\ ListNext => ListInv' /\ List!Next
<1> SUFFICES ASSUME ListInv, ListNext  PROVE ListInv' /\ List!Next  OBVIOUS
<1>1. PICK u \in Seq(ListNode), f \in Seq(ListNode) : Holds(Fields, u, f)  BY DEF ListInv
<1>2. Used = u  BY <1>1, UsedIsString
<1>3. /\ Len(u) \in Nat /\ Len(f) \in Nat /\ list_size = Len(u) /\ Len(u) + Len(f) = max_size
      /\ used_list_tail = (IF u = <<>> THEN NULL ELSE u[Len(u)])
      /\ unused_list_tail = (IF f = <<>> THEN NULL ELSE f[Len(f)])
      /\ max_size \in Nat /\ max_size # 0
  BY <1>1, ListConstants DEF Holds, Strung, Fields
<1>4. \A i \in 1..Len(u) : u[i] \in ListNode /\ u[i] # NULL  BY ListConstants
<1>5. \A i \in 1..Len(f) : f[i] \in ListNode /\ f[i] # NULL  BY ListConstants
<1>6. ASSUME UNCHANGED listFields  PROVE ListInv' /\ Used' = u
  <2>1. Fields' = Fields  BY <1>6 DEF listFields, Fields
  <2> QED  BY <1>1, <2>1, UsedIsString DEF ListInv
<1>7. CASE ldp_add_last
  <2>1. CASE list_size # max_size /\ unused_list_tail # NULL /\ Adds(unused_list_tail)
             /\ returned' = unused_list_tail
    <3> PICK new : new = unused_list_tail  OBVIOUS
    <3>1. f # <<>> /\ new = f[Len(f)] /\ Len(f) \in 1..Len(f) /\ Adds(new)  BY <1>3, <2>1
    <3> DEFINE w == Append(u, new)
               g == SubSeq(f, 1, Len(f) - 1)
    <3>2. Holds(Fields', w, g)  BY <1>1, <3>1, AdditionHolds
    <3>3. w \in Seq(ListNode)  BY <1>5, <3>1
    <3>4. g \in Seq(ListNode)
      <4> PICK m \in Nat \ {0} : m = Len(f)  BY <1>3, <3>1
      <4>1. m - 1 \in 0..m /\ \A j \in 1..m - 1 : j \in 1..m  OBVIOUS
      <4>2. \A j \in 1..m - 1 : f[j] \in ListNode  BY <1>5, <4>1
      <4> QED  BY <4>1, <4>2
    <3> HIDE DEF w, g
    <3>5. ListInv' /\ Used' = w  BY <3>2, <3>3, <3>4, UsedIsString DEF ListInv
    <3>6. new \in ListNode /\ \A i \in 1..Len(u) : u[i] # new
      BY <1>1, <1>5, <3>1 DEF Holds, Apart
    <3>7. Len(Used) < max_size
      <4> PICK m \in Nat, n \in Nat : m = Len(u) /\ n = Len(f)  BY <1>3
      <4>1. m + n = max_size /\ n # 0  BY <1>3, <3>1
      <4>2. m < max_size  BY <1>3, <4>1
      <4> QED  BY <1>2, <4>2
    <3>8. new \in ListNode \ List!ToSet(Used) /\ Used' = Append(Used, new) /\ returned' = new
      BY <1>2, <2>1, <3>5, <3>6 DEF w, List!ToSet
    <3> QED  BY <3>5, <3>7, <3>8 DEF List!Next, List!AddLast
  <2>2. CASE (list_size = max_size \/ unused_list_tail = NULL) /\ returned' = NULL
             /\ UNCHANGED listFields
    <3>1. Len(u) = max_size
      <4>1. CASE list_size = max_size  BY <1>3, <4>1
      <4>2. CASE unused_list_tail = NULL
        <5>1. Len(f) \notin 1..Len(f)  BY <1>3, <1>5, <4>2
        <5> QED  BY <1>3, <5>1
      <4> QED  BY <2>2, <4>1, <4>2
    <3>2. UNCHANGED Used  BY <1>2, <1>6, <2>2
    <3> QED  BY <1>2, <1>6, <2>2, <3>1, <3>2 DEF List!Next, List!AddLast
  <2> QED  BY <1>7, <2>1, <2>2 DEF ldp_add_last, Adds
<1>8. CASE ldp_remove_node
  <2>1. PICK i \in 1..Len(u) : Becomes(WithoutNode(Fields, u[i])) /\ returned' = u[i]
    BY <1>2, <1>8 DEF ldp_remove_node
  <2>2. ListInv' /\ Used' = WithoutPlace(u, i)  BY <1>1, <2>1, RemovalStep
  <2>3. Used' = List!RemoveAt(Used, i)  BY <1>2, <2>2, OneFewer DEF List!RemoveAt
  <2> QED  BY <1>2, <2>1, <2>2, <2>3 DEF List!Next, List!RemoveNode
<1>9. CASE ldp_remove_first_node
  <2>1. CASE list_size # 0 /\ used_list_tail # NULL /\ Becomes(WithoutNode(Fields, Head(Used)))
             /\ returned' = Head(Used)
    <3>1. u # <<>> /\ 1 \in 1..Len(u) /\ Head(u) = u[1]  BY <1>3, <2>1
    <3>2. ListInv' /\ Used' = WithoutPlace(u, 1)  BY <1>1, <1>2, <2>1, <3>1, RemovalStep
    <3>3. WithoutPlace(u, 1) = Tail(u)
      <4>1. WithoutPlace(u, 1) = [j \in 1..Len(u) - 1 |-> u[j + 1]]
        BY <1>3, <3>1 DEF WithoutPlace
      <4> QED  BY <3>1, <4>1
    <3> QED  BY <1>2, <2>1, <3>1, <3>2, <3>3 DEF List!Next, List!TakeOldest
  <2>2. CASE (list_size = 0 \/ used_list_tail = NULL) /\ returned' = NULL /\ UNCHANGED listFields
    <3>1. u = <<>>
      <4>1. CASE list_size = 0
        <5>1. Len(u) = 0  BY <1>3, <4>1
        <5> QED  BY <5>1
      <4>2. CASE used_list_tail = NULL
        <5>1. Len(u) \notin 1..Len(u)  BY <1>3, <1>4, <4>2
        <5> QED  BY <1>3, <5>1
      <4> QED  BY <2>2, <4>1, <4>2
    <3> QED  BY <1>2, <1>6, <2>2, <3>1 DEF List!Next, List!TakeOldest
  <2> QED  BY <1>9, <2>1, <2>2 DEF ldp_remove_first_node
<1>10. CASE ldp_clean_list
  <2>1. PICK c : Rounds(Fields, c, max_size) /\ Becomes(c[max_size]) /\ returned' = NULL
    BY <1>10, CleanIsRounds
  <2>2. PICK g \in Seq(ListNode) : Holds(c[max_size], <<>>, g)  BY <1>1, <2>1, RoundsEmpty
  <2>3. Holds(Fields', <<>>, g)  BY <2>1, <2>2, BecomesHolds
  <2> DEFINE e == <<>>
  <2>4. e \in Seq(ListNode) /\ e = <<>>  OBVIOUS
  <2> HIDE DEF e
  <2>5. Holds(Fields', e, g)  BY <2>3, <2>4
  <2>6. ListInv' /\ Used' = e  BY <2>4, <2>5, UsedIsString DEF ListInv
  <2> QED  BY <2>1, <2>4, <2>6 DEF List!Next, List!Clean
<1> QED  BY <1>7, <1>8, <1>9, <1>10 DEF ListNext

(* Theorem: the links always make up one bounded list: a call on them is the *)
(* call of the list that ldp_list.h promises, for every size.                *)
THEOREM ListIsABoundedList == ListInit /\ [][ListNext]_listVars => ImplementsList
<1>1. ListInit => ListInv /\ List!Init  BY InitListHolds
<1>2. ASSUME ListInv, [ListNext]_listVars  PROVE ListInv' /\ [List!Next]_<<Used, returned>>
  <2>1. CASE ListNext  BY <1>2, <2>1, ListStep
  <2>2. CASE UNCHANGED listVars
    <3>1. Fields' = Fields /\ Used' = Used /\ returned' = returned
      BY <2>2 DEF listVars, listFields, Fields, Used
    <3> QED  BY <1>2, <3>1 DEF ListInv
  <2> QED  BY <1>2, <2>1, <2>2
<1> QED  BY <1>1, <1>2, PTL DEF ImplementsList
=============================================================================
