------------------------ MODULE LdpFifoManagerProofs ------------------------
(***************************************************************************)
(* Proofs about the operation queue of a module, for any number of         *)
(* producers, operations, pools and elements.                              *)
(*                                                                         *)
(* The inductive invariants: the types (TypeInv); over them, who owns      *)
(* which element and what activating_op_num counts (QueueInv); over these, *)
(* side by side, the counters of the pools (PoolInv), the elements that    *)
(* are used (HeldInv) and the request table (RequestInv).  A last one,     *)
(* WrapInv, needs the types only: it is for a module thread that may wake  *)
(* up for no reason, where the counter wraps and the others do not hold.   *)
(***************************************************************************)
EXTENDS LdpFifoManager, FiniteSetTheorems, SequenceTheorems, FunctionTheorems, TLAPS

(* The steps at which a producer holds an element.                         *)
PushSteps == {"push", "fallback"}

(* What a step says of the pointers: a producer that pushes has an         *)
(* operation of its own, and an element once the pool gave it one; a       *)
(* cleaning has popped the element it works on.                            *)
StepsOK ==
  /\ \A p \in Producer :
       /\ pc[p] # "idle" => arg[p] \in Op /\ arg[p].from = p
       /\ pc[p] \in PushSteps => mine[p] \in Elt
  /\ cpc \in {"clean_repush", "clean_drop", "clean_avail"} => popped \in Elt

(* The type invariant, made inductive.                                     *)
TypeInv == TypeOK /\ StepsOK

(* The unsigned increment of a counter, without the modulus.               *)
LEMMA IncRange ==
  ASSUME NEW n \in Nat, n < UintMod
  PROVE  Inc(n) = IF n + 1 = UintMod THEN 0 ELSE n + 1
BY ConstantsAssumption DEF Inc

(* The unsigned decrement of a counter, without the modulus.               *)
LEMMA DecRange ==
  ASSUME NEW n \in Nat, n < UintMod
  PROVE  Dec(n) = IF n = 0 THEN UintMod - 1 ELSE n - 1
<1>1. CASE n = 0
  BY <1>1, ConstantsAssumption DEF Dec
<1>2. CASE n # 0
  <2>1. (n - 1 + UintMod) % UintMod = (n - 1) % UintMod
    BY <1>2, ConstantsAssumption
  <2>2. QED
    BY <1>2, <2>1, ConstantsAssumption DEF Dec
<1>3. QED
  BY <1>1, <1>2

(* Neither of them takes a counter out of its range.                       *)
LEMMA CountersInRange ==
  ASSUME NEW n \in 0 .. UintMod - 1
  PROVE  Inc(n) \in 0 .. UintMod - 1 /\ Dec(n) \in 0 .. UintMod - 1
BY ConstantsAssumption, IncRange, DecRange

(* The initial state is well typed: a pool has fewer elements than its     *)
(* counter can count.                                                      *)
LEMMA InitTypes == Init => TypeInv
<1>1. ASSUME NEW q \in Pool
      PROVE  Cardinality({e \in Elt : PoolOf[e] = q}) \in 0 .. UintMod - 1
  BY ConstantsAssumption, FS_Subset, FS_CardinalityType
<1>2. <<>> \in Seq(Elt) /\ Len(<<>>) = 0
  BY EmptySeq
<1>3. ASSUME Init PROVE TypeOK
  <2>1. available \in [Pool -> 0 .. UintMod - 1]
    BY <1>1, <1>3 DEF Init
  <2>2. fifo \in Seq(Elt) /\ Len(fifo) <= FifoSize /\ left \in 0 .. FifoSize
    BY <1>2, <1>3, ConstantsAssumption DEF Init
  <2>3. activating_op_num \in 0 .. UintMod - 1
    BY <1>3, ConstantsAssumption, FS_CardinalityType DEF Init
  <2>4. QED
    BY <1>3, <2>1, <2>2, <2>3 DEF Init, TypeOK
<1>4. QED
  BY <1>3 DEF Init, TypeInv, StepsOK, PushSteps

(* A push that returns LDP_ERROR keeps the types.                          *)
LEMMA PushFailsTypes ==
  ASSUME TypeInv, NEW p \in Producer, PushFails(p), pc[p] # "idle",
         UNCHANGED <<poolVars, op, fifo, activating_op_num, cpc, elt, modVars, cleanVars, fault>>
  PROVE  TypeInv'
BY ConstantsAssumption DEF PushFails, Goto, TypeInv, TypeOK, StepsOK, PushSteps, poolVars,
    modVars, cleanVars

(* The start of a push keeps the types.                                    *)
LEMMA PushBeginTypes ==
  ASSUME TypeInv, NEW p \in Producer, NEW o \in Op, PushBegin(p, o)
  PROVE  TypeInv'
BY ConstantsAssumption DEF PushBegin, Goto, TypeInv, TypeOK, StepsOK, PushSteps, poolVars,
    modVars, cleanVars

(* The check that ldp_element_pool_get makes without the mutex keeps the   *)
(* types.                                                                  *)
LEMMA PoolCheckTypes ==
  ASSUME TypeInv, NEW p \in Producer, PoolCheck(p)
  PROVE  TypeInv'
<1>1. CASE available[arg[p].pool] = 0
  BY <1>1, PushFailsTypes DEF PoolCheck
<1>2. CASE available[arg[p].pool] # 0
  <2>1. TypeOK'
    BY <1>2 DEF PoolCheck, Goto, TypeInv, TypeOK, poolVars, modVars, cleanVars
  <2>2. StepsOK'
    BY <1>2 DEF PoolCheck, Goto, TypeInv, TypeOK, StepsOK, PushSteps, modVars, cleanVars
  <2>3. QED
    BY <2>1, <2>2 DEF TypeInv
<1>3. QED
  BY <1>1, <1>2

(* The critical section of ldp_element_pool_get keeps the types.           *)
LEMMA PoolGetTypes ==
  ASSUME TypeInv, NEW p \in Producer, PoolGet(p)
  PROVE  TypeInv'
<1> DEFINE q == arg[p].pool
<1>1. CASE FreeOf(q) = {}
  BY <1>1, PushFailsTypes DEF PoolGet, poolVars
<1>2. CASE FreeOf(q) # {}
  <2>1. PICK e \in Elt :
            /\ state' = [state EXCEPT ![e] = "USED"]
            /\ available' = [available EXCEPT ![q] = Dec(@)]
            /\ op' = [op EXCEPT ![e] = arg[p]]
            /\ mine' = [mine EXCEPT ![p] = e]
            /\ Goto(p, "push")
            /\ UNCHANGED <<arg, received>>
    BY <1>2 DEF PoolGet, FreeOf
  <2>2. q \in Pool /\ arg[p] \in Op
    BY ConstantsAssumption DEF TypeInv, StepsOK, PoolGet
  <2>3. Dec(available[q]) \in 0 .. UintMod - 1
    BY <2>2, CountersInRange DEF TypeInv, TypeOK
  <2>4. UNCHANGED <<fifo, activating_op_num, cpc, elt, modVars, cleanVars, fault>>
    BY DEF PoolGet
  <2>5. TypeOK'
    BY <2>1, <2>2, <2>3, <2>4 DEF Goto, TypeInv, TypeOK, modVars, cleanVars
  <2>6. StepsOK'
    BY <2>1, <2>2, <2>4 DEF PoolGet, Goto, TypeInv, TypeOK, StepsOK, PushSteps, modVars, cleanVars
  <2>7. QED
    BY <2>5, <2>6 DEF TypeInv
<1>3. QED
  BY <1>1, <1>2

(* ldp_push_fifo and ldp_push_first_fifo keep the types: the FIFO does not *)
(* outgrow its size.                                                       *)
LEMMA FifoPushTypes ==
  ASSUME TypeInv, NEW p \in Producer, FifoPush(p)
  PROVE  TypeInv'
<1>1. mine[p] \in Elt /\ pc[p] = "push" /\ arg[p] \in Op
  BY DEF TypeInv, StepsOK, PushSteps, FifoPush
<1>2. CASE ~HasRoom /\ PushFails(p) /\ UNCHANGED fifo
  BY <1>1, <1>2, PushFailsTypes DEF FifoPush
<1>3. CASE HasRoom /\ Pushed(p) /\ (fifo' = Append(fifo, mine[p]) \/ fifo' = <<mine[p]>> \o fifo)
  <2>1. fifo' \in Seq(Elt) /\ Len(fifo') = Len(fifo) + 1
    <3>1. fifo \in Seq(Elt) /\ <<mine[p]>> \in Seq(Elt) /\ Len(<<mine[p]>>) = 1
      BY <1>1 DEF TypeInv, TypeOK
    <3>2. CASE fifo' = Append(fifo, mine[p])
      BY <1>1, <3>1, <3>2, AppendProperties
    <3>3. CASE fifo' = <<mine[p]>> \o fifo
      <4>1. Len(<<mine[p]>> \o fifo) = 1 + Len(fifo)
        BY <3>1, ConcatProperties
      <4>2. <<mine[p]>> \o fifo \in Seq(Elt)
        BY <3>1, ConcatProperties
      <4>3. QED
        BY <3>1, <3>3, <4>1, <4>2, LenProperties
    <3>4. QED
      BY <1>3, <3>2, <3>3
  <2>2. QED
    BY <1>1, <1>3, <2>1, ConstantsAssumption
    DEF HasRoom, FifoPush, Pushed, Goto, TypeInv, TypeOK, StepsOK, PushSteps, poolVars,
        modVars, cleanVars
<1>4. CASE Goto(p, "fallback") /\ UNCHANGED <<fifo, arg, mine, received>>
  BY <1>1, <1>4, ConstantsAssumption
  DEF FifoPush, Goto, TypeInv, TypeOK, StepsOK, PushSteps, poolVars, modVars, cleanVars
<1>5. QED
  BY <1>2, <1>3, <1>4 DEF FifoPush

(* So does the push that ldp_push_first_fifo falls back on.                *)
LEMMA FifoFallbackTypes ==
  ASSUME TypeInv, NEW p \in Producer, FifoFallback(p)
  PROVE  TypeInv'
<1>1. mine[p] \in Elt /\ pc[p] = "fallback" /\ arg[p] \in Op
  BY DEF TypeInv, StepsOK, PushSteps, FifoFallback
<1>2. fifo' \in Seq(Elt) /\ Len(fifo') <= FifoSize
  BY <1>1, ConstantsAssumption DEF TypeInv, TypeOK, HasRoom, FifoFallback
<1>3. QED
  BY <1>1, <1>2, ConstantsAssumption
  DEF FifoFallback, Pushed, Goto, TypeInv, TypeOK, StepsOK, PushSteps, poolVars, modVars, cleanVars

(* Counting an activating operation keeps the types.                       *)
LEMMA CountTypes ==
  ASSUME TypeInv, NEW p \in Producer, Count(p)
  PROVE  TypeInv'
BY CountersInRange, ConstantsAssumption
DEF Count, Signalled, Goto, TypeInv, TypeOK, StepsOK, PushSteps, poolVars, modVars, cleanVars

(* What follows the wait of ldp_fifo_manager_pop_elt keeps the types.      *)
LEMMA TakeFirstTypes ==
  ASSUME TypeInv, TakeFirst,
         UNCHANGED <<poolVars, op, prodVars, modVars, cleanVars, received, fault>>
  PROVE  TypeInv'
<1>1. CASE fifo = <<>>
  BY <1>1 DEF TakeFirst, TypeInv, TypeOK, StepsOK, poolVars, prodVars, modVars, cleanVars
<1>2. CASE fifo # <<>>
  <2>1. Head(fifo) \in Elt /\ Tail(fifo) \in Seq(Elt) /\ Len(Tail(fifo)) <= FifoSize
    BY <1>2, ConstantsAssumption DEF TypeInv, TypeOK
  <2>2. CountAfterPop(Head(fifo)) \in 0 .. UintMod - 1
    BY CountersInRange DEF CountAfterPop, TypeInv, TypeOK
  <2>3. QED
    BY <1>2, <2>1, <2>2 DEF TakeFirst, TypeInv, TypeOK, StepsOK, poolVars, prodVars,
        modVars, cleanVars
<1>3. QED
  BY <1>1, <1>2

(* The pops and the wakeups keep the types.                                *)
LEMMA PopTypes ==
  ASSUME TypeInv, PopElt \/ PopWoken \/ SpuriousWakeup
  PROVE  TypeInv'
<1>1. CASE TakeFirst
  BY <1>1, TakeFirstTypes DEF PopElt, PopWoken, SpuriousWakeup, TakeFirst
<1>2. CASE ~TakeFirst
  BY <1>2 DEF PopElt, PopWoken, SpuriousWakeup, TypeInv, TypeOK, StepsOK, poolVars,
      prodVars, modVars, cleanVars
<1>3. QED
  BY <1>1, <1>2

(* Running an operation keeps the types.                                   *)
LEMMA HandleTypes ==
  ASSUME TypeInv, Handle
  PROVE  TypeInv'
BY DEF Handle, TypeInv, TypeOK, StepsOK, PushSteps, poolVars, prodVars, modVars, cleanVars

(* ldp_element_pool_release keeps the types.                               *)
LEMMA ReleaseTypes ==
  ASSUME TypeInv, ReleaseFree \/ ReleaseAvail
  PROVE  TypeInv'
<1>1. CASE ReleaseFree
  BY <1>1 DEF ReleaseFree, TypeInv, TypeOK, StepsOK, PushSteps, poolVars, prodVars,
      modVars, cleanVars
<1>2. CASE ReleaseAvail
  <2>1. available' \in [Pool -> 0 .. UintMod - 1]
    BY <1>2, CountersInRange DEF ReleaseAvail, TypeInv, TypeOK
  <2>2. QED
    BY <1>2, <2>1 DEF ReleaseAvail, TypeInv, TypeOK, StepsOK, PushSteps, poolVars,
        prodVars, modVars, cleanVars
<1>3. QED
  BY <1>1, <1>2

(* ldp_fifo_manager_clean keeps the types, in each of its sections.        *)
LEMMA CleanTypes ==
  ASSUME TypeInv, Clean
  PROVE  TypeInv'
<1> USE DEF TypeInv, TypeOK, StepsOK, PushSteps, poolVars, prodVars, modVars, cleanVars
<1>1. CASE CleanBegin
  <2>1. left' \in 0 .. FifoSize
    BY <1>1, ConstantsAssumption, LenProperties DEF CleanBegin
  <2>2. 0 \in 0 .. UintMod - 1
    BY ConstantsAssumption
  <2>3. QED
    BY <1>1, <2>1, <2>2 DEF CleanBegin
<1>2. CASE CleanNext
  <2>1. CASE left = 0 \/ fifo = <<>>
    BY <1>2, <2>1, ConstantsAssumption DEF CleanNext
  <2>2. CASE left # 0 /\ fifo # <<>>
    <3>1. Head(fifo) \in Elt /\ Tail(fifo) \in Seq(Elt) /\ Len(Tail(fifo)) <= FifoSize
      BY <2>2, ConstantsAssumption
    <3>2. left' \in 0 .. FifoSize
      BY <1>2, <2>2, ConstantsAssumption DEF CleanNext
    <3>3. popped' = Head(fifo) /\ fifo' = Tail(fifo) /\ cpc' \in {"clean_repush", "clean_drop"}
      BY <1>2, <2>2 DEF CleanNext
    <3>4. QED
      BY <1>2, <3>1, <3>2, <3>3 DEF CleanNext
  <2>3. QED
    BY <2>1, <2>2
<1>3. CASE CleanRepush
  <2>1. fifo' \in Seq(Elt) /\ Len(fifo') <= FifoSize
    BY <1>3, ConstantsAssumption DEF CleanRepush, Requeued, HasRoom
  <2>2. activating_op_num' \in 0 .. UintMod - 1
    BY <1>3, CountersInRange DEF CleanRepush, Recounted
  <2>3. QED
    BY <1>3, <2>1, <2>2 DEF CleanRepush, IsStart
<1>4. CASE CleanDrop
  BY <1>4 DEF CleanDrop, FindAndClean
<1>5. CASE CleanAvail
  <2>1. available' \in [Pool -> 0 .. UintMod - 1]
    BY <1>5, CountersInRange DEF CleanAvail
  <2>2. QED
    BY <1>5, <2>1 DEF CleanAvail
<1>6. QED
  BY <1>1, <1>2, <1>3, <1>4, <1>5 DEF Clean

(* Every step keeps the types.                                             *)
LEMMA NextTypes == TypeInv /\ [Next]_vars => TypeInv'
<1> SUFFICES ASSUME TypeInv, [Next]_vars PROVE TypeInv'
  OBVIOUS
<1>1. ASSUME NEW p \in Producer, Produce(p) PROVE TypeInv'
  BY <1>1, PoolCheckTypes, PoolGetTypes, FifoPushTypes, FifoFallbackTypes, CountTypes DEF Produce
<1>2. ASSUME NEW p \in Producer, NEW o \in Op, PushBegin(p, o) PROVE TypeInv'
  BY <1>2, PushBeginTypes
<1>3. CASE Consume \/ SpuriousWakeup
  BY <1>3, PopTypes, HandleTypes, ReleaseTypes, CleanTypes DEF Consume
<1>4. CASE UNCHANGED vars
  BY <1>4 DEF vars, TypeInv, TypeOK, StepsOK, PushSteps
<1>5. QED
  BY <1>1, <1>2, <1>3, <1>4 DEF Next

(* The type invariant holds in every reachable state, whatever the         *)
(* operations, the pools and the threads: no unsigned counter leaves its   *)
(* width and the FIFO never has more elements than its size.               *)
THEOREM QueueTyped == Spec => []TypeOK
<1>1. TypeInv => TypeOK
  BY DEF TypeInv
<1>2. QED
  BY InitTypes, NextTypes, <1>1, PTL DEF Spec
-----------------------------------------------------------------------------
(* The activating operations of a queue f after its first l, when o gives  *)
(* the content of the elements.                                            *)
ActiveIn(o, f, l) == {i \in l + 1 .. Len(f) : o[f[i]].act}

(* They are finitely many.                                                 *)
LEMMA ActiveFinite ==
  ASSUME NEW f \in Seq(Elt), NEW l \in Nat, NEW o
  PROVE  /\ IsFiniteSet(ActiveIn(o, f, l))
         /\ Cardinality(ActiveIn(o, f, l)) \in Nat
<1>1. IsFiniteSet(l + 1 .. Len(f))
  BY FS_Interval, LenProperties
<1>2. ActiveIn(o, f, l) \in SUBSET (l + 1 .. Len(f))
  BY DEF ActiveIn
<1>3. QED
  BY <1>1, <1>2, FS_Subset, FS_CardinalityType

(* There are at most as many as operations.                                *)
LEMMA ActiveBounded ==
  ASSUME NEW f \in Seq(Elt), NEW o, NEW l \in Nat
  PROVE  Cardinality(ActiveIn(o, f, l)) <= Len(f)
<1>0. Len(f) \in Nat
  BY LenProperties
<1>1. IsFiniteSet(1 .. Len(f)) /\ Cardinality(1 .. Len(f)) = Len(f)
  BY <1>0, FS_Interval
<1>2. ActiveIn(o, f, l) \in SUBSET (1 .. Len(f))
  BY DEF ActiveIn
<1>3. QED
  BY <1>1, <1>2, FS_Subset

(* ldp_push_fifo adds one, if the operation activates.                     *)
LEMMA ActiveAppend ==
  ASSUME NEW f \in Seq(Elt), NEW e \in Elt, NEW o, NEW l \in 0 .. Len(f)
  PROVE  Cardinality(ActiveIn(o, Append(f, e), l)) =
           Cardinality(ActiveIn(o, f, l)) + (IF o[e].act THEN 1 ELSE 0)
<1> DEFINE g == Append(f, e)
<1>1. /\ Len(f) \in Nat
      /\ Len(g) = Len(f) + 1
      /\ \A i \in 1 .. Len(f) : g[i] = f[i]
      /\ g[Len(f) + 1] = e
  BY AppendProperties, LenProperties
<1> HIDE DEF g
<1>2. IsFiniteSet(ActiveIn(o, f, l)) /\ Cardinality(ActiveIn(o, f, l)) \in Nat
  BY ActiveFinite
<1>3. Len(f) + 1 \notin ActiveIn(o, f, l)
  BY <1>1 DEF ActiveIn
<1>4. CASE o[e].act
  <2>1. ActiveIn(o, g, l) = ActiveIn(o, f, l) \cup {Len(f) + 1}
    BY <1>1, <1>4 DEF ActiveIn
  <2>2. QED
    BY <1>2, <1>3, <1>4, <2>1, FS_AddElement DEF g
<1>5. CASE ~o[e].act
  <2>1. ActiveIn(o, g, l) = ActiveIn(o, f, l)
    BY <1>1, <1>5 DEF ActiveIn
  <2>2. QED
    BY <1>2, <1>5, <2>1 DEF g
<1>6. QED
  BY <1>4, <1>5

(* Taking the first operation shifts the others by one.                    *)
LEMMA ActiveTail ==
  ASSUME NEW f \in Seq(Elt), f # <<>>, NEW o, NEW l \in 1 .. Len(f)
  PROVE  Cardinality(ActiveIn(o, Tail(f), l - 1)) = Cardinality(ActiveIn(o, f, l))
<1> DEFINE S == ActiveIn(o, f, l)
           T == ActiveIn(o, Tail(f), l - 1)
           shift == [i \in S |-> i - 1]
<1>1. /\ Len(f) \in Nat /\ Len(Tail(f)) = Len(f) - 1
      /\ \A i \in 1 .. Len(f) - 1 : Tail(f)[i] = f[i + 1]
  BY HeadTailProperties, LenProperties
<1>2. \A i \in S : i \in Nat /\ i - 1 \in T
  BY <1>1 DEF ActiveIn
<1>3. \A j \in T : j \in Nat /\ j + 1 \in S
  BY <1>1 DEF ActiveIn
<1>4. shift \in Bijection(S, T)
  <2> HIDE DEF S, T
  <2>1. shift \in [S -> T]
    BY <1>2
  <2>2. \A i, j \in S : i # j => shift[i] # shift[j]
    BY <1>2
  <2>3. \A j \in T : \E i \in S : shift[i] = j
    <3> TAKE j \in T
    <3>1. j + 1 \in S /\ shift[j + 1] = j
      BY <1>3
    <3>2. QED
      BY <3>1
  <2>4. QED
    BY <2>1, <2>2, <2>3, Fun_IsBij
<1>5. IsFiniteSet(S)
  BY ActiveFinite
<1>6. QED
  BY <1>4, <1>5, FS_Bijection DEF ExistsBijection

(* The first operation counts, if it activates.                            *)
LEMMA ActiveHead ==
  ASSUME NEW f \in Seq(Elt), f # <<>>, NEW o
  PROVE  Cardinality(ActiveIn(o, f, 0)) =
           Cardinality(ActiveIn(o, Tail(f), 0)) + (IF o[Head(f)].act THEN 1 ELSE 0)
<1>1. Len(f) \in Nat /\ Len(f) > 0 /\ Head(f) = f[1]
  BY EmptySeq, LenProperties
<1>2. Cardinality(ActiveIn(o, Tail(f), 0)) = Cardinality(ActiveIn(o, f, 1))
  BY <1>1, ActiveTail, 1 - 1 = 0, 1 \in 1 .. Len(f)
<1>3. IsFiniteSet(ActiveIn(o, f, 1)) /\ Cardinality(ActiveIn(o, f, 1)) \in Nat
  BY ActiveFinite
<1>4. 1 \notin ActiveIn(o, f, 1)
  BY <1>1 DEF ActiveIn
<1>5. CASE o[Head(f)].act
  <2>1. ActiveIn(o, f, 0) = ActiveIn(o, f, 1) \cup {1}
    BY <1>1, <1>5 DEF ActiveIn
  <2>2. QED
    BY <1>2, <1>3, <1>4, <1>5, <2>1, FS_AddElement
<1>6. CASE ~o[Head(f)].act
  <2>1. ActiveIn(o, f, 0) = ActiveIn(o, f, 1)
    BY <1>1, <1>6 DEF ActiveIn
  <2>2. QED
    BY <1>2, <1>3, <1>6, <2>1
<1>7. QED
  BY <1>5, <1>6

(* An element put in front comes first, the others shift by one.           *)
LEMMA Prepended ==
  ASSUME NEW f \in Seq(Elt), NEW e \in Elt
  PROVE  LET g == <<e>> \o f IN
         /\ g \in Seq(Elt) /\ g # <<>>
         /\ Len(g) = Len(f) + 1 /\ g[1] = e /\ Head(g) = e /\ Tail(g) = f
         /\ \A i \in 1 .. Len(f) : g[i + 1] = f[i]
<1> DEFINE s == <<e>>
           g == s \o f
<1>1. s \in Seq(Elt) /\ Len(s) = 1 /\ s[1] = e /\ Len(f) \in Nat
  BY LenProperties
<1> HIDE DEF s
<1>2. /\ g \in Seq(Elt) /\ Len(g) = Len(f) + 1
      /\ \A i \in 1 .. 1 + Len(f) : g[i] = IF i <= 1 THEN s[i] ELSE f[i - 1]
  <2>1. /\ s \o f \in Seq(Elt) /\ Len(s \o f) = Len(s) + Len(f)
        /\ \A i \in 1 .. Len(s) + Len(f) :
             (s \o f)[i] = IF i <= Len(s) THEN s[i] ELSE f[i - Len(s)]
    BY <1>1, ConcatProperties
  <2>2. QED
    BY <1>1, <2>1
<1> HIDE DEF g
<1>3. g[1] = e /\ \A i \in 1 .. Len(f) : g[i + 1] = f[i]
  <2>1. g[1] = e
    BY <1>1, <1>2
  <2>2. ASSUME NEW i \in 1 .. Len(f) PROVE g[i + 1] = f[i]
    <3>1. i + 1 \in 1 .. 1 + Len(f) /\ ~(i + 1 <= 1) /\ i + 1 - 1 = i
      BY <1>1
    <3>2. QED
      BY <1>2, <3>1
  <2>3. QED
    BY <2>1, <2>2
<1>4. g # <<>>
  BY <1>1, <1>2, Len(<<>>) = 0
<1>5. Head(g) = e
  BY <1>2, <1>3, <1>4
<1>6. Tail(g) = f
  <2>1. /\ Tail(g) \in Seq(Elt) /\ Len(Tail(g)) = Len(f)
        /\ \A i \in 1 .. Len(f) : Tail(g)[i] = g[i + 1]
    BY <1>1, <1>2, <1>4, HeadTailProperties
  <2>2. QED
    BY <1>3, <2>1, SeqEqual
<1>7. QED
  BY <1>2, <1>3, <1>4, <1>5, <1>6 DEF g, s
-----------------------------------------------------------------------------
(* Who owns which element.                                                 *)
CleanSteps == {"clean", "clean_repush", "clean_drop", "clean_avail"}

(* The steps at which the module thread owns the element it popped.        *)
Holding == {"handle", "release", "clean_begin"} \cup CleanSteps

(* The FIFO holds used elements, each of them once.                        *)
FifoOwns ==
  /\ \A i, j \in 1 .. Len(fifo) : fifo[i] = fifo[j] => i = j
  /\ \A i \in 1 .. Len(fifo) : state[fifo[i]] = "USED" /\ op[fifo[i]] \in Op

(* A producer that has an element filled it, and shares it with nobody.    *)
ProducersOwn ==
  /\ \A p \in Producer :
       /\ pc[p] \notin PushSteps => mine[p] = NoElt
       /\ pc[p] \in PushSteps =>
            /\ state[mine[p]] = "USED" /\ op[mine[p]] = arg[p]
            /\ \A i \in 1 .. Len(fifo) : fifo[i] # mine[p]
       /\ pc[p] = "fallback" => arg[p].first
  /\ \A p, r \in Producer : mine[p] \in Elt /\ mine[p] = mine[r] => p = r

(* The module thread owns the element of the operation that it runs.       *)
ConsumerOwns ==
  /\ cpc \in Holding =>
       /\ elt \in Elt /\ state[elt] = "USED" /\ op[elt] \in Op
       /\ \A i \in 1 .. Len(fifo) : fifo[i] # elt
       /\ \A p \in Producer : mine[p] # elt
  /\ cpc = "avail" => elt \in Elt
  /\ cpc \in {"clean_begin"} \cup CleanSteps => op[elt].id \in Cleaning

(* So does a cleaning with the element it has popped.                      *)
CleanOwns ==
  cpc \in {"clean_repush", "clean_drop"} =>
       /\ popped # elt /\ state[popped] = "USED" /\ op[popped] \in Op
       /\ \A i \in 1 .. Len(fifo) : fifo[i] # popped
       /\ \A p \in Producer : mine[p] # popped

(* Who owns which elements.                                                *)
Ownership == FifoOwns /\ ProducersOwn /\ ConsumerOwns /\ CleanOwns

(* The operations at the front of the queue that a cleaning has not looked *)
(* at yet, and has stopped counting.                                       *)
Settled == IF cpc \in CleanSteps THEN left ELSE 0

(* The counter is exact, it is zero when the thread sleeps and not when it *)
(* has been woken up.                                                      *)
Counted ==
  /\ cpc \in CleanSteps => left <= Len(fifo)
  /\ activating_op_num + Cardinality(Uncounted) = Cardinality(ActiveIn(op, fifo, Settled))
  /\ cpc = "waiting" => activating_op_num = 0
  /\ cpc = "woken" => activating_op_num > 0

(* The invariant of the owners and of the counter.                         *)
QueueInv == TypeInv /\ Ownership /\ Counted

(* The size of an interval.                                                *)
LEMMA IntervalSize ==
  ASSUME NEW n \in Nat
  PROVE  IsFiniteSet(1 .. n) /\ Cardinality(1 .. n) = n
BY FS_Interval

(* A queue of distinct elements, none of them in X, is no longer than the  *)
(* number of the other elements.                                           *)
LEMMA DistinctFits ==
  ASSUME NEW f \in Seq(Elt), NEW X \in SUBSET Elt,
         \A i, j \in 1 .. Len(f) : f[i] = f[j] => i = j,
         \A i \in 1 .. Len(f) : f[i] \notin X
  PROVE  /\ Cardinality(X) \in Nat /\ Cardinality(Elt) \in Nat
         /\ Len(f) + Cardinality(X) <= Cardinality(Elt)
<1> DEFINE D == 1 .. Len(f)
<1>0. Len(f) \in Int /\ Len(f) \in Nat
  BY LenProperties
<1>1. IsFiniteSet(D) /\ Cardinality(D) = Len(f)
  BY <1>0, IntervalSize
<1> HIDE DEF D
<1>2. IsFiniteSet(X) /\ Cardinality(X) \in Nat /\ Cardinality(Elt) \in Nat
  <2>1. IsFiniteSet(Elt)
    BY ConstantsAssumption
  <2>2. IsFiniteSet(X)
    BY <2>1, FS_Subset
  <2>3. QED
    BY <2>1, <2>2, FS_CardinalityType
<1>3. /\ IsFiniteSet(Elt \ X)
      /\ Cardinality(Elt \ X) = Cardinality(Elt) - Cardinality(Elt \cap X)
  BY ConstantsAssumption, FS_Difference
<1>4. Elt \cap X = X
  OBVIOUS
<1>5. f \in Injection(D, Elt \ X)
  <2>1. f \in [D -> Elt \ X]
    BY LenProperties DEF D
  <2>2. \A i, j \in D : f[i] = f[j] => i = j
    BY DEF D
  <2>3. QED
    BY <2>1, <2>2 DEF Injection, IsInjective
<1>6. Cardinality(D) <= Cardinality(Elt \ X)
  BY <1>3, <1>5, FS_Injection
<1>7. Len(f) <= Cardinality(Elt) - Cardinality(X)
  BY <1>1, <1>3, <1>4, <1>6
<1>8. QED
  BY <1>0, <1>2, <1>7

(* So the queue of elements that somebody owns fits, and with it the       *)
(* number of activating operations.                                        *)
LEMMA QueueFits ==
  ASSUME TypeInv, FifoOwns, Counted
  PROVE  /\ fifo \in Seq(Elt) /\ Len(fifo) \in Nat
         /\ Cardinality(Elt) \in Nat /\ Len(fifo) <= Cardinality(Elt)
         /\ activating_op_num \in Nat
         /\ IsFiniteSet(Uncounted) /\ Cardinality(Uncounted) \in Nat
         /\ Settled \in 0 .. Len(fifo)
         /\ activating_op_num + Cardinality(Uncounted) <= Len(fifo)
<1>1. fifo \in Seq(Elt) /\ activating_op_num \in Nat
  BY DEF TypeInv, TypeOK
<1>2. Len(fifo) \in Nat
  BY <1>1, LenProperties
<1>3. {} \in SUBSET Elt /\ Cardinality({}) = 0
  BY FS_EmptySet
<1>4. Cardinality(Elt) \in Nat /\ Len(fifo) <= Cardinality(Elt)
  BY <1>1, <1>2, <1>3, DistinctFits DEF FifoOwns
<1>5. IsFiniteSet(Uncounted) /\ Cardinality(Uncounted) \in Nat
  <2>1. Uncounted \in SUBSET Producer
    BY DEF Uncounted
  <2>2. QED
    BY <2>1, ConstantsAssumption, FS_Subset, FS_CardinalityType
<1>6. Settled \in 0 .. Len(fifo)
  BY <1>2 DEF Counted, Settled, TypeInv, TypeOK
<1>7. Cardinality(ActiveIn(op, fifo, Settled)) <= Len(fifo)
  BY <1>1, <1>6, ActiveBounded
<1>8. QED
  BY <1>1, <1>2, <1>4, <1>5, <1>6, <1>7 DEF Counted

(* While the module thread cleans, no producer pushes in front.            *)
LEMMA CleaningIsAtRest ==
  ASSUME QueueInv, Calm, cpc \in {"clean_begin"} \cup CleanSteps
  PROVE  CleanedAtRest
<1>1. op[elt] \in Op /\ op[elt].id \in Cleaning
  BY DEF QueueInv, Ownership, ConsumerOwns, Holding
<1>2. QED
  BY <1>1 DEF Calm, NeverCleaned

(* A thread that goes on finds an operation.                               *)
LEMMA WorkIsQueued ==
  ASSUME QueueInv, activating_op_num > 0, cpc \notin CleanSteps
  PROVE  fifo # <<>> /\ Len(fifo) > 0
<1>1. Len(fifo) > 0
  BY QueueFits DEF QueueInv, Ownership
<1>2. QED
  BY <1>1, Len(<<>>) = 0

(* Initially nothing is queued.                                            *)
LEMMA InitQueueInv == Init => QueueInv
<1> SUFFICES ASSUME Init PROVE QueueInv
  OBVIOUS
<1>1. TypeInv
  BY InitTypes
<1>2. Len(fifo) = 0 /\ fifo = <<>>
  BY DEF Init
<1>3. Ownership
  <2>1. FifoOwns
    BY <1>2 DEF FifoOwns
  <2>2. ProducersOwn
    BY ConstantsAssumption DEF Init, ProducersOwn, PushSteps
  <2>3. ConsumerOwns /\ CleanOwns
    BY DEF Init, ConsumerOwns, CleanOwns, Holding, CleanSteps
  <2>4. QED
    BY <2>1, <2>2, <2>3 DEF Ownership
<1>4. Uncounted = {} /\ ActiveIn(op, fifo, Settled) = {}
  BY <1>2 DEF Init, Uncounted, ActiveIn, Settled, CleanSteps
<1>5. Counted
  <2>1. cpc = "pop" /\ activating_op_num = 0
    BY DEF Init
  <2>2. QED
    BY <1>4, <2>1, FS_EmptySet DEF Counted, CleanSteps
<1>6. QED
  BY <1>1, <1>3, <1>5 DEF QueueInv
-----------------------------------------------------------------------------
(* Steps of a producer that touch neither an element nor the FIFO.         *)
LEMMA QuietStep ==
  ASSUME QueueInv, NEW p \in Producer,
         pc[p] \in {"idle", "check", "get"}, pc'[p] \in {"idle", "check", "get"},
         mine'[p] = NoElt,
         \A r \in Producer \ {p} : pc'[r] = pc[r] /\ arg'[r] = arg[r] /\ mine'[r] = mine[r],
         UNCHANGED <<state, op, fifo, activating_op_num, cpc, elt, left, popped>>
  PROVE  (Ownership /\ Counted)'
<1> USE DEF QueueInv, Ownership, PushSteps
<1>1. FifoOwns'
  BY DEF FifoOwns
<1>2. ProducersOwn'
  BY ConstantsAssumption DEF ProducersOwn
<1>3. ConsumerOwns' /\ CleanOwns'
  <2>1. \A r \in Producer : mine'[r] = mine[r]
    BY DEF ProducersOwn
  <2>2. ConsumerOwns'
    BY <2>1 DEF ConsumerOwns, Holding, CleanSteps
  <2>3. CleanOwns'
    BY <2>1 DEF CleanOwns
  <2>4. QED
    BY <2>2, <2>3
<1>4. Counted'
  <2>1. Uncounted' = Uncounted
    BY DEF Uncounted
  <2>2. ActiveIn(op, fifo, Settled)' = ActiveIn(op, fifo, Settled)
    BY DEF ActiveIn, Settled, CleanSteps
  <2>3. QED
    BY <2>1, <2>2 DEF Counted, CleanSteps
<1>5. QED
  BY <1>1, <1>2, <1>3, <1>4

(* A push begins.                                                          *)
LEMMA PushBeginOwn ==
  ASSUME QueueInv, NEW p \in Producer, NEW o \in Op, PushBegin(p, o)
  PROVE  (Ownership /\ Counted)'
<1>1. /\ pc[p] = "idle" /\ mine[p] = NoElt
      /\ pc'[p] = "check" /\ mine' = mine
      /\ \A r \in Producer \ {p} : pc'[r] = pc[r] /\ arg'[r] = arg[r]
  BY DEF PushBegin, Goto, QueueInv, TypeInv, TypeOK, Ownership, ProducersOwn, PushSteps
<1>2. UNCHANGED <<state, op, fifo, activating_op_num, cpc, elt, left, popped>>
  BY DEF PushBegin, poolVars, cleanVars
<1>3. QED
  BY <1>1, <1>2, QuietStep

(* A push gives up before it has an element.                               *)
LEMMA PushFailsOwn ==
  ASSUME QueueInv, NEW p \in Producer, pc[p] \in {"check", "get"}, PushFails(p),
         UNCHANGED <<poolVars, op, fifo, activating_op_num, cpc, elt, cleanVars>>
  PROVE  (Ownership /\ Counted)'
<1>1. /\ pc'[p] = "idle" /\ mine'[p] = NoElt
      /\ \A r \in Producer \ {p} : pc'[r] = pc[r] /\ arg'[r] = arg[r] /\ mine'[r] = mine[r]
  BY DEF PushFails, Goto, QueueInv, TypeInv, TypeOK
<1>2. UNCHANGED <<state, op, fifo, activating_op_num, cpc, elt, left, popped>>
  BY DEF poolVars, cleanVars
<1>3. QED
  BY <1>1, <1>2, QuietStep

(* The check of the counter.                                               *)
LEMMA PoolCheckOwn ==
  ASSUME QueueInv, NEW p \in Producer, PoolCheck(p)
  PROVE  (Ownership /\ Counted)'
<1>1. CASE available[arg[p].pool] = 0
  BY <1>1, PushFailsOwn DEF PoolCheck
<1>2. CASE available[arg[p].pool] # 0
  <2>1. /\ pc[p] = "check" /\ mine[p] = NoElt
        /\ pc'[p] = "get" /\ mine' = mine /\ arg' = arg
        /\ \A r \in Producer \ {p} : pc'[r] = pc[r]
    BY <1>2 DEF PoolCheck, Goto, QueueInv, TypeInv, TypeOK, Ownership, ProducersOwn, PushSteps
  <2>2. UNCHANGED <<state, op, fifo, activating_op_num, cpc, elt, left, popped>>
    BY DEF PoolCheck, poolVars, cleanVars
  <2>3. QED
    BY <2>1, <2>2, QuietStep
<1>3. QED
  BY <1>1, <1>2

(* A producer gets a free element, which nobody owns.                      *)
LEMMA PoolGetOwn ==
  ASSUME QueueInv, NEW p \in Producer, PoolGet(p)
  PROVE  (Ownership /\ Counted)'
<1> DEFINE q == arg[p].pool
<1>1. CASE FreeOf(q) = {}
  BY <1>1, PushFailsOwn DEF PoolGet
<1>2. CASE FreeOf(q) # {}
  <2>1. PICK e \in FreeOf(q) :
            /\ state' = [state EXCEPT ![e] = "USED"]
            /\ op' = [op EXCEPT ![e] = arg[p]]
            /\ mine' = [mine EXCEPT ![p] = e]
            /\ Goto(p, "push")
            /\ UNCHANGED arg
    BY <1>2 DEF PoolGet
  <2>2. /\ e \in Elt /\ state[e] = "FREE" /\ pc[p] = "get" /\ arg[p] \in Op
        /\ state \in [Elt -> {"FREE", "USED"}] /\ fifo \in Seq(Elt)
        /\ op \in [Elt -> Op \cup {NoOp}]
        /\ mine \in [Producer -> Elt \cup {NoElt}]
    BY DEF FreeOf, PoolGet, QueueInv, TypeInv, TypeOK, StepsOK
  <2>3. UNCHANGED <<fifo, activating_op_num, cpc, elt, left, popped>>
    BY DEF PoolGet, cleanVars
  <2>4. /\ pc'[p] = "push" /\ mine'[p] = e /\ state'[e] = "USED" /\ op'[e] = arg[p]
        /\ \A r \in Producer \ {p} : pc'[r] = pc[r] /\ mine'[r] = mine[r]
        /\ \A d \in Elt \ {e} : state'[d] = state[d] /\ op'[d] = op[d]
    BY <2>1, <2>2 DEF Goto, QueueInv, TypeInv, TypeOK
  <2>5. \A i \in 1 .. Len(fifo) : fifo[i] \in Elt \ {e}
    BY <2>2, ElementOfSeq DEF QueueInv, Ownership, FifoOwns
  <2>6. \A r \in Producer : mine[r] # e
    <3>1. ASSUME NEW r \in Producer, mine[r] = e PROVE FALSE
      BY <2>2, <3>1, ConstantsAssumption DEF QueueInv, Ownership, ProducersOwn
    <3>2. QED
      BY <3>1
  <2>7. FifoOwns'
    BY <2>3, <2>4, <2>5 DEF QueueInv, Ownership, FifoOwns
  <2>8. ProducersOwn'
    <3>1. ASSUME NEW r \in Producer
          PROVE  /\ pc'[r] \notin PushSteps => mine'[r] = NoElt
                 /\ pc'[r] \in PushSteps =>
                      /\ state'[mine'[r]] = "USED" /\ op'[mine'[r]] = arg'[r]
                      /\ \A i \in 1 .. Len(fifo') : fifo'[i] # mine'[r]
                 /\ pc'[r] = "fallback" => arg'[r].first
      <4>1. CASE r = p
        BY <2>1, <2>3, <2>4, <2>5, <4>1 DEF PushSteps
      <4>2. CASE r # p
        <5>1. pc[r] \in PushSteps => mine[r] \in Elt \ {e}
          BY <2>6, <4>2 DEF QueueInv, TypeInv, StepsOK
        <5>2. QED
          BY <2>1, <2>3, <2>4, <4>2, <5>1 DEF QueueInv, Ownership, ProducersOwn, PushSteps
      <4>3. QED
        BY <4>1, <4>2
    <3>2. ASSUME NEW r \in Producer, NEW s \in Producer, mine'[r] \in Elt, mine'[r] = mine'[s]
          PROVE  r = s
      BY <2>4, <2>6, <3>2 DEF QueueInv, Ownership, ProducersOwn
    <3>3. QED
      BY <3>1, <3>2 DEF ProducersOwn
  <2>9. ConsumerOwns'
    <3>1. cpc \in Holding => elt \in Elt \ {e}
      BY <2>2 DEF QueueInv, Ownership, ConsumerOwns
    <3>2. cpc \in {"clean_begin"} \cup CleanSteps => cpc \in Holding
      BY DEF Holding
    <3>3. QED
      BY <2>3, <2>4, <3>1, <3>2 DEF QueueInv, Ownership, ConsumerOwns, Holding, CleanSteps
  <2>10. CleanOwns'
    <3>1. cpc \in {"clean_repush", "clean_drop"} => popped \in Elt \ {e}
      BY <2>2 DEF QueueInv, TypeInv, StepsOK, Ownership, CleanOwns
    <3>2. QED
      BY <2>3, <2>4, <3>1 DEF QueueInv, Ownership, CleanOwns
  <2>11. Counted'
    <3>1. Uncounted' = Uncounted
      BY <2>2, <2>4 DEF Uncounted
    <3>2. Settled' = Settled /\ Settled \in Nat
      BY <2>3, QueueFits DEF Settled, QueueInv, Ownership
    <3>3. ActiveIn(op', fifo, Settled) = ActiveIn(op, fifo, Settled)
      <4>1. \A i \in Settled + 1 .. Len(fifo) : op'[fifo[i]] = op[fifo[i]]
        BY <2>2, <2>4, <2>5, <3>2, LenProperties
      <4>2. QED
        BY <4>1 DEF ActiveIn
    <3>4. QED
      BY <2>3, <3>1, <3>2, <3>3 DEF QueueInv, Counted
  <2>12. QED
    BY <2>7, <2>8, <2>9, <2>10, <2>11 DEF Ownership
<1>3. QED
  BY <1>1, <1>2
-----------------------------------------------------------------------------
(* A producer hands its element over to the FIFO, at either end.           *)
LEMMA HandOver ==
  ASSUME QueueInv, NEW p \in Producer, pc[p] \in PushSteps, Pushed(p),
         UNCHANGED <<state, op, activating_op_num, cpc, elt, left, popped>>,
         \/ fifo' = Append(fifo, mine[p])
         \/ fifo' = <<mine[p]>> \o fifo /\ cpc \notin CleanSteps
  PROVE  (Ownership /\ Counted)'
<1> DEFINE e == mine[p]
<1>1. /\ e \in Elt /\ state[e] = "USED" /\ op[e] = arg[p] /\ arg[p] \in Op
      /\ \A i \in 1 .. Len(fifo) : fifo[i] # e
      /\ \A r \in Producer \ {p} : mine[r] # e
      /\ fifo \in Seq(Elt) /\ Len(fifo) \in Nat
  BY LenProperties DEF QueueInv, TypeInv, TypeOK, StepsOK, Ownership, ProducersOwn, PushSteps
<1>2. /\ mine'[p] = NoElt /\ arg' = arg
      /\ pc'[p] = IF arg[p].act THEN "count" ELSE "idle"
      /\ \A r \in Producer \ {p} : pc'[r] = pc[r] /\ mine'[r] = mine[r]
  BY DEF Pushed, Goto, QueueInv, TypeInv, TypeOK
<1> HIDE DEF e
<1>3. \/ /\ Len(fifo') = Len(fifo) + 1 /\ fifo'[Len(fifo) + 1] = e
         /\ \A i \in 1 .. Len(fifo) : fifo'[i] = fifo[i]
      \/ /\ Len(fifo') = Len(fifo) + 1 /\ fifo'[1] = e
         /\ \A i \in 1 .. Len(fifo) : fifo'[i + 1] = fifo[i]
  <2>1. CASE fifo' = Append(fifo, mine[p])
    BY <1>1, <2>1, AppendProperties DEF e
  <2>2. CASE fifo' = <<mine[p]>> \o fifo
    BY <1>1, <2>2, Prepended DEF e
  <2>3. QED
    BY <2>1, <2>2
<1>4. \A j \in 1 .. Len(fifo') :
        fifo'[j] = e \/ \E i \in 1 .. Len(fifo) : fifo'[j] = fifo[i]
  <2>1. ASSUME NEW j \in 1 .. Len(fifo'), fifo'[j] # e
        PROVE  \E i \in 1 .. Len(fifo) : fifo'[j] = fifo[i]
    <3>1. j \in 1 .. Len(fifo) \/ j - 1 \in 1 .. Len(fifo)
      BY <1>1, <1>3, <2>1
    <3>2. \/ j \in 1 .. Len(fifo) /\ fifo'[j] = fifo[j]
          \/ j - 1 \in 1 .. Len(fifo) /\ fifo'[j - 1 + 1] = fifo[j - 1] /\ j - 1 + 1 = j
      BY <1>1, <1>3, <2>1, <3>1
    <3>3. QED
      BY <3>2
  <2>2. QED
    BY <2>1
<1>5. FifoOwns'
  <2>1. ASSUME NEW i \in 1 .. Len(fifo'), NEW j \in 1 .. Len(fifo'), fifo'[i] = fifo'[j]
        PROVE  i = j
    <3>1. CASE /\ Len(fifo') = Len(fifo) + 1 /\ fifo'[Len(fifo) + 1] = e
               /\ \A k \in 1 .. Len(fifo) : fifo'[k] = fifo[k]
      BY <1>1, <2>1, <3>1 DEF QueueInv, Ownership, FifoOwns
    <3>2. CASE /\ Len(fifo') = Len(fifo) + 1 /\ fifo'[1] = e
               /\ \A k \in 1 .. Len(fifo) : fifo'[k + 1] = fifo[k]
      <4>1. \A k \in 1 .. Len(fifo') : k # 1 =>
               /\ k - 1 \in 1 .. Len(fifo) /\ fifo'[k] = fifo[k - 1] /\ fifo'[k] # e
        <5> TAKE k \in 1 .. Len(fifo')
        <5> HAVE k # 1
        <5>1. k - 1 \in 1 .. Len(fifo) /\ k - 1 + 1 = k
          BY <1>1, <3>2
        <5>2. fifo'[k] = fifo[k - 1] /\ fifo[k - 1] # e
          <6>1. fifo'[k - 1 + 1] = fifo[k - 1]
            BY <3>2, <5>1
          <6>2. QED
            BY <1>1, <5>1, <6>1
        <5>3. QED
          BY <5>1, <5>2
      <4>2. \A k, l \in 1 .. Len(fifo) : fifo[k] = fifo[l] => k = l
        BY DEF QueueInv, Ownership, FifoOwns
      <4>3. CASE i = 1 \/ j = 1
        BY <2>1, <3>2, <4>1, <4>3
      <4>4. CASE i # 1 /\ j # 1
        <5>1. i - 1 \in 1 .. Len(fifo) /\ j - 1 \in 1 .. Len(fifo) /\ fifo[i - 1] = fifo[j - 1]
          BY <2>1, <4>1, <4>4
        <5>2. i - 1 = j - 1
          BY <4>2, <5>1
        <5>3. QED
          BY <1>1, <3>2, <5>2
      <4>5. QED
        BY <4>3, <4>4
    <3>3. QED
      BY <1>3, <3>1, <3>2
  <2>2. \A i \in 1 .. Len(fifo') : state'[fifo'[i]] = "USED" /\ op'[fifo'[i]] \in Op
    BY <1>1, <1>4 DEF QueueInv, Ownership, FifoOwns
  <2>3. QED
    BY <2>1, <2>2 DEF FifoOwns
<1>6. ProducersOwn'
  <2>1. ASSUME NEW r \in Producer
        PROVE  /\ pc'[r] \notin PushSteps => mine'[r] = NoElt
               /\ pc'[r] \in PushSteps =>
                    /\ state'[mine'[r]] = "USED" /\ op'[mine'[r]] = arg'[r]
                    /\ \A i \in 1 .. Len(fifo') : fifo'[i] # mine'[r]
               /\ pc'[r] = "fallback" => arg'[r].first
    <3>1. CASE r = p
      BY <1>2, <3>1 DEF PushSteps
    <3>2. CASE r # p
      BY <1>1, <1>2, <1>4, <3>2 DEF QueueInv, Ownership, ProducersOwn
    <3>3. QED
      BY <3>1, <3>2
  <2>2. ASSUME NEW r \in Producer, NEW s \in Producer, mine'[r] \in Elt, mine'[r] = mine'[s]
        PROVE  r = s
    BY <1>2, <2>2, ConstantsAssumption DEF QueueInv, Ownership, ProducersOwn
  <2>3. QED
    BY <2>1, <2>2 DEF ProducersOwn
<1>7. ConsumerOwns'
  <2>1. cpc \in Holding => elt \in Elt /\ elt # e
    BY DEF QueueInv, Ownership, ConsumerOwns, e
  <2>2. cpc \in Holding => \A i \in 1 .. Len(fifo') : fifo'[i] # elt
    BY <1>4, <2>1 DEF QueueInv, Ownership, ConsumerOwns
  <2>3. cpc \in Holding => \A r \in Producer : mine'[r] # elt
    BY <1>2, <2>1, ConstantsAssumption DEF QueueInv, Ownership, ConsumerOwns
  <2>4. QED
    BY <2>2, <2>3 DEF QueueInv, Ownership, ConsumerOwns, Holding, CleanSteps
<1>8. CleanOwns'
  <2>1. cpc \in {"clean_repush", "clean_drop"} => popped \in Elt /\ popped # e
    BY DEF QueueInv, TypeInv, StepsOK, Ownership, CleanOwns, e
  <2>2. cpc \in {"clean_repush", "clean_drop"} =>
          /\ \A i \in 1 .. Len(fifo') : fifo'[i] # popped
          /\ \A r \in Producer : mine'[r] # popped
    BY <1>2, <1>4, <2>1, ConstantsAssumption DEF QueueInv, Ownership, CleanOwns
  <2>3. QED
    BY <2>2 DEF QueueInv, Ownership, CleanOwns
<1>9. Counted'
  <2>1. /\ Settled' = Settled /\ Settled \in 0 .. Len(fifo)
        /\ IsFiniteSet(Uncounted) /\ Cardinality(Uncounted) \in Nat
        /\ activating_op_num \in Nat
    BY QueueFits DEF Settled, QueueInv, Ownership, CleanSteps
  <2>2. Cardinality(ActiveIn(op, fifo', Settled)) =
          Cardinality(ActiveIn(op, fifo, Settled)) + (IF op[e].act THEN 1 ELSE 0)
    <3>1. CASE fifo' = Append(fifo, mine[p])
      BY <1>1, <2>1, <3>1, ActiveAppend DEF e
    <3>2. CASE fifo' = <<mine[p]>> \o fifo /\ cpc \notin CleanSteps
      <4>1. /\ fifo' \in Seq(Elt) /\ fifo' # <<>>
            /\ Head(fifo') = e /\ Tail(fifo') = fifo
        BY <1>1, <3>2, Prepended DEF e
      <4>2. Settled = 0
        BY <3>2 DEF Settled
      <4>3. QED
        BY <4>1, <4>2, ActiveHead
    <3>3. QED
      BY <3>1, <3>2
  <2>3. p \notin Uncounted
    BY DEF Uncounted, PushSteps
  <2> DEFINE n == Cardinality(ActiveIn(op, fifo, Settled))
             m == Cardinality(ActiveIn(op, fifo', Settled))
  <2>7. /\ activating_op_num + Cardinality(Uncounted) = n
        /\ cpc \in CleanSteps => left <= Len(fifo)
        /\ cpc = "waiting" => activating_op_num = 0
        /\ cpc = "woken" => activating_op_num > 0
    BY DEF QueueInv, Counted
  <2>8. /\ m = Cardinality(ActiveIn(op, fifo, Settled))'
        /\ cpc' \in CleanSteps => left' <= Len(fifo')
        /\ cpc' = "waiting" => activating_op_num' = 0
        /\ cpc' = "woken" => activating_op_num' > 0
    <3>1. m = Cardinality(ActiveIn(op, fifo, Settled))'
      BY <2>1
    <3>2. left \in Nat /\ Len(fifo') = Len(fifo) + 1
      BY <1>3 DEF QueueInv, TypeInv, TypeOK
    <3>3. cpc \in CleanSteps => left <= Len(fifo')
      BY <1>1, <2>7, <3>2
    <3>4. QED
      BY <2>7, <3>1, <3>3 DEF CleanSteps
  <2>9. left \in Nat
    BY DEF QueueInv, TypeInv, TypeOK
  <2> HIDE DEF n, m
  <2>4. CASE arg[p].act
    <3>1. Uncounted' = Uncounted \cup {p}
      BY <1>2, <2>4 DEF Uncounted
    <3>2. Cardinality(Uncounted') = Cardinality(Uncounted) + 1
      BY <2>1, <2>3, <3>1, FS_AddElement
    <3>3. m = n + 1
      BY <1>1, <2>2, <2>4 DEF n, m
    <3>4. QED
      BY <2>1, <2>7, <2>8, <3>2, <3>3 DEF Counted
  <2>5. CASE ~arg[p].act
    <3>1. Uncounted' = Uncounted
      BY <1>2, <2>3, <2>5 DEF Uncounted
    <3>2. n \in Nat
      BY <2>1, <2>7
    <3>3. m = n
      BY <1>1, <2>2, <2>5, <3>2 DEF n, m
    <3>4. QED
      BY <2>1, <2>7, <2>8, <3>1, <3>3 DEF Counted
  <2>6. QED
    BY <2>4, <2>5
<1>10. QED
  BY <1>5, <1>6, <1>7, <1>8, <1>9 DEF Ownership

(* A push that finds the FIFO full forgets its element.                    *)
LEMMA PushFullOwn ==
  ASSUME QueueInv, NEW p \in Producer, pc[p] = "push", PushFails(p),
         UNCHANGED <<fifo, poolVars, op, activating_op_num, cpc, elt, cleanVars>>
  PROVE  (Ownership /\ Counted)'
<1>1. /\ pc'[p] = "idle" /\ mine'[p] = NoElt
      /\ \A r \in Producer \ {p} : pc'[r] = pc[r] /\ arg'[r] = arg[r] /\ mine'[r] = mine[r]
  BY DEF PushFails, Goto, QueueInv, TypeInv, TypeOK
<1>2. UNCHANGED <<state, op, fifo, activating_op_num, cpc, elt, left, popped>>
  BY DEF poolVars, cleanVars
<1>3. FifoOwns'
  BY <1>2 DEF QueueInv, Ownership, FifoOwns
<1>4. ProducersOwn'
  BY <1>1, <1>2, ConstantsAssumption DEF QueueInv, Ownership, ProducersOwn, PushSteps
<1>5. ConsumerOwns' /\ CleanOwns'
  <2>1. cpc \in Holding => elt \in Elt /\ \A r \in Producer : mine'[r] # elt
    BY <1>1, ConstantsAssumption DEF QueueInv, Ownership, ConsumerOwns
  <2>2. ConsumerOwns'
    BY <1>2, <2>1 DEF QueueInv, Ownership, ConsumerOwns, Holding, CleanSteps
  <2>3. cpc \in {"clean_repush", "clean_drop"} => \A r \in Producer : mine'[r] # popped
    BY <1>1, ConstantsAssumption DEF QueueInv, TypeInv, StepsOK, Ownership, CleanOwns
  <2>4. CleanOwns'
    BY <1>2, <2>3 DEF QueueInv, Ownership, CleanOwns
  <2>5. QED
    BY <2>2, <2>4
<1>6. Counted'
  <2>1. Uncounted' = Uncounted
    BY <1>1 DEF Uncounted
  <2>2. ActiveIn(op, fifo, Settled)' = ActiveIn(op, fifo, Settled)
    BY <1>2 DEF ActiveIn, Settled, CleanSteps
  <2>3. QED
    BY <1>2, <2>1, <2>2 DEF QueueInv, Counted, CleanSteps
<1>7. QED
  BY <1>3, <1>4, <1>5, <1>6 DEF Ownership

(* ldp_push_first_fifo on an empty FIFO falls back on ldp_push_fifo.       *)
LEMMA FallbackOwn ==
  ASSUME QueueInv, NEW p \in Producer, pc[p] = "push", arg[p].first, Goto(p, "fallback"),
         UNCHANGED <<fifo, arg, mine, poolVars, op, activating_op_num, cpc, elt, cleanVars>>
  PROVE  (Ownership /\ Counted)'
<1>1. pc'[p] = "fallback" /\ \A r \in Producer \ {p} : pc'[r] = pc[r]
  BY DEF Goto, QueueInv, TypeInv, TypeOK
<1>2. UNCHANGED <<state, op, fifo, activating_op_num, cpc, elt, left, popped>>
  BY DEF poolVars, cleanVars
<1>3. FifoOwns'
  BY <1>2 DEF QueueInv, Ownership, FifoOwns
<1>4. ProducersOwn'
  BY <1>1, <1>2 DEF QueueInv, Ownership, ProducersOwn, PushSteps
<1>5. ConsumerOwns' /\ CleanOwns'
  BY <1>2 DEF QueueInv, Ownership, ConsumerOwns, CleanOwns, Holding, CleanSteps
<1>6. Counted'
  <2>1. Uncounted' = Uncounted
    BY <1>1 DEF Uncounted
  <2>2. ActiveIn(op, fifo, Settled)' = ActiveIn(op, fifo, Settled)
    BY <1>2 DEF ActiveIn, Settled, CleanSteps
  <2>3. QED
    BY <1>2, <2>1, <2>2 DEF QueueInv, Counted, CleanSteps
<1>7. QED
  BY <1>3, <1>4, <1>5, <1>6 DEF Ownership

(* ldp_push_fifo and ldp_push_first_fifo.                                  *)
LEMMA FifoPushOwn ==
  ASSUME QueueInv, Calm, NEW p \in Producer, FifoPush(p)
  PROVE  (Ownership /\ Counted)'
<1>1. /\ pc[p] = "push" /\ pc[p] \in PushSteps
      /\ UNCHANGED <<poolVars, op, activating_op_num, cpc, elt, cleanVars>>
      /\ UNCHANGED <<state, op, activating_op_num, cpc, elt, left, popped>>
  BY DEF FifoPush, PushSteps, poolVars, cleanVars
<1>2. CASE ~HasRoom /\ PushFails(p) /\ UNCHANGED fifo
  BY <1>1, <1>2, PushFullOwn
<1>3. CASE fifo' = Append(fifo, mine[p]) /\ Pushed(p)
  BY <1>1, <1>3, HandOver
<1>4. CASE arg[p].first /\ fifo' = <<mine[p]>> \o fifo /\ Pushed(p)
  <2>1. arg[p] \in Op
    BY <1>1 DEF QueueInv, TypeInv, StepsOK
  <2>2. cpc \notin CleanSteps
    BY <1>4, <2>1, CleaningIsAtRest DEF CleanedAtRest
  <2>3. QED
    BY <1>1, <1>4, <2>2, HandOver
<1>5. CASE arg[p].first /\ Goto(p, "fallback") /\ UNCHANGED <<fifo, arg, mine, received>>
  BY <1>1, <1>5, FallbackOwn
<1>6. QED
  BY <1>2, <1>3, <1>4, <1>5 DEF FifoPush

(* The second push of ldp_push_first_fifo finds room.                      *)
LEMMA FifoFallbackOwn ==
  ASSUME QueueInv, Calm, NEW p \in Producer, FifoFallback(p)
  PROVE  (Ownership /\ Counted)'
<1>1. /\ pc[p] = "fallback" /\ pc[p] \in PushSteps /\ Pushed(p)
      /\ UNCHANGED <<state, op, activating_op_num, cpc, elt, left, popped>>
  BY DEF FifoFallback, PushSteps, poolVars, cleanVars
<1>2. /\ arg[p] \in Op /\ arg[p].first /\ mine[p] \in Elt
      /\ \A i \in 1 .. Len(fifo) : fifo[i] # mine[p]
  BY <1>1 DEF QueueInv, TypeInv, StepsOK, Ownership, ProducersOwn
<1>3. FifoSize >= Cardinality(Elt)
  BY <1>2 DEF Calm, NeverCleaned, CleanedAtRest
<1>4. Len(fifo) + Cardinality({mine[p]}) <= Cardinality(Elt)
  <2>1. fifo \in Seq(Elt) /\ {mine[p]} \in SUBSET Elt
    BY <1>2 DEF QueueInv, TypeInv, TypeOK
  <2>2. QED
    BY <1>2, <2>1, DistinctFits DEF QueueInv, Ownership, FifoOwns
<1>5. HasRoom
  <2>1. Cardinality({mine[p]}) = 1
    BY FS_Singleton
  <2>2. Len(fifo) \in Nat /\ Cardinality(Elt) \in Nat
    BY QueueFits DEF QueueInv, Ownership
  <2>3. QED
    BY <1>3, <1>4, <2>1, <2>2, ConstantsAssumption DEF HasRoom
<1>6. fifo' = Append(fifo, mine[p])
  BY <1>5 DEF FifoFallback
<1>7. QED
  BY <1>1, <1>6, HandOver

(* The activating section counts the operation.                            *)
LEMMA CountOwn ==
  ASSUME QueueInv, NEW p \in Producer, Count(p)
  PROVE  (Ownership /\ Counted)'
<1>1. /\ pc[p] = "count" /\ pc'[p] = "idle" /\ mine' = mine
      /\ \A r \in Producer \ {p} : pc'[r] = pc[r] /\ arg'[r] = arg[r]
  BY DEF Count, Goto, QueueInv, TypeInv, TypeOK
<1>2. UNCHANGED <<state, op, fifo, elt, left, popped>>
  BY DEF Count, poolVars, cleanVars
<1>3. /\ cpc \notin CleanSteps
      /\ cpc' = IF cpc = "waiting" THEN "woken" ELSE cpc
      /\ activating_op_num' = Inc(activating_op_num)
  BY DEF Count, ManagerMutexFree, CleanSteps, Signalled
<1>4. FifoOwns'
  BY <1>2 DEF QueueInv, Ownership, FifoOwns
<1>5. ProducersOwn'
  BY <1>1, <1>2 DEF QueueInv, Ownership, ProducersOwn, PushSteps
<1>6. ConsumerOwns' /\ CleanOwns'
  BY <1>1, <1>2, <1>3 DEF QueueInv, Ownership, ConsumerOwns, CleanOwns, Holding, CleanSteps
<1>7. Counted'
  <2>1. /\ IsFiniteSet(Uncounted) /\ Cardinality(Uncounted) \in Nat
        /\ activating_op_num \in Nat /\ activating_op_num < UintMod
        /\ activating_op_num + Cardinality(Uncounted) <= Cardinality(Elt)
        /\ Cardinality(Elt) \in Nat /\ Cardinality(Elt) < UintMod /\ UintMod \in Nat
    BY QueueFits, ConstantsAssumption DEF QueueInv, Ownership, TypeInv, TypeOK
  <2>2. Uncounted' = Uncounted \ {p} /\ p \in Uncounted
    BY <1>1 DEF Uncounted
  <2>3. Cardinality(Uncounted') = Cardinality(Uncounted) - 1 /\ Cardinality(Uncounted') \in Nat
    <3>1. Cardinality(Uncounted') = Cardinality(Uncounted) - 1 /\ IsFiniteSet(Uncounted')
      BY <2>1, <2>2, FS_RemoveElement
    <3>2. QED
      BY <3>1, FS_CardinalityType
  <2>4. activating_op_num' = activating_op_num + 1
    BY <1>3, <2>1, <2>3, IncRange
  <2>5. Settled = 0 /\ Settled' = 0
    BY <1>3 DEF Settled, CleanSteps
  <2>6. ActiveIn(op, fifo, Settled)' = ActiveIn(op, fifo, Settled)
    BY <1>2, <2>5 DEF ActiveIn
  <2>7. QED
    BY <1>3, <2>1, <2>3, <2>4, <2>6 DEF QueueInv, Counted, CleanSteps
<1>8. QED
  BY <1>4, <1>5, <1>6, <1>7 DEF Ownership
-----------------------------------------------------------------------------
(* Steps of the module thread after which the producers and the FIFO are   *)
(* as before: what they own they still own.                                *)
LEMMA ConsumerFrame ==
  ASSUME QueueInv, UNCHANGED <<fifo, op, pc, arg, mine>>,
         \/ state' = state
         \/ \E e \in Elt : /\ state' = [state EXCEPT ![e] = "FREE"]
                           /\ \A i \in 1 .. Len(fifo) : fifo[i] # e
                           /\ \A p \in Producer : mine[p] # e
  PROVE  FifoOwns' /\ ProducersOwn'
<1> USE DEF QueueInv, Ownership
<1>1. CASE state' = state
  BY <1>1 DEF FifoOwns, ProducersOwn
<1>2. ASSUME NEW e \in Elt, state' = [state EXCEPT ![e] = "FREE"],
             \A i \in 1 .. Len(fifo) : fifo[i] # e,
             \A p \in Producer : mine[p] # e
      PROVE  FifoOwns' /\ ProducersOwn'
  <2>1. /\ state \in [Elt -> {"FREE", "USED"}] /\ fifo \in Seq(Elt)
        /\ \A d \in Elt : d # e => state'[d] = state[d]
    BY <1>2 DEF TypeInv, TypeOK
  <2>2. \A i \in 1 .. Len(fifo) : fifo[i] \in Elt
    BY <2>1, ElementOfSeq
  <2>3. \A p \in Producer : pc[p] \in PushSteps => mine[p] \in Elt
    BY DEF TypeInv, StepsOK
  <2>4. FifoOwns'
    BY <1>2, <2>1, <2>2 DEF FifoOwns
  <2>5. ProducersOwn'
    BY <1>2, <2>1, <2>3 DEF ProducersOwn
  <2>6. QED
    BY <2>4, <2>5
<1>3. QED
  BY <1>1, <1>2

(* The count of a step that changes neither the FIFO nor the counter nor   *)
(* what a cleaning has left to look at.                                    *)
LEMMA CountFrame ==
  ASSUME QueueInv, UNCHANGED <<fifo, op, pc, activating_op_num, left>>,
         (cpc' \in CleanSteps) = (cpc \in CleanSteps),
         cpc' = "waiting" => activating_op_num = 0,
         cpc' # "woken"
  PROVE  Counted'
<1>1. Uncounted' = Uncounted
  BY DEF Uncounted
<1>2. Settled' = Settled
  BY DEF Settled
<1>3. ActiveIn(op, fifo, Settled)' = ActiveIn(op, fifo, Settled)
  BY <1>2 DEF ActiveIn
<1>4. QED
  BY <1>1, <1>3 DEF QueueInv, Counted

(* What follows the wait takes the first operation.                        *)
LEMMA TakeFirstOwn ==
  ASSUME QueueInv, cpc \in {"pop", "woken"}, activating_op_num > 0, TakeFirst,
         UNCHANGED <<poolVars, op, prodVars, cleanVars>>
  PROVE  fifo # <<>> /\ (Ownership /\ Counted)'
<1> DEFINE e == Head(fifo)
<1>1. fifo # <<>> /\ Len(fifo) > 0
  BY WorkIsQueued DEF CleanSteps
<1>2. /\ elt' = e /\ fifo' = Tail(fifo) /\ cpc' = "handle"
      /\ activating_op_num' = CountAfterPop(e)
      /\ UNCHANGED <<state, op, pc, arg, mine, left, popped>>
  BY <1>1 DEF TakeFirst, poolVars, prodVars, cleanVars
<1>3. /\ fifo \in Seq(Elt) /\ Len(fifo) \in Nat /\ e = fifo[1] /\ 1 \in 1 .. Len(fifo)
      /\ e \in Elt
      /\ Len(fifo') = Len(fifo) - 1
      /\ \A i \in 1 .. Len(fifo') : fifo'[i] = fifo[i + 1] /\ i + 1 \in 1 .. Len(fifo)
  BY <1>1, <1>2, HeadTailProperties, LenProperties DEF QueueInv, TypeInv, TypeOK
<1> HIDE DEF e
<1>4. /\ state[e] = "USED" /\ op[e] \in Op
      /\ \A i \in 1 .. Len(fifo') : fifo'[i] # e
      /\ \A p \in Producer : mine[p] # e
  <2>1. state[e] = "USED" /\ op[e] \in Op
    BY <1>3 DEF QueueInv, Ownership, FifoOwns
  <2>2. ASSUME NEW i \in 1 .. Len(fifo'), fifo'[i] = e PROVE FALSE
    <3>1. fifo[i + 1] = fifo[1] /\ i + 1 \in 1 .. Len(fifo) /\ i + 1 # 1
      BY <1>3, <2>2
    <3>2. QED
      BY <1>3, <3>1 DEF QueueInv, Ownership, FifoOwns
  <2>3. ASSUME NEW p \in Producer, mine[p] = e PROVE FALSE
    BY <1>3, <2>3, ConstantsAssumption DEF QueueInv, Ownership, ProducersOwn
  <2>4. QED
    BY <2>1, <2>2, <2>3
<1>5. FifoOwns'
  <2>1. ASSUME NEW i \in 1 .. Len(fifo'), NEW j \in 1 .. Len(fifo'), fifo'[i] = fifo'[j]
        PROVE  i = j
    <3>1. i + 1 = j + 1
      BY <1>3, <2>1 DEF QueueInv, Ownership, FifoOwns
    <3>2. QED
      BY <1>3, <3>1
  <2>2. \A i \in 1 .. Len(fifo') : state'[fifo'[i]] = "USED" /\ op'[fifo'[i]] \in Op
    BY <1>2, <1>3 DEF QueueInv, Ownership, FifoOwns
  <2>3. QED
    BY <2>1, <2>2 DEF FifoOwns
<1>6. ProducersOwn'
  BY <1>2, <1>3 DEF QueueInv, Ownership, ProducersOwn
<1>7. ConsumerOwns' /\ CleanOwns'
  BY <1>2, <1>3, <1>4 DEF ConsumerOwns, CleanOwns, Holding, CleanSteps
<1>8. Counted'
  <2>1. Settled = 0 /\ Settled' = 0
    BY <1>2 DEF Settled, CleanSteps
  <2>2. Cardinality(ActiveIn(op, fifo, 0)) =
          Cardinality(ActiveIn(op, fifo', 0)) + (IF op[e].act THEN 1 ELSE 0)
    BY <1>1, <1>2, <1>3, ActiveHead DEF e
  <2>3. activating_op_num' = IF op[e].act THEN activating_op_num - 1 ELSE activating_op_num
    <3>1. activating_op_num \in Nat /\ activating_op_num < UintMod /\ UintMod \in Nat
      BY ConstantsAssumption DEF QueueInv, TypeInv, TypeOK
    <3>2. Dec(activating_op_num) = activating_op_num - 1
      BY <3>1, DecRange
    <3>3. QED
      BY <1>2, <3>2 DEF CountAfterPop
  <2>4. /\ activating_op_num + Cardinality(Uncounted) = Cardinality(ActiveIn(op, fifo, 0))
        /\ activating_op_num \in Nat /\ Cardinality(Uncounted) \in Nat
    BY <2>1, QueueFits DEF QueueInv, Ownership, Counted
  <2>5. Cardinality(ActiveIn(op, fifo', 0)) \in Nat
    BY <1>2, <1>3, <1>1, HeadTailProperties, ActiveFinite
  <2>6. Uncounted' = Uncounted
    BY <1>2 DEF Uncounted
  <2>7. activating_op_num' + Cardinality(Uncounted) = Cardinality(ActiveIn(op, fifo', 0))
    BY <2>2, <2>3, <2>4, <2>5
  <2>8. QED
    BY <1>2, <2>1, <2>6, <2>7 DEF Counted, CleanSteps
<1>9. QED
  BY <1>1, <1>5, <1>6, <1>7, <1>8 DEF Ownership

(* ldp_fifo_manager_pop_elt.                                               *)
LEMMA PopOwn ==
  ASSUME QueueInv, Calm, PopElt \/ PopWoken \/ SpuriousWakeup
  PROVE  (Ownership /\ Counted)'
<1>1. CASE PopElt /\ activating_op_num = 0
  <2>1. /\ cpc = "pop" /\ cpc' = "waiting"
        /\ UNCHANGED <<fifo, op, pc, arg, mine, state, elt, activating_op_num, left, popped>>
    BY <1>1 DEF PopElt, poolVars, prodVars, cleanVars
  <2>2. FifoOwns' /\ ProducersOwn'
    BY <2>1, ConsumerFrame
  <2>3. ConsumerOwns' /\ CleanOwns'
    BY <2>1 DEF ConsumerOwns, CleanOwns, Holding, CleanSteps
  <2>4. Counted'
    BY <1>1, <2>1, CountFrame DEF CleanSteps
  <2>5. QED
    BY <2>2, <2>3, <2>4 DEF Ownership
<1>2. CASE PopElt /\ activating_op_num # 0
  <2>1. activating_op_num > 0
    BY <1>2 DEF QueueInv, TypeInv, TypeOK
  <2>2. QED
    BY <1>2, <2>1, TakeFirstOwn DEF PopElt
<1>3. CASE PopWoken
  <2>1. activating_op_num > 0 /\ cpc = "woken"
    BY <1>3 DEF PopWoken, QueueInv, Counted
  <2>2. QED
    BY <1>3, <2>1, TakeFirstOwn DEF PopWoken
<1>4. CASE SpuriousWakeup
  BY <1>4 DEF SpuriousWakeup, Calm
<1>5. QED
  BY <1>1, <1>2, <1>3, <1>4

(* An operation is run: the module thread has its element.                 *)
LEMMA HandleOwn ==
  ASSUME QueueInv, Handle
  PROVE  (Ownership /\ Counted)'
<1>1. /\ cpc = "handle" /\ elt \in Elt /\ elt # NoElt
      /\ UNCHANGED <<fifo, op, pc, arg, mine, state, elt, activating_op_num, left, popped>>
  BY ConstantsAssumption
  DEF Handle, poolVars, prodVars, cleanVars, QueueInv, Ownership, ConsumerOwns, Holding
<1>2. \/ cpc' = "release"
      \/ cpc' = "clean_begin" /\ op[elt].id \in Cleaning
  BY <1>1 DEF Handle, Cleaning
<1>3. FifoOwns' /\ ProducersOwn'
  BY <1>1, ConsumerFrame
<1>4. ConsumerOwns' /\ CleanOwns'
  BY <1>1, <1>2 DEF QueueInv, Ownership, ConsumerOwns, CleanOwns, Holding, CleanSteps
<1>5. Counted'
  BY <1>1, <1>2, CountFrame DEF CleanSteps
<1>6. QED
  BY <1>3, <1>4, <1>5 DEF Ownership

(* ldp_element_pool_release.                                               *)
LEMMA ReleaseOwn ==
  ASSUME QueueInv, ReleaseFree \/ ReleaseAvail
  PROVE  (Ownership /\ Counted)'
<1>1. /\ UNCHANGED <<fifo, op, pc, arg, mine, elt, activating_op_num, left, popped>>
      /\ \/ cpc = "release" /\ cpc' = "avail" /\ state' = [state EXCEPT ![elt] = "FREE"]
         \/ cpc = "avail" /\ cpc' \in {"pop", "done"} /\ state' = state
  BY DEF ReleaseFree, ReleaseAvail, prodVars, cleanVars
<1>2. cpc = "release" => /\ elt \in Elt
                         /\ \A i \in 1 .. Len(fifo) : fifo[i] # elt
                         /\ \A p \in Producer : mine[p] # elt
  BY DEF QueueInv, Ownership, ConsumerOwns, Holding
<1>3. FifoOwns' /\ ProducersOwn'
  BY <1>1, <1>2, ConsumerFrame
<1>4. ConsumerOwns' /\ CleanOwns'
  BY <1>1, <1>2 DEF ConsumerOwns, CleanOwns, Holding, CleanSteps
<1>5. Counted'
  BY <1>1, CountFrame DEF CleanSteps
<1>6. QED
  BY <1>3, <1>4, <1>5 DEF Ownership

(* A cleaning begins when every producer is at rest: there is nothing that *)
(* is queued and not counted.                                              *)
LEMMA CleanBeginOwn ==
  ASSUME QueueInv, Calm, Scheduled, CleanBegin
  PROVE  (Ownership /\ Counted)'
<1>1. /\ cpc = "clean_begin" /\ cpc' = "clean" /\ left' = Len(fifo) /\ activating_op_num' = 0
      /\ UNCHANGED <<fifo, op, pc, arg, mine, state, elt, popped>>
  BY DEF CleanBegin, poolVars, prodVars
<1>2. Urgent = Producer
  BY <1>1, CleaningIsAtRest DEF CleanedAtRest
<1>3. Uncounted = {}
  BY <1>1, <1>2 DEF Scheduled, ManagerMutexFree, Uncounted
<1>4. FifoOwns' /\ ProducersOwn'
  BY <1>1, ConsumerFrame
<1>5. ConsumerOwns' /\ CleanOwns'
  BY <1>1 DEF QueueInv, Ownership, ConsumerOwns, CleanOwns, Holding, CleanSteps
<1>6. Counted'
  <2>1. Len(fifo) \in Nat /\ Settled' = Len(fifo)
    BY <1>1, QueueFits DEF QueueInv, Ownership, Settled, CleanSteps
  <2>2. ActiveIn(op, fifo, Settled)' = {}
    BY <1>1, <2>1 DEF ActiveIn
  <2>3. Uncounted' = {}
    BY <1>1, <1>3 DEF Uncounted
  <2>4. QED
    BY <1>1, <2>1, <2>2, <2>3, FS_EmptySet DEF Counted
<1>7. QED
  BY <1>4, <1>5, <1>6 DEF Ownership

(* The loop of a cleaning takes the next of the operations it has left.    *)
LEMMA CleanNextOwn ==
  ASSUME QueueInv, CleanNext
  PROVE  (Ownership /\ Counted)'
<1>0. /\ cpc = "clean" /\ left \in Nat /\ left <= Len(fifo)
      /\ fifo \in Seq(Elt) /\ Len(fifo) \in Nat
      /\ UNCHANGED <<op, pc, arg, mine, state, elt, activating_op_num>>
  BY LenProperties
  DEF CleanNext, poolVars, prodVars, QueueInv, Counted, CleanSteps, TypeInv, TypeOK
<1>1. CASE left = 0
  <2>1. cpc' = "release" /\ UNCHANGED <<fifo, left, popped>>
    BY <1>0, <1>1 DEF CleanNext
  <2>2. FifoOwns' /\ ProducersOwn'
    BY <1>0, <2>1, ConsumerFrame
  <2>3. ConsumerOwns' /\ CleanOwns'
    BY <1>0, <2>1 DEF QueueInv, Ownership, ConsumerOwns, CleanOwns, Holding, CleanSteps
  <2>4. Uncounted' = Uncounted /\ Settled = 0 /\ Settled' = 0
    BY <1>0, <1>1, <2>1 DEF Uncounted, Settled, CleanSteps
  <2>5. ActiveIn(op, fifo, Settled)' = ActiveIn(op, fifo, Settled)
    BY <1>0, <2>1, <2>4 DEF ActiveIn
  <2>6. Counted'
    BY <1>0, <2>1, <2>4, <2>5 DEF QueueInv, Counted, CleanSteps
  <2>7. QED
    BY <2>2, <2>3, <2>6 DEF Ownership
<1>2. CASE left # 0
  <2> DEFINE e == Head(fifo)
  <2>1. fifo # <<>>
    <3>1. Len(fifo) > 0
      BY <1>0, <1>2
    <3>2. QED
      BY <3>1, Len(<<>>) = 0
  <2>2. /\ left' = left - 1 /\ popped' = e /\ fifo' = Tail(fifo)
        /\ cpc' \in {"clean_repush", "clean_drop"}
    BY <1>0, <1>2, <2>1 DEF CleanNext
  <2>3. /\ e = fifo[1] /\ 1 \in 1 .. Len(fifo) /\ e \in Elt
        /\ Len(fifo') = Len(fifo) - 1
        /\ \A i \in 1 .. Len(fifo') : fifo'[i] = fifo[i + 1] /\ i + 1 \in 1 .. Len(fifo)
    BY <1>0, <1>2, <2>1, <2>2, HeadTailProperties
  <2> HIDE DEF e
  <2>4. /\ state[e] = "USED" /\ op[e] \in Op /\ e # elt
        /\ \A i \in 1 .. Len(fifo') : fifo'[i] # e
        /\ \A p \in Producer : mine[p] # e
    <3>1. state[e] = "USED" /\ op[e] \in Op
      BY <2>3 DEF QueueInv, Ownership, FifoOwns
    <3>2. ASSUME NEW i \in 1 .. Len(fifo'), fifo'[i] = e PROVE FALSE
      <4>1. fifo[i + 1] = fifo[1] /\ i + 1 \in 1 .. Len(fifo) /\ i + 1 # 1
        BY <1>0, <2>3, <3>2
      <4>2. QED
        BY <2>3, <4>1 DEF QueueInv, Ownership, FifoOwns
    <3>3. ASSUME NEW p \in Producer, mine[p] = e PROVE FALSE
      BY <2>3, <3>3, ConstantsAssumption DEF QueueInv, Ownership, ProducersOwn
    <3>4. e # elt
      BY <1>0, <2>3 DEF QueueInv, Ownership, ConsumerOwns, Holding, CleanSteps
    <3>5. QED
      BY <3>1, <3>2, <3>3, <3>4
  <2>5. FifoOwns'
    <3>1. ASSUME NEW i \in 1 .. Len(fifo'), NEW j \in 1 .. Len(fifo'), fifo'[i] = fifo'[j]
          PROVE  i = j
      <4>1. i + 1 = j + 1
        BY <2>3, <3>1 DEF QueueInv, Ownership, FifoOwns
      <4>2. QED
        BY <1>0, <2>3, <4>1
    <3>2. \A i \in 1 .. Len(fifo') : state'[fifo'[i]] = "USED" /\ op'[fifo'[i]] \in Op
      BY <1>0, <2>3 DEF QueueInv, Ownership, FifoOwns
    <3>3. QED
      BY <3>1, <3>2 DEF FifoOwns
  <2>6. ProducersOwn'
    BY <1>0, <2>3 DEF QueueInv, Ownership, ProducersOwn
  <2>7. ConsumerOwns' /\ CleanOwns'
    BY <1>0, <2>2, <2>3, <2>4
    DEF QueueInv, Ownership, ConsumerOwns, CleanOwns, Holding, CleanSteps
  <2>8. Counted'
    <3>1. Settled = left /\ Settled' = left - 1 /\ Uncounted' = Uncounted
      BY <1>0, <2>2 DEF Settled, CleanSteps, Uncounted
    <3>2. Cardinality(ActiveIn(op, fifo', left - 1)) = Cardinality(ActiveIn(op, fifo, left))
      BY <1>0, <1>2, <2>1, <2>2, ActiveTail
    <3>3. activating_op_num + Cardinality(Uncounted) = Cardinality(ActiveIn(op, fifo, left))
      BY <3>1 DEF QueueInv, Counted
    <3>4. left' <= Len(fifo')
      BY <1>0, <1>2, <2>2, <2>3
    <3>5. cpc' # "waiting" /\ cpc' # "woken"
      BY <2>2
    <3>6. (activating_op_num + Cardinality(Uncounted) = Cardinality(ActiveIn(op, fifo, Settled)))'
      BY <1>0, <2>2, <3>1, <3>2, <3>3
    <3>7. QED
      BY <3>4, <3>5, <3>6 DEF Counted
  <2>9. QED
    BY <2>5, <2>6, <2>7, <2>8 DEF Ownership
<1>3. QED
  BY <1>1, <1>2
(* The elements popped and run are not queued: an operation that is kept  *)
(* finds room.                                                             *)
LEMMA RepushHasRoom ==
  ASSUME QueueInv, Calm, CleanRepush
  PROVE  /\ Len(fifo) + 2 <= Cardinality(Elt)
         /\ fifo' = Append(fifo, popped)
<1>1. cpc = "clean_repush" /\ fifo' = Requeued
  BY DEF CleanRepush
<1>2. /\ popped \in Elt /\ elt \in Elt /\ popped # elt
      /\ \A i \in 1 .. Len(fifo) : fifo[i] # popped /\ fifo[i] # elt
      /\ fifo \in Seq(Elt) /\ Len(fifo) \in Nat
  BY <1>1, LenProperties
  DEF QueueInv, TypeInv, TypeOK, StepsOK, Ownership, ConsumerOwns, CleanOwns, Holding, CleanSteps
<1>3. IsFiniteSet({popped, elt}) /\ Cardinality({popped, elt}) = 2
  <2>1. IsFiniteSet({elt}) /\ Cardinality({elt}) = 1
    BY FS_Singleton
  <2>2. {popped, elt} = {elt} \cup {popped} /\ popped \notin {elt}
    BY <1>2
  <2>3. QED
    BY <2>1, <2>2, FS_AddElement
<1>4. Len(fifo) + Cardinality({popped, elt}) <= Cardinality(Elt) /\ Cardinality(Elt) \in Nat
  <2>1. {popped, elt} \in SUBSET Elt
    BY <1>2
  <2>2. \A i, j \in 1 .. Len(fifo) : fifo[i] = fifo[j] => i = j
    BY DEF QueueInv, Ownership, FifoOwns
  <2>3. \A i \in 1 .. Len(fifo) : fifo[i] \notin {popped, elt}
    BY <1>2
  <2>4. QED
    BY <1>2, <2>1, <2>2, <2>3, DistinctFits
<1>5. Len(fifo) + 2 <= Cardinality(Elt)
  BY <1>3, <1>4
<1>6. HasRoom
  <2>1. FifoSize + 1 >= Cardinality(Elt)
    BY <1>1, CleaningIsAtRest DEF CleanedAtRest, CleanSteps
  <2>2. QED
    BY <1>2, <1>4, <1>5, <2>1, ConstantsAssumption DEF HasRoom
<1>7. QED
  BY <1>1, <1>5, <1>6 DEF Requeued

(* It is counted again if it activates.                                    *)
LEMMA CleanRepushOwn ==
  ASSUME QueueInv, Calm, CleanRepush
  PROVE  (Ownership /\ Counted)'
<1> DEFINE e == popped
<1>1. /\ cpc = "clean_repush" /\ cpc' = "clean"
      /\ activating_op_num' = Recounted(op[e])
      /\ UNCHANGED <<op, pc, arg, mine, state, elt, left>>
  BY DEF CleanRepush, poolVars, prodVars
<1>2. /\ e \in Elt /\ elt \in Elt /\ e # elt /\ state[e] = "USED" /\ op[e] \in Op
      /\ \A i \in 1 .. Len(fifo) : fifo[i] # e /\ fifo[i] # elt
      /\ \A p \in Producer : mine[p] # e /\ mine[p] # elt
      /\ fifo \in Seq(Elt) /\ Len(fifo) \in Nat
  BY <1>1, LenProperties
  DEF QueueInv, TypeInv, TypeOK, StepsOK, Ownership, ConsumerOwns, CleanOwns, Holding, CleanSteps
<1>3. Len(fifo) + 2 <= Cardinality(Elt) /\ fifo' = Append(fifo, e)
  BY RepushHasRoom
<1>4. Cardinality(Elt) \in Nat
  BY QueueFits DEF QueueInv, Ownership
<1>5. fifo' = Append(fifo, e)
  BY <1>3
<1>6. /\ Len(fifo') = Len(fifo) + 1 /\ fifo'[Len(fifo) + 1] = e
      /\ \A i \in 1 .. Len(fifo) : fifo'[i] = fifo[i]
  BY <1>2, <1>5, AppendProperties
<1>7. \A j \in 1 .. Len(fifo') : fifo'[j] = e \/ (j \in 1 .. Len(fifo) /\ fifo'[j] = fifo[j])
  <2> TAKE j \in 1 .. Len(fifo')
  <2>1. j = Len(fifo) + 1 \/ j \in 1 .. Len(fifo)
    BY <1>2, <1>6
  <2>2. QED
    BY <1>6, <2>1
<1>8. FifoOwns'
  <2>1. \A i, j \in 1 .. Len(fifo') : fifo'[i] = fifo'[j] => i = j
    BY <1>2, <1>6 DEF QueueInv, Ownership, FifoOwns
  <2>2. \A i \in 1 .. Len(fifo') : state'[fifo'[i]] = "USED" /\ op'[fifo'[i]] \in Op
    BY <1>1, <1>2, <1>7 DEF QueueInv, Ownership, FifoOwns
  <2>3. QED
    BY <2>1, <2>2 DEF FifoOwns
<1>9. ProducersOwn'
  BY <1>1, <1>2, <1>7 DEF QueueInv, Ownership, ProducersOwn
<1>10. ConsumerOwns' /\ CleanOwns'
  BY <1>1, <1>2, <1>7
  DEF QueueInv, Ownership, ConsumerOwns, CleanOwns, Holding, CleanSteps
<1>11. Counted'
  <2>1. Settled = left /\ Settled' = left /\ Uncounted' = Uncounted
    BY <1>1 DEF Settled, CleanSteps, Uncounted
  <2>2. /\ left \in 0 .. Len(fifo) /\ activating_op_num \in Nat /\ activating_op_num < UintMod
        /\ Cardinality(Uncounted) \in Nat
        /\ activating_op_num + Cardinality(Uncounted) <= Len(fifo)
    <3>1. activating_op_num \in 0 .. UintMod - 1 /\ UintMod \in Nat
      BY ConstantsAssumption DEF QueueInv, TypeInv, TypeOK
    <3>2. QED
      BY <2>1, <3>1, QueueFits DEF QueueInv, Ownership
  <2>3. Cardinality(ActiveIn(op, fifo', left)) =
          Cardinality(ActiveIn(op, fifo, left)) + (IF op[e].act THEN 1 ELSE 0)
    BY <1>2, <1>5, <2>2, ActiveAppend
  <2>4. IsStart(op[e]) => op[e].act
    BY <1>2, ConstantsAssumption DEF IsStart, Lifecycle
  <2>5. Inc(activating_op_num) = activating_op_num + 1
    BY <1>2, <1>3, <1>4, <2>2, IncRange, ConstantsAssumption
  <2>6. activating_op_num' = IF op[e].act THEN activating_op_num + 1 ELSE activating_op_num
    BY <1>1, <2>4, <2>5 DEF Recounted
  <2>7. activating_op_num + Cardinality(Uncounted) = Cardinality(ActiveIn(op, fifo, left))
    BY <2>1 DEF QueueInv, Counted
  <2>8. activating_op_num' + Cardinality(Uncounted) = Cardinality(ActiveIn(op, fifo', left))
    BY <2>2, <2>3, <2>6, <2>7
  <2>9. (activating_op_num + Cardinality(Uncounted) = Cardinality(ActiveIn(op, fifo, Settled)))'
    BY <1>1, <2>1, <2>8
  <2>10. left' <= Len(fifo')
    BY <1>1, <1>2, <1>6, <2>2
  <2>11. cpc' # "waiting" /\ cpc' # "woken"
    BY <1>1
  <2>12. QED
    BY <2>9, <2>10, <2>11 DEF Counted
<1>12. QED
  BY <1>8, <1>9, <1>10, <1>11 DEF Ownership

(* An operation that is dropped gives its element back.                    *)
LEMMA CleanDropOwn ==
  ASSUME QueueInv, CleanDrop \/ CleanAvail
  PROVE  (Ownership /\ Counted)'
<1>1. /\ UNCHANGED <<fifo, op, pc, arg, mine, elt, activating_op_num, left>>
      /\ cpc \in {"clean_drop", "clean_avail"}
      /\ \/ UNCHANGED <<state, cpc, popped>>
         \/ /\ cpc = "clean_drop" /\ cpc' = "clean_avail"
            /\ state' = [state EXCEPT ![popped] = "FREE"] /\ popped' = popped
         \/ cpc = "clean_avail" /\ cpc' = "clean" /\ state' = state
  BY DEF CleanDrop, CleanAvail, prodVars, cleanVars
<1>2. cpc = "clean_drop" => /\ popped \in Elt /\ popped # elt
                            /\ \A i \in 1 .. Len(fifo) : fifo[i] # popped
                            /\ \A p \in Producer : mine[p] # popped
  BY DEF QueueInv, TypeInv, StepsOK, Ownership, CleanOwns
<1>3. FifoOwns' /\ ProducersOwn'
  BY <1>1, <1>2, ConsumerFrame
<1>4. ConsumerOwns'
  <2>1. /\ elt \in Elt /\ state[elt] = "USED" /\ state \in [Elt -> {"FREE", "USED"}]
        /\ op[elt] \in Op /\ op[elt].id \in Cleaning
        /\ \A i \in 1 .. Len(fifo) : fifo[i] # elt
        /\ \A p \in Producer : mine[p] # elt
    BY <1>1 DEF QueueInv, TypeInv, TypeOK, Ownership, ConsumerOwns, Holding, CleanSteps
  <2>2. state'[elt] = "USED"
    BY <1>1, <1>2, <2>1
  <2>3. cpc' # "avail"
    BY <1>1
  <2>4. QED
    BY <1>1, <2>1, <2>2, <2>3 DEF ConsumerOwns
<1>5. CleanOwns'
  BY <1>1 DEF QueueInv, Ownership, CleanOwns
<1>6. Counted'
  BY <1>1, CountFrame DEF CleanSteps
<1>7. QED
  BY <1>3, <1>4, <1>5, <1>6 DEF Ownership

(* Every step keeps the invariant.                                         *)
LEMMA NextQueueInv ==
  ASSUME Calm, QueueInv, [Next]_vars
  PROVE  QueueInv'
<1>1. TypeInv'
  BY NextTypes DEF QueueInv
<1>2. ASSUME NEW p \in Producer, Produce(p) PROVE (Ownership /\ Counted)'
  BY <1>2, PoolCheckOwn, PoolGetOwn, FifoPushOwn, FifoFallbackOwn, CountOwn DEF Produce
<1>3. ASSUME NEW p \in Producer, NEW o \in Op, PushBegin(p, o) PROVE (Ownership /\ Counted)'
  BY <1>3, PushBeginOwn
<1>4. ASSUME Scheduled, Consume PROVE (Ownership /\ Counted)'
  BY <1>4, PopOwn, HandleOwn, ReleaseOwn, CleanBeginOwn, CleanNextOwn, CleanRepushOwn,
     CleanDropOwn DEF Consume, Clean
<1>5. ASSUME SpuriousWakeup PROVE (Ownership /\ Counted)'
  BY <1>5, PopOwn
<1>6. ASSUME UNCHANGED vars PROVE (Ownership /\ Counted)'
  <2>1. Ownership'
    BY <1>6 DEF vars, QueueInv, Ownership, FifoOwns, ProducersOwn, ConsumerOwns, CleanOwns,
                Holding, CleanSteps, PushSteps
  <2>2. Uncounted' = Uncounted /\ Settled' = Settled
    BY <1>6 DEF vars, Uncounted, Settled, CleanSteps
  <2>3. ActiveIn(op, fifo, Settled)' = ActiveIn(op, fifo, Settled)
    BY <1>6, <2>2 DEF vars, ActiveIn
  <2>4. Counted'
    BY <1>6, <2>2, <2>3 DEF vars, QueueInv, Counted, CleanSteps
  <2>5. QED
    BY <2>1, <2>4
<1>7. (Ownership /\ Counted)'
  BY <1>2, <1>3, <1>4, <1>5, <1>6 DEF Next
<1>8. QED
  BY <1>1, <1>7 DEF QueueInv
-----------------------------------------------------------------------------
(* What the invariant says of the elements: one owner each.                *)
LEMMA QueueInvOneOwner == QueueInv => OneOwner
<1> SUFFICES ASSUME QueueInv, NEW e \in Elt
             PROVE  /\ \A h, k \in Holders(e) : h = k
                    /\ state[e] = "FREE" => Holders(e) = {}
  BY DEF OneOwner
<1> DEFINE F == {i \in 1 .. Len(fifo) : fifo[i] = e}
           P == {p \in Producer : mine[p] = e}
           C == IF ConsumerHolds(e) THEN {"module_thread"} ELSE {}
           K == IF CleanHolds(e) THEN {"clean"} ELSE {}
<1>1. Holders(e) = ({"fifo"} \X F) \cup ({"producer"} \X P) \cup {<<h, e>> : h \in C \cup K}
  BY DEF Holders
<1>2. \A p \in P : state[e] = "USED" /\ pc[p] \in PushSteps
  BY ConstantsAssumption DEF QueueInv, Ownership, ProducersOwn
<1>3. \A i \in F : state[e] = "USED"
  BY DEF QueueInv, Ownership, FifoOwns
<1>4. ConsumerHolds(e) => cpc \in Holding /\ elt = e /\ state[e] = "USED"
  BY DEF ConsumerHolds, QueueInv, Ownership, ConsumerOwns, Holding, CleanSteps
<1>5. CleanHolds(e) => cpc \in Holding /\ popped = e /\ state[e] = "USED"
  BY DEF CleanHolds, QueueInv, Ownership, CleanOwns, Holding, CleanSteps
<1>6. \A i, j \in F : i = j
  BY DEF QueueInv, Ownership, FifoOwns
<1>7. \A p, r \in P : p = r
  BY DEF QueueInv, Ownership, ProducersOwn
<1>8. F = {} \/ P = {}
  BY <1>2 DEF QueueInv, Ownership, ProducersOwn
<1>9. ConsumerHolds(e) => F = {} /\ P = {} /\ ~CleanHolds(e)
  BY <1>4 DEF CleanHolds, QueueInv, Ownership, ConsumerOwns, CleanOwns
<1>10. CleanHolds(e) => F = {} /\ P = {}
  BY DEF CleanHolds, QueueInv, Ownership, CleanOwns
<1> HIDE DEF F, P
<1>11. CASE ConsumerHolds(e) \/ CleanHolds(e)
  <2>1. PICK h : Holders(e) = {<<h, e>>}
    <3>1. ({"fifo"} \X F) = {} /\ ({"producer"} \X P) = {}
      BY <1>9, <1>10, <1>11
    <3>2. CASE ConsumerHolds(e)
      BY <1>1, <1>9, <3>1, <3>2
    <3>3. CASE CleanHolds(e)
      <4>1. ~ConsumerHolds(e)
        BY <1>9, <3>3
      <4>2. C = {} /\ K = {"clean"}
        BY <3>3, <4>1
      <4>3. QED
        BY <1>1, <3>1, <4>2
    <3>4. QED
      BY <1>11, <3>2, <3>3
  <2>2. QED
    BY <1>4, <1>5, <1>11, <2>1
<1>12. CASE ~ConsumerHolds(e) /\ ~CleanHolds(e)
  <2>1. Holders(e) = ({"fifo"} \X F) \cup ({"producer"} \X P)
    BY <1>1, <1>12
  <2>2. QED
    BY <1>2, <1>3, <1>6, <1>7, <1>8, <2>1
<1>13. QED
  BY <1>11, <1>12

(* ... and of the counter: it is exact, and zero when the thread sleeps.   *)
LEMMA QueueInvCounts ==
  QueueInv => ActivatingCountExact /\ NoLostWakeup
<1> SUFFICES ASSUME QueueInv PROVE ActivatingCountExact /\ NoLostWakeup
  OBVIOUS
<1>1. Len(fifo) \in Nat /\ Cardinality(Uncounted) \in Nat /\ activating_op_num \in Nat
  BY QueueFits DEF QueueInv, Ownership
<1>2. ActivatingQueued = Cardinality(ActiveIn(op, fifo, 0))
  <2>1. {i \in 1 .. Len(fifo) : op[fifo[i]].act} = ActiveIn(op, fifo, 0)
    BY <1>1 DEF ActiveIn
  <2>2. QED
    BY <2>1 DEF ActivatingQueued
<1>3. cpc \notin CleanSteps =>
        activating_op_num + Cardinality(Uncounted) = ActivatingQueued
  BY <1>2 DEF QueueInv, Counted, Settled
<1>4. ActivatingCountExact
  <2>1. activating_op_num + Cardinality(Uncounted) < UintMod /\ UintMod \in Nat
    BY <1>1, QueueFits, ConstantsAssumption DEF QueueInv, Ownership
  <2>2. (activating_op_num + Cardinality(Uncounted)) % UintMod
          = activating_op_num + Cardinality(Uncounted)
    BY <1>1, <2>1
  <2>3. QED
    BY <1>3, <2>2 DEF ActivatingCountExact, ManagerMutexFree, CleanSteps
<1>5. NoLostWakeup
  <2>1. cpc = "waiting" => activating_op_num = 0 /\ cpc \notin CleanSteps
    BY DEF QueueInv, Counted, CleanSteps
  <2>2. QED
    BY <1>1, <1>3, <2>1 DEF NoLostWakeup
<1>6. QED
  BY <1>4, <1>5

(* A calm queue: every element has one owner at most, the counter is that  *)
(* of the activating operations queued, no wakeup is lost.                 *)
THEOREM QueueIsSafe ==
  Calm => (Spec => [](OneOwner /\ ActivatingCountExact /\ NoLostWakeup))
<1> SUFFICES ASSUME Calm PROVE Spec => [](OneOwner /\ ActivatingCountExact /\ NoLostWakeup)
  OBVIOUS
<1>1. Init => QueueInv
  BY InitQueueInv
<1>2. QueueInv /\ [Next]_vars => QueueInv'
  BY NextQueueInv
<1>3. QueueInv => OneOwner /\ ActivatingCountExact /\ NoLostWakeup
  BY QueueInvOneOwner, QueueInvCounts
<1>4. QED
  BY <1>1, <1>2, <1>3, PTL DEF Spec

(* ldp_fifo_manager_pop_elt comes back with an operation.                  *)
THEOREM PopFindsWork == Calm => (Spec => PopNeverEmptyHanded)
<1> SUFFICES ASSUME Calm PROVE Spec => PopNeverEmptyHanded
  OBVIOUS
<1>1. ASSUME QueueInv, [Next]_vars
      PROVE  [(cpc \in {"pop", "woken"} /\ cpc' = "handle") => fifo # <<>>]_vars
  <2>1. SUFFICES ASSUME cpc \in {"pop", "woken"}, cpc' = "handle", Next PROVE fifo # <<>>
    BY <1>1
  <2>2. activating_op_num \in Nat
    BY <1>1 DEF QueueInv, TypeInv, TypeOK
  <2>3. CASE cpc = "woken"
    BY <1>1, <2>3, WorkIsQueued DEF QueueInv, Counted, CleanSteps
  <2>4. CASE cpc = "pop" /\ activating_op_num # 0
    BY <1>1, <2>2, <2>4, WorkIsQueued DEF CleanSteps
  <2>5. CASE cpc = "pop" /\ activating_op_num = 0
    <3>1. cpc' # "handle"
      BY <2>1, <2>5 DEF Next, Produce, PushBegin, PoolCheck, PoolGet, FifoPush, FifoFallback,
         Count, Signalled, Consume, PopElt, PopWoken, Handle, ReleaseFree, ReleaseAvail, Clean,
         CleanBegin, CleanNext, CleanRepush, CleanDrop, CleanAvail, SpuriousWakeup
    <3>2. QED
      BY <2>1, <3>1
  <2>6. QED
    BY <2>1, <2>3, <2>4, <2>5
<1>2. Init => QueueInv
  BY InitQueueInv
<1>3. QueueInv /\ [Next]_vars => QueueInv'
  BY NextQueueInv
<1>4. QED
  BY <1>1, <1>2, <1>3, PTL DEF Spec, PopNeverEmptyHanded
-----------------------------------------------------------------------------
(* The counter of each pool: the number of its free elements, less the one *)
(* that is free and not counted yet, modulo the width of the counter.      *)
PoolCounted ==
  \A q \in Pool :
    LET n == Cardinality(FreeOf(q)) IN
    available[q] = IF BeingCounted(q) = 0 THEN n ELSE IF n = 0 THEN UintMod - 1 ELSE n - 1

(* The invariant of the pools, over that of the queue.                     *)
PoolInv == QueueInv /\ PoolCounted

(* The free elements of a pool are fewer than the counter can count.       *)
LEMMA FreeIsFinite ==
  ASSUME NEW q \in Pool
  PROVE  /\ IsFiniteSet(FreeOf(q)) /\ Cardinality(FreeOf(q)) \in Nat
         /\ Cardinality(FreeOf(q)) < UintMod
<1>1. IsFiniteSet(Elt) /\ FreeOf(q) \in SUBSET Elt
  BY ConstantsAssumption DEF FreeOf
<1>2. IsFiniteSet(FreeOf(q)) /\ Cardinality(FreeOf(q)) <= Cardinality(Elt)
  BY <1>1, FS_Subset
<1>3. Cardinality(FreeOf(q)) \in Nat /\ Cardinality(Elt) \in Nat
  BY <1>1, <1>2, FS_CardinalityType
<1>4. QED
  BY <1>2, <1>3, ConstantsAssumption

(* Taking and giving back an element of pool q.                            *)
LEMMA FreeAfterGet ==
  ASSUME TypeInv, NEW q \in Pool, NEW e \in FreeOf(q), state' = [state EXCEPT ![e] = "USED"]
  PROVE  /\ Cardinality(FreeOf(q)) > 0
         /\ Cardinality(FreeOf(q)') = Cardinality(FreeOf(q)) - 1
         /\ \A r \in Pool \ {q} : FreeOf(r)' = FreeOf(r)
<1>1. /\ e \in Elt /\ PoolOf[e] = q /\ state \in [Elt -> {"FREE", "USED"}]
  BY DEF FreeOf, TypeInv, TypeOK
<1>2. FreeOf(q)' = FreeOf(q) \ {e}
  BY <1>1 DEF FreeOf
<1>3. \A r \in Pool \ {q} : FreeOf(r)' = FreeOf(r)
  BY <1>1 DEF FreeOf
<1>4. IsFiniteSet(FreeOf(q)) /\ Cardinality(FreeOf(q)) \in Nat
  BY FreeIsFinite
<1>5. Cardinality(FreeOf(q)) # 0
  BY <1>4, FS_EmptySet
<1>6. Cardinality(FreeOf(q) \ {e}) = Cardinality(FreeOf(q)) - 1
  BY <1>4, FS_RemoveElement
<1>7. Cardinality(FreeOf(q)') = Cardinality(FreeOf(q)) - 1
  BY <1>2, <1>6
<1>8. QED
  BY <1>3, <1>4, <1>5, <1>7

(* Freeing a used element of a pool gives that pool, and no other, one free*)
(* element more.                                                           *)
LEMMA FreeAfterRelease ==
  ASSUME TypeInv, NEW e \in Elt, state[e] = "USED", state' = [state EXCEPT ![e] = "FREE"]
  PROVE  /\ PoolOf[e] \in Pool
         /\ Cardinality(FreeOf(PoolOf[e])') = Cardinality(FreeOf(PoolOf[e])) + 1
         /\ \A r \in Pool \ {PoolOf[e]} : FreeOf(r)' = FreeOf(r)
<1> DEFINE q == PoolOf[e]
<1>1. q \in Pool /\ state \in [Elt -> {"FREE", "USED"}]
  BY ConstantsAssumption DEF TypeInv, TypeOK
<1>2. FreeOf(q)' = FreeOf(q) \cup {e} /\ e \notin FreeOf(q)
  BY <1>1 DEF FreeOf
<1>3. \A r \in Pool \ {q} : FreeOf(r)' = FreeOf(r)
  BY <1>1 DEF FreeOf
<1>4. QED
  BY <1>1, <1>2, <1>3, FreeIsFinite, FS_AddElement

(* Steps that leave the pools alone.                                       *)
LEMMA PoolFrame ==
  ASSUME PoolCounted, UNCHANGED poolVars,
         \/ UNCHANGED <<cpc, elt, popped>>
         \/ cpc \notin {"avail", "clean_avail"} /\ cpc' \notin {"avail", "clean_avail"}
  PROVE  PoolCounted'
<1>1. \A q \in Pool : BeingCounted(q)' = BeingCounted(q)
  BY DEF BeingCounted
<1>2. \A q \in Pool : FreeOf(q)' = FreeOf(q) /\ available'[q] = available[q]
  BY DEF FreeOf, poolVars
<1>3. QED
  BY <1>1, <1>2 DEF PoolCounted

(* The element is taken and counted in one critical section.               *)
LEMMA PoolGetPool ==
  ASSUME PoolInv, NEW p \in Producer, PoolGet(p)
  PROVE  PoolCounted'
<1>1. PICK q \in Pool : q = arg[p].pool
  BY ConstantsAssumption DEF PoolGet, PoolInv, QueueInv, TypeInv, StepsOK
<1>2. CASE FreeOf(q) = {}
  BY <1>1, <1>2, PoolFrame DEF PoolGet, cleanVars, PoolInv
<1>3. CASE FreeOf(q) # {}
  <2>1. PICK e \in FreeOf(q) :
            /\ state' = [state EXCEPT ![e] = "USED"]
            /\ available' = [available EXCEPT ![q] = Dec(@)]
    BY <1>1, <1>3 DEF PoolGet
  <2>2. /\ available \in [Pool -> 0 .. UintMod - 1] /\ UintMod \in Nat
        /\ UNCHANGED <<cpc, elt, popped>>
    BY ConstantsAssumption DEF PoolGet, cleanVars, PoolInv, QueueInv, TypeInv, TypeOK
  <2>3. \A r \in Pool : BeingCounted(r)' = BeingCounted(r) /\ BeingCounted(r) \in {0, 1}
    BY <2>2 DEF BeingCounted
  <2> DEFINE n == Cardinality(FreeOf(q))
             m == Cardinality(FreeOf(q)')
  <2>4. n > 0 /\ m = n - 1 /\ \A r \in Pool \ {q} : FreeOf(r)' = FreeOf(r)
    BY <2>1, FreeAfterGet DEF PoolInv, QueueInv
  <2>5. n \in Nat /\ n < UintMod
    BY FreeIsFinite
  <2>6. available[q] = IF BeingCounted(q) = 0 THEN n ELSE n - 1
    BY <2>4, <2>5 DEF PoolInv, PoolCounted
  <2> HIDE DEF n, m
  <2>7. available'[q] = IF available[q] = 0 THEN UintMod - 1 ELSE available[q] - 1
    BY <2>1, <2>2, DecRange
  <2>8. available'[q] = IF BeingCounted(q)' = 0 THEN m ELSE IF m = 0 THEN UintMod - 1 ELSE m - 1
    BY <2>2, <2>3, <2>4, <2>5, <2>6, <2>7
  <2>9. \A r \in Pool \ {q} : available'[r] = available[r]
    BY <2>1, <2>2
  <2>10. \A r \in Pool \ {q} :
            LET k == Cardinality(FreeOf(r)') IN
            available'[r] = IF BeingCounted(r)' = 0 THEN k
                            ELSE IF k = 0 THEN UintMod - 1 ELSE k - 1
    BY <2>3, <2>4, <2>9 DEF PoolInv, PoolCounted
  <2>11. QED
    BY <2>8, <2>10 DEF PoolCounted, m
<1>4. QED
  BY <1>2, <1>3

(* An element is freed, then counted: e is that of the module thread or    *)
(* the one a cleaning has popped.                                          *)
LEMMA FreedPool ==
  ASSUME PoolInv, NEW e \in Elt, state[e] = "USED", state' = [state EXCEPT ![e] = "FREE"],
         available' = available,
         \A q \in Pool : BeingCounted(q) = 0 /\ BeingCounted(q)' = IF q = PoolOf[e] THEN 1 ELSE 0
  PROVE  PoolCounted'
<1> DEFINE q == PoolOf[e]
           n == Cardinality(FreeOf(q))
<1>1. /\ q \in Pool /\ Cardinality(FreeOf(q)') = n + 1
      /\ \A r \in Pool \ {q} : FreeOf(r)' = FreeOf(r)
  BY FreeAfterRelease DEF PoolInv, QueueInv
<1>2. n \in Nat /\ available[q] = n
  BY <1>1, FreeIsFinite DEF PoolInv, PoolCounted
<1>3. \A r \in Pool \ {q} : available'[r] = Cardinality(FreeOf(r)')
  BY <1>1 DEF PoolInv, PoolCounted
<1> HIDE DEF q, n
<1>4. available'[q] = Cardinality(FreeOf(q)') - 1 /\ Cardinality(FreeOf(q)') # 0
  BY <1>1, <1>2
<1>5. \A r \in Pool : BeingCounted(r)' = IF r = q THEN 1 ELSE 0
  BY DEF q
<1>6. QED
  BY <1>3, <1>4, <1>5 DEF PoolCounted

(* The increment that follows a release settles the counter of the pool it *)
(* left one short.                                                         *)
LEMMA CountedPool ==
  ASSUME PoolInv, NEW e \in Elt, state' = state,
         available' = [available EXCEPT ![PoolOf[e]] = Inc(@)],
         \A q \in Pool : BeingCounted(q)' = 0 /\ BeingCounted(q) = IF q = PoolOf[e] THEN 1 ELSE 0
  PROVE  PoolCounted'
<1> DEFINE q == PoolOf[e]
           n == Cardinality(FreeOf(q))
<1>1. /\ q \in Pool /\ available \in [Pool -> 0 .. UintMod - 1] /\ UintMod \in Nat
      /\ \A r \in Pool : FreeOf(r)' = FreeOf(r)
  BY ConstantsAssumption DEF PoolInv, QueueInv, TypeInv, TypeOK, FreeOf
<1>2. n \in Nat /\ n < UintMod
  BY <1>1, FreeIsFinite
<1>3. available[q] = IF n = 0 THEN UintMod - 1 ELSE n - 1
  BY <1>1 DEF PoolInv, PoolCounted
<1>4. available'[q] = IF available[q] + 1 = UintMod THEN 0 ELSE available[q] + 1
  BY <1>1, IncRange
<1> HIDE DEF n
<1>5. available'[q] = n
  BY <1>1, <1>2, <1>3, <1>4
<1>6. \A r \in Pool \ {q} : available'[r] = available[r]
  BY <1>1
<1>7. \A r \in Pool \ {q} : available[r] = Cardinality(FreeOf(r))
  BY DEF PoolInv, PoolCounted
<1>8. \A r \in Pool : available'[r] = Cardinality(FreeOf(r)')
  BY <1>1, <1>5, <1>6, <1>7 DEF n
<1>9. QED
  BY <1>8 DEF PoolCounted

(* ldp_element_pool_release, in the module thread and in a cleaning.       *)
LEMMA ReleasePool ==
  ASSUME PoolInv, ReleaseFree \/ ReleaseAvail \/ CleanDrop \/ CleanAvail
  PROVE  PoolCounted'
<1>1. CASE ReleaseFree
  <2>1. cpc = "release" /\ cpc' = "avail" /\ elt' = elt /\ available' = available
    BY <1>1 DEF ReleaseFree
  <2>2. elt \in Elt /\ state[elt] = "USED"
    BY <2>1 DEF PoolInv, QueueInv, Ownership, ConsumerOwns, Holding
  <2>3. \A q \in Pool : BeingCounted(q) = 0 /\ BeingCounted(q)' = IF q = PoolOf[elt] THEN 1 ELSE 0
    BY <2>1 DEF BeingCounted
  <2>4. QED
    BY <1>1, <2>1, <2>2, <2>3, FreedPool DEF ReleaseFree
<1>2. CASE ReleaseAvail
  <2>1. cpc = "avail" /\ cpc' \in {"pop", "done"} /\ elt' = elt /\ state' = state
    BY <1>2 DEF ReleaseAvail
  <2>2. elt \in Elt
    BY <2>1 DEF PoolInv, QueueInv, Ownership, ConsumerOwns
  <2>3. \A q \in Pool : BeingCounted(q)' = 0 /\ BeingCounted(q) = IF q = PoolOf[elt] THEN 1 ELSE 0
    BY <2>1 DEF BeingCounted
  <2>4. QED
    BY <1>2, <2>1, <2>2, <2>3, CountedPool DEF ReleaseAvail
<1>3. CASE CleanDrop
  <2>1. CASE cpc' = cpc
    BY <1>3, <2>1, PoolFrame DEF CleanDrop, PoolInv, poolVars, cleanVars
  <2>2. CASE cpc' # cpc
    <3>1. /\ cpc = "clean_drop" /\ cpc' = "clean_avail" /\ popped' = popped
          /\ available' = available /\ state' = [state EXCEPT ![popped] = "FREE"]
      BY <1>3, <2>2 DEF CleanDrop, cleanVars
    <3>2. popped \in Elt /\ state[popped] = "USED"
      BY <3>1 DEF PoolInv, QueueInv, TypeInv, StepsOK, Ownership, CleanOwns
    <3>3. \A q \in Pool :
            BeingCounted(q) = 0 /\ BeingCounted(q)' = IF q = PoolOf[popped] THEN 1 ELSE 0
      BY <3>1 DEF BeingCounted
    <3>4. QED
      BY <3>1, <3>2, <3>3, FreedPool
  <2>3. QED
    BY <2>1, <2>2
<1>4. CASE CleanAvail
  <2>1. cpc = "clean_avail" /\ cpc' = "clean" /\ state' = state
    BY <1>4 DEF CleanAvail
  <2>2. popped \in Elt
    BY <2>1 DEF PoolInv, QueueInv, TypeInv, StepsOK
  <2>3. \A q \in Pool :
          BeingCounted(q)' = 0 /\ BeingCounted(q) = IF q = PoolOf[popped] THEN 1 ELSE 0
    BY <2>1 DEF BeingCounted
  <2>4. QED
    BY <1>4, <2>1, <2>2, <2>3, CountedPool DEF CleanAvail
<1>5. QED
  BY <1>1, <1>2, <1>3, <1>4

(* Every step keeps the counters.                                          *)
LEMMA NextPoolInv ==
  ASSUME Calm, PoolInv, [Next]_vars
  PROVE  PoolInv'
<1>1. QueueInv'
  BY NextQueueInv DEF PoolInv
<1>2. ASSUME NEW p \in Producer, Produce(p) PROVE PoolCounted'
  <2>1. CASE PoolGet(p)
    BY <2>1, PoolGetPool
  <2>2. CASE PoolCheck(p) \/ FifoPush(p) \/ FifoFallback(p)
    BY <2>2, PoolFrame DEF PoolCheck, FifoPush, FifoFallback, cleanVars, PoolInv
  <2>3. CASE Count(p)
    <3>1. UNCHANGED <<poolVars, elt, popped>> /\ cpc' = Signalled(cpc)
      BY <2>3 DEF Count, cleanVars
    <3>2. cpc' = cpc \/ (cpc = "waiting" /\ cpc' = "woken")
      BY <3>1 DEF Signalled
    <3>3. UNCHANGED poolVars
      BY <3>1
    <3>4. CASE cpc' = cpc
      BY <3>1, <3>3, <3>4, PoolFrame DEF PoolInv
    <3>5. CASE cpc = "waiting" /\ cpc' = "woken"
      BY <3>3, <3>5, PoolFrame DEF PoolInv
    <3>6. QED
      BY <3>2, <3>4, <3>5
  <2>4. QED
    BY <1>2, <2>1, <2>2, <2>3 DEF Produce
<1>3. ASSUME NEW p \in Producer, NEW o \in Op, PushBegin(p, o) PROVE PoolCounted'
  BY <1>3, PoolFrame DEF PushBegin, cleanVars, PoolInv
<1>4. ASSUME Consume PROVE PoolCounted'
  <2>1. CASE PopElt \/ PopWoken
    BY <2>1, PoolFrame DEF PopElt, PopWoken, TakeFirst, PoolInv
  <2>2. CASE Handle
    <3>1. UNCHANGED <<poolVars, elt, popped>> /\ cpc = "handle"
      BY <2>2 DEF Handle, cleanVars
    <3>2. cpc' \in {"handle", "release", "clean_begin"}
      BY <2>2 DEF Handle
    <3>3. QED
      BY <3>1, <3>2, PoolFrame DEF PoolInv
  <2>3. CASE CleanBegin \/ CleanNext \/ CleanRepush
    BY <2>3, PoolFrame DEF CleanBegin, CleanNext, CleanRepush, PoolInv
  <2>4. CASE ReleaseFree \/ ReleaseAvail \/ CleanDrop \/ CleanAvail
    BY <2>4, ReleasePool
  <2>5. QED
    BY <1>4, <2>1, <2>2, <2>3, <2>4 DEF Consume, Clean
<1>5. ASSUME SpuriousWakeup \/ UNCHANGED vars PROVE PoolCounted'
  BY <1>5, PoolFrame DEF SpuriousWakeup, vars, poolVars, cleanVars, PoolInv
<1>6. PoolCounted'
  BY <1>2, <1>3, <1>4, <1>5 DEF Next
<1>7. QED
  BY <1>1, <1>6 DEF PoolInv

(* The initial counters are the numbers of elements of the pools.          *)
LEMMA InitPoolInv == Init => PoolInv
<1> SUFFICES ASSUME Init PROVE PoolInv
  OBVIOUS
<1>1. \A q \in Pool : BeingCounted(q) = 0
  BY DEF Init, BeingCounted
<1>2. \A q \in Pool : FreeOf(q) = {e \in Elt : PoolOf[e] = q}
  BY DEF Init, FreeOf
<1>3. PoolCounted
  BY <1>1, <1>2 DEF Init, PoolCounted
<1>4. QED
  BY <1>3, InitQueueInv DEF PoolInv

(* The invariant gives the count that PoolCountExact states with the       *)
(* modulus.                                                                *)
LEMMA PoolInvCounts == PoolInv => PoolCountExact
<1> SUFFICES ASSUME PoolInv, NEW q \in Pool
             PROVE  (available[q] + BeingCounted(q)) % UintMod = Cardinality(FreeOf(q))
  BY DEF PoolCountExact
<1> DEFINE n == Cardinality(FreeOf(q))
<1>1. n \in Nat /\ n < UintMod /\ UintMod \in Nat
  BY FreeIsFinite, ConstantsAssumption
<1>2. /\ BeingCounted(q) \in {0, 1}
      /\ available[q] = IF BeingCounted(q) = 0 THEN n ELSE IF n = 0 THEN UintMod - 1 ELSE n - 1
  BY DEF PoolInv, PoolCounted, BeingCounted
<1> HIDE DEF n
<1>3. available[q] + BeingCounted(q) = IF BeingCounted(q) # 0 /\ n = 0 THEN UintMod ELSE n
  BY <1>1, <1>2
<1>4. n % UintMod = n /\ UintMod % UintMod = 0
  BY <1>1
<1>5. (available[q] + BeingCounted(q)) % UintMod = n
  BY <1>1, <1>3, <1>4
<1>6. QED
  BY <1>5 DEF n

(* The counters of the pools are exact.                                    *)
THEOREM PoolsCounted == Calm => (Spec => []PoolCountExact)
<1> SUFFICES ASSUME Calm PROVE Spec => []PoolCountExact
  OBVIOUS
<1>1. Init => PoolInv
  BY InitPoolInv
<1>2. PoolInv /\ [Next]_vars => PoolInv'
  BY NextPoolInv
<1>3. PoolInv => PoolCountExact
  BY PoolInvCounts
<1>4. QED
  BY <1>1, <1>2, <1>3, PTL DEF Spec
-----------------------------------------------------------------------------
(* What a cleaning keeps.                                                  *)
LEMMA RepushKeeps ==
  ASSUME Calm, QueueInv, [Next]_vars, cpc = "clean_repush", cpc' = "clean"
  PROVE  \E i \in 1 .. Len(fifo') : fifo'[i] = popped
<1>1. CleanRepush
  BY DEF Next, vars, Produce, PushBegin, PoolCheck, PoolGet, FifoPush, FifoFallback,
     Count, Signalled, Consume, PopElt, PopWoken, Handle, ReleaseFree, ReleaseAvail, Clean,
     CleanBegin, CleanNext, CleanDrop, CleanAvail, SpuriousWakeup
<1>2. fifo' = Append(fifo, popped)
  BY <1>1, RepushHasRoom
<1>3. fifo \in Seq(Elt) /\ popped \in Elt /\ Len(fifo) \in Nat
  BY LenProperties DEF QueueInv, TypeInv, TypeOK, StepsOK
<1>4. Len(fifo') = Len(fifo) + 1 /\ fifo'[Len(fifo) + 1] = popped
  BY <1>2, <1>3, AppendProperties
<1>5. QED
  BY <1>3, <1>4

(* "re-push allowed operation": a cleaning finds room for every operation  *)
(* that it keeps.                                                          *)
THEOREM CleaningKeepsAllowed == Calm => (Spec => CleanKeepsAllowed)
<1> SUFFICES ASSUME Calm PROVE Spec => CleanKeepsAllowed
  OBVIOUS
<1>1. Init => QueueInv
  BY InitQueueInv
<1>2. QueueInv /\ [Next]_vars => QueueInv'
  BY NextQueueInv
<1>3. QueueInv /\ [Next]_vars =>
        [(cpc = "clean_repush" /\ cpc' = "clean")
           => \E i \in 1 .. Len(fifo') : fifo'[i] = popped]_vars
  BY RepushKeeps
<1>4. QED
  BY <1>1, <1>2, <1>3, PTL DEF Spec, CleanKeepsAllowed
-----------------------------------------------------------------------------
(* Where an operation may be.                                              *)
Occurs(e, f) == \E i \in 1 .. Len(f) : f[i] = e

(* What is queued stays queued behind a new last element, and that one is  *)
(* queued.                                                                 *)
LEMMA OccursAppend ==
  ASSUME NEW f \in Seq(Elt), NEW d \in Elt, NEW e, e = d \/ Occurs(e, f)
  PROVE  Occurs(e, Append(f, d))
<1>1. /\ Len(f) \in Nat /\ Len(Append(f, d)) = Len(f) + 1
      /\ Append(f, d)[Len(f) + 1] = d
      /\ \A i \in 1 .. Len(f) : Append(f, d)[i] = f[i]
  BY AppendProperties, LenProperties
<1>2. \A i \in 1 .. Len(f) : i \in 1 .. Len(f) + 1
  BY <1>1
<1>3. CASE Occurs(e, f)
  BY <1>1, <1>2, <1>3 DEF Occurs
<1>4. CASE e = d
  BY <1>1, <1>4 DEF Occurs
<1>5. QED
  BY <1>3, <1>4

(* The same for a new first element.                                       *)
LEMMA OccursPrepend ==
  ASSUME NEW f \in Seq(Elt), NEW d \in Elt, NEW e, e = d \/ Occurs(e, f)
  PROVE  Occurs(e, <<d>> \o f)
<1> DEFINE g == <<d>> \o f
<1>1. /\ Len(f) \in Nat /\ Len(g) = Len(f) + 1 /\ g[1] = d
      /\ \A i \in 1 .. Len(f) : g[i + 1] = f[i]
  BY Prepended, LenProperties
<1> HIDE DEF g
<1>2. \A i \in 1 .. Len(f) : i + 1 \in 1 .. Len(f) + 1
  BY <1>1
<1>3. Occurs(e, g)
  <2>1. CASE Occurs(e, f)
    BY <1>1, <1>2, <2>1 DEF Occurs
  <2>2. CASE e = d
    BY <1>1, <2>2 DEF Occurs
  <2>3. QED
    BY <2>1, <2>2
<1>4. QED
  BY <1>3 DEF g

(* What is queued is the first element or behind it.                       *)
LEMMA OccursTail ==
  ASSUME NEW f \in Seq(Elt), f # <<>>, NEW e, Occurs(e, f)
  PROVE  e = Head(f) \/ Occurs(e, Tail(f))
<1>1. /\ Len(f) \in Nat /\ Head(f) = f[1] /\ Len(Tail(f)) = Len(f) - 1
      /\ \A i \in 1 .. Len(f) - 1 : Tail(f)[i] = f[i + 1]
  BY HeadTailProperties, LenProperties
<1>2. PICK i \in 1 .. Len(f) : f[i] = e
  BY DEF Occurs
<1>3. CASE i = 1
  BY <1>1, <1>2, <1>3
<1>4. CASE i # 1
  <2>1. i - 1 \in 1 .. Len(f) - 1 /\ i - 1 + 1 = i
    BY <1>1, <1>2, <1>4
  <2>2. Tail(f)[i - 1] = e
    BY <1>1, <1>2, <2>1
  <2>3. QED
    BY <1>1, <2>1, <2>2 DEF Occurs
<1>5. QED
  BY <1>3, <1>4
-----------------------------------------------------------------------------
(* Every element that is used is somewhere: queued, being pushed, being    *)
(* run or popped by a cleaning.                                            *)
Held(e) ==
  \/ Occurs(e, fifo)
  \/ \E p \in Producer : mine[p] = e
  \/ cpc \in Holding /\ elt = e
  \/ CleanHolds(e)

(* Every used element is somewhere.                                        *)
UsedHeld == \A e \in Elt : state[e] = "USED" => Held(e)

(* The invariant that no element leaks, over that of the queue.            *)
HeldInv == QueueInv /\ UsedHeld

(* With a FIFO for all elements a push finds room.                         *)
LEMMA PushHasRoom ==
  ASSUME QueueInv, NEW p \in Producer, pc[p] \in PushSteps, RoomForAll
  PROVE  HasRoom
<1>1. /\ mine[p] \in Elt /\ \A i \in 1 .. Len(fifo) : fifo[i] # mine[p]
      /\ fifo \in Seq(Elt) /\ {mine[p]} \in SUBSET Elt
  BY DEF QueueInv, TypeInv, TypeOK, StepsOK, Ownership, ProducersOwn
<1>2. Len(fifo) + Cardinality({mine[p]}) <= Cardinality(Elt)
  BY <1>1, DistinctFits DEF QueueInv, Ownership, FifoOwns
<1>3. Cardinality({mine[p]}) = 1
  BY FS_Singleton
<1>4. Len(fifo) \in Nat /\ Cardinality(Elt) \in Nat
  BY QueueFits DEF QueueInv, Ownership
<1>5. QED
  BY <1>2, <1>3, <1>4, ConstantsAssumption DEF HasRoom, RoomForAll

(* A producer's step loses no element.                                     *)
LEMMA ProduceHeld ==
  ASSUME HeldInv, RoomForAll, NEW p \in Producer, Produce(p)
  PROVE  UsedHeld'
<1> USE DEF HeldInv
<1>0. /\ mine \in [Producer -> Elt \cup {NoElt}]
      /\ state \in [Elt -> {"FREE", "USED"}] /\ fifo \in Seq(Elt)
      /\ \A r \in Producer : pc[r] \notin PushSteps => mine[r] = NoElt
      /\ \A r \in Producer : pc[r] \in PushSteps => mine[r] \in Elt
  BY DEF QueueInv, TypeInv, TypeOK, StepsOK, Ownership, ProducersOwn
<1>1. UNCHANGED <<elt, popped>> /\ (cpc' \in Holding <=> cpc \in Holding)
      /\ \A e \in Elt : CleanHolds(e)' = CleanHolds(e)
  BY DEF Produce, PoolCheck, PoolGet, FifoPush, FifoFallback, Count, Signalled, cleanVars,
     Holding, CleanSteps, CleanHolds
<1>2. ASSUME state' = state, fifo' = fifo,
             \A r \in Producer : mine[r] \in Elt => mine'[r] = mine[r]
      PROVE  UsedHeld'
  BY <1>1, <1>2 DEF UsedHeld, Held, Occurs
<1>3. CASE PoolCheck(p) \/ Count(p) \/ (PoolGet(p) /\ FreeOf(arg[p].pool) = {})
  <2>1. pc[p] \notin PushSteps /\ state' = state /\ fifo' = fifo
    BY <1>3 DEF PoolCheck, Count, PoolGet, PushSteps, poolVars
  <2>2. \A r \in Producer : r # p => mine'[r] = mine[r]
    BY <1>0, <1>3 DEF PoolCheck, Count, PoolGet, PushFails
  <2>3. QED
    BY <1>0, <1>2, <2>1, <2>2, ConstantsAssumption
<1>4. CASE PoolGet(p) /\ FreeOf(arg[p].pool) # {}
  <2>1. PICK d \in Elt : /\ state' = [state EXCEPT ![d] = "USED"]
                         /\ mine' = [mine EXCEPT ![p] = d]
    BY <1>4 DEF PoolGet, FreeOf
  <2>2. fifo' = fifo /\ mine[p] = NoElt
    BY <1>0, <1>4 DEF PoolGet, PushSteps
  <2>3. mine'[p] = d /\ \A r \in Producer : r # p => mine'[r] = mine[r]
    BY <1>0, <2>1
  <2>4. ASSUME NEW e \in Elt, state'[e] = "USED" PROVE Held(e)'
    <3>1. CASE e = d
      BY <2>3, <3>1 DEF Held
    <3>2. CASE e # d
      <4>1. Held(e)
        BY <1>0, <2>1, <2>4, <3>2 DEF UsedHeld
      <4>2. (\E r \in Producer : mine[r] = e) => \E r \in Producer : mine'[r] = e
        BY <2>2, <2>3, ConstantsAssumption
      <4>3. QED
        BY <1>1, <2>2, <4>1, <4>2 DEF Held, Occurs
    <3>3. QED
      BY <3>1, <3>2
  <2>5. QED
    BY <2>4 DEF UsedHeld
<1>5. CASE FifoPush(p) \/ FifoFallback(p)
  <2>1. pc[p] \in PushSteps /\ mine[p] \in Elt /\ state' = state
    BY <1>0, <1>5 DEF FifoPush, FifoFallback, PushSteps, poolVars
  <2>2. HasRoom
    BY <2>1, PushHasRoom
  <2>3. CASE Goto(p, "fallback") /\ UNCHANGED <<fifo, mine>>
    BY <1>2, <2>1, <2>3
  <2>4. CASE /\ fifo' = Append(fifo, mine[p]) \/ fifo' = <<mine[p]>> \o fifo
             /\ Pushed(p)
    <3>1. \A r \in Producer : r # p => mine'[r] = mine[r]
      BY <1>0, <2>4 DEF Pushed
    <3>2. \A e \in Elt : e = mine[p] \/ Occurs(e, fifo) => Occurs(e, fifo')
      BY <1>0, <2>1, <2>4, OccursAppend, OccursPrepend
    <3>3. ASSUME NEW e \in Elt, state'[e] = "USED" PROVE Held(e)'
      <4>1. Held(e)
        BY <2>1, <3>3 DEF UsedHeld
      <4>2. (\E r \in Producer : mine[r] = e) =>
               e = mine[p] \/ \E r \in Producer : mine'[r] = e
        BY <3>1
      <4>3. QED
        BY <1>1, <3>2, <4>1, <4>2 DEF Held
    <3>4. QED
      BY <3>3 DEF UsedHeld
  <2>5. QED
    BY <1>5, <2>2, <2>3, <2>4 DEF FifoPush, FifoFallback
<1>6. QED
  BY <1>3, <1>4, <1>5 DEF Produce

(* Neither does the module thread.                                         *)
LEMMA ConsumeHeld ==
  ASSUME HeldInv, Calm, RoomForAll, Consume
  PROVE  UsedHeld'
<1> USE DEF HeldInv
<1>0. /\ fifo \in Seq(Elt) /\ mine' = mine /\ state \in [Elt -> {"FREE", "USED"}]
      /\ \A e \in Elt : Occurs(e, fifo) => fifo # <<>>
  <2>1. mine' = mine
    BY DEF Consume, PopElt, PopWoken, Handle, ReleaseFree, ReleaseAvail, Clean, CleanBegin,
       CleanNext, CleanRepush, CleanDrop, CleanAvail, prodVars
  <2>2. fifo \in Seq(Elt) /\ state \in [Elt -> {"FREE", "USED"}]
    BY DEF QueueInv, TypeInv, TypeOK
  <2>3. QED
    BY <2>1, <2>2, Len(<<>>) = 0 DEF Occurs
<1>1. ASSUME \A e \in Elt : state'[e] = "USED" => state[e] = "USED" /\ (Held(e) => Held(e)')
      PROVE  UsedHeld'
  BY <1>1 DEF UsedHeld
<1>2. ASSUME cpc \in {"pop", "woken"}, TakeFirst, state' = state PROVE UsedHeld'
  <2>1. CASE fifo = <<>>
    BY <1>0, <1>1, <1>2, <2>1 DEF TakeFirst, Held, Occurs, Holding, CleanSteps, CleanHolds
  <2>2. CASE fifo # <<>>
    <3>1. elt' = Head(fifo) /\ fifo' = Tail(fifo) /\ cpc' = "handle"
      BY <1>2, <2>2 DEF TakeFirst
    <3>2. ASSUME NEW e \in Elt, Occurs(e, fifo) PROVE e = elt' \/ Occurs(e, fifo')
      BY <1>0, <2>2, <3>1, <3>2, OccursTail
    <3>3. QED
      BY <1>0, <1>1, <1>2, <3>1, <3>2 DEF Held, Holding, CleanSteps, CleanHolds
  <2>3. QED
    BY <2>1, <2>2
<1>3. CASE PopElt \/ PopWoken
  <2>1. CASE TakeFirst
    BY <1>2, <1>3, <2>1 DEF PopElt, PopWoken, poolVars
  <2>2. CASE ~TakeFirst
    BY <1>0, <1>1, <1>3, <2>2
    DEF PopElt, PopWoken, poolVars, cleanVars, Held, Occurs, Holding, CleanSteps, CleanHolds
  <2>3. QED
    BY <2>1, <2>2
<1>4. CASE Handle \/ CleanBegin
  <2>1. /\ UNCHANGED <<state, fifo, elt, popped>> /\ cpc' \in Holding
        /\ cpc \in {"handle", "clean_begin"}
    BY <1>4 DEF Handle, CleanBegin, poolVars, cleanVars, Holding, CleanSteps
  <2>2. QED
    BY <1>0, <1>1, <2>1 DEF Held, Occurs, CleanHolds, Holding
<1>5. CASE ReleaseFree
  <2>1. /\ UNCHANGED <<fifo, elt, popped>> /\ cpc = "release"
        /\ state' = [state EXCEPT ![elt] = "FREE"]
    BY <1>5 DEF ReleaseFree, cleanVars
  <2>2. \A e \in Elt : state'[e] = "USED" => state[e] = "USED" /\ e # elt
    BY <1>0, <2>1
  <2>3. QED
    BY <1>0, <1>1, <2>1, <2>2 DEF Held, Occurs, CleanHolds
<1>6. CASE ReleaseAvail
  <2>1. UNCHANGED <<state, fifo, elt, popped>> /\ cpc = "avail"
    BY <1>6 DEF ReleaseAvail, cleanVars
  <2>2. QED
    BY <1>0, <1>1, <2>1 DEF Held, Occurs, CleanHolds, Holding, CleanSteps
<1>7. CASE CleanNext
  <2>1. UNCHANGED <<state, elt>> /\ cpc = "clean" /\ cpc' \in Holding
    BY <1>7 DEF CleanNext, poolVars, Holding, CleanSteps
  <2>2. CASE UNCHANGED <<fifo, popped>>
    BY <1>0, <1>1, <2>1, <2>2 DEF Held, Occurs, CleanHolds, Holding, CleanSteps
  <2>3. CASE /\ fifo # <<>> /\ popped' = Head(fifo) /\ fifo' = Tail(fifo)
             /\ cpc' \in {"clean_repush", "clean_drop"}
    <3>1. ASSUME NEW e \in Elt, Occurs(e, fifo) PROVE e = popped' \/ Occurs(e, fifo')
      BY <1>0, <2>3, <3>1, OccursTail
    <3>2. QED
      BY <1>0, <1>1, <2>1, <2>3, <3>1 DEF Held, CleanHolds
  <2>4. QED
    BY <1>7, <2>2, <2>3 DEF CleanNext
<1>8. CASE CleanRepush
  <2>1. UNCHANGED <<state, elt>> /\ cpc = "clean_repush" /\ cpc' \in Holding
    BY <1>8 DEF CleanRepush, poolVars, Holding, CleanSteps
  <2>2. fifo' = Append(fifo, popped) /\ popped \in Elt
    BY <1>8, <2>1, RepushHasRoom DEF QueueInv, TypeInv, StepsOK
  <2>3. ASSUME NEW e \in Elt, e = popped \/ Occurs(e, fifo) PROVE Occurs(e, fifo')
    BY <1>0, <2>2, <2>3, OccursAppend
  <2>4. QED
    BY <1>0, <1>1, <2>1, <2>3 DEF Held, CleanHolds
<1>9. CASE CleanDrop
  <2>1. UNCHANGED <<fifo, elt, popped>> /\ cpc = "clean_drop" /\ cpc' \in Holding
    BY <1>9 DEF CleanDrop, cleanVars, Holding, CleanSteps
  <2>2. CASE UNCHANGED <<state, cpc>>
    BY <1>0, <1>1, <2>1, <2>2 DEF Held, Occurs, CleanHolds
  <2>3. CASE state' = [state EXCEPT ![popped] = "FREE"]
    <3>1. \A e \in Elt : state'[e] = "USED" => state[e] = "USED" /\ e # popped
      BY <1>0, <2>3
    <3>2. QED
      BY <1>0, <1>1, <2>1, <3>1 DEF Held, Occurs, CleanHolds
  <2>4. QED
    BY <1>9, <2>2, <2>3 DEF CleanDrop
<1>10. CASE CleanAvail
  <2>1. UNCHANGED <<state, fifo, elt>> /\ cpc = "clean_avail" /\ cpc' \in Holding
    BY <1>10 DEF CleanAvail, Holding, CleanSteps
  <2>2. QED
    BY <1>0, <1>1, <2>1 DEF Held, Occurs, CleanHolds
<1>11. QED
  BY <1>3, <1>4, <1>5, <1>6, <1>7, <1>8, <1>9, <1>10 DEF Consume, Clean

(* With room for all elements, every step leaves each used element with    *)
(* somebody.                                                               *)
LEMMA NextHeldInv ==
  ASSUME Calm, RoomForAll, HeldInv, [Next]_vars
  PROVE  HeldInv'
<1>1. QueueInv'
  BY NextQueueInv DEF HeldInv
<1>2. ASSUME NEW p \in Producer, NEW o \in Op, PushBegin(p, o) PROVE UsedHeld'
  BY <1>2 DEF PushBegin, poolVars, cleanVars, HeldInv, UsedHeld, Held, Occurs, CleanHolds
<1>3. ASSUME SpuriousWakeup \/ UNCHANGED vars PROVE UsedHeld'
  BY <1>3 DEF Calm, SpuriousWakeup, vars, HeldInv, UsedHeld, Held, Occurs, CleanHolds
<1>4. UsedHeld'
  BY <1>2, <1>3, ProduceHeld, ConsumeHeld DEF Next
<1>5. QED
  BY <1>1, <1>4 DEF HeldInv

(* No element is used at first.                                            *)
LEMMA InitHeldInv == Init => HeldInv
BY InitQueueInv DEF Init, HeldInv, UsedHeld

(* An element that is somewhere has a holder.                              *)
LEMMA HeldHasHolder ==
  ASSUME NEW e \in Elt, HeldInv, Held(e)
  PROVE  Holders(e) # {}
<1>1. CASE Occurs(e, fifo)
  <2>1. PICK i \in 1 .. Len(fifo) : fifo[i] = e
    BY <1>1 DEF Occurs
  <2>2. <<"fifo", i>> \in Holders(e)
    BY <2>1 DEF Holders
  <2>3. QED
    BY <2>2
<1>2. CASE \E p \in Producer : mine[p] = e
  <2>1. PICK p \in Producer : mine[p] = e
    BY <1>2
  <2>2. <<"producer", p>> \in Holders(e)
    BY <2>1 DEF Holders
  <2>3. QED
    BY <2>2
<1>3. CASE cpc \in Holding /\ elt = e
  <2>1. ConsumerHolds(e)
    BY <1>3 DEF ConsumerHolds, Holding, CleanSteps
  <2>2. <<"module_thread", e>> \in Holders(e)
    BY <2>1 DEF Holders
  <2>3. QED
    BY <2>2
<1>4. CASE CleanHolds(e)
  <2>1. <<"clean", e>> \in Holders(e)
    BY <1>4 DEF Holders
  <2>2. QED
    BY <2>1
<1>5. QED
  BY <1>1, <1>2, <1>3, <1>4 DEF Held

(* A FIFO with room for the elements of every pool leaks none of them.     *)
THEOREM NoElementLeaks ==
  Calm /\ RoomForAll => (Spec => []UsedIsHeld)
<1> SUFFICES ASSUME Calm, RoomForAll PROVE Spec => []UsedIsHeld
  OBVIOUS
<1>1. Init => HeldInv
  BY InitHeldInv
<1>2. HeldInv /\ [Next]_vars => HeldInv'
  BY NextHeldInv
<1>3. HeldInv => UsedIsHeld
  BY HeldHasHolder DEF UsedIsHeld, HeldInv, UsedHeld
<1>4. QED
  BY <1>1, <1>2, <1>3, PTL DEF Spec
-----------------------------------------------------------------------------
(* Requests and STARTs in a queue f from position l + 1 on, with contents  *)
(* o: no request; a START; no request before the first START.              *)
NoRequest(o, f, l) == \A i \in l + 1 .. Len(f) : o[f[i]].type # "RR_RECEIVED"

(* There is a START.                                                       *)
HasStart(o, f, l) == \E i \in l + 1 .. Len(f) : o[f[i]].id = "START"

(* No request comes before the first START.                                *)
StartsFirst(o, f, l) ==
  \A i \in l + 1 .. Len(f) :
    o[f[i]].type = "RR_RECEIVED" => \E j \in l + 1 .. i - 1 : o[f[j]].id = "START"

(* A request in the table is being pushed, or its element is queued, run   *)
(* or in the hands of a cleaning.                                          *)
Pushing == {"check", "get"} \cup PushSteps

(* A producer pushes a request.                                            *)
PushingRequest(p) == pc[p] \in Pushing /\ arg[p].type = "RR_RECEIVED"

(* The element e carries a request of thread p to the module.              *)
OnItsWay(p, e) ==
  /\ Occurs(e, fifo) \/ (cpc = "handle" /\ elt = e) \/ CleanHolds(e)
  /\ op[e].from = p /\ op[e].type = "RR_RECEIVED"

(* Every request of the table is one of these.                             *)
RequestsHeld == \A p \in received : PushingRequest(p) \/ \E e \in Elt : OnItsWay(p, e)

(* A module that does not run meets no request before it is started: what  *)
(* a cleaning has left starts with no request, or has a START before it.   *)
QueueWaitsForStart ==
  mod_state # "RUNNING" /\ cpc # "clean_begin" =>
    \/ NoRequest(op, fifo, Settled)
    \/ /\ CleanedAtRest /\ mod_state = "READY"
       /\ \/ cpc = "handle" /\ op[elt].id = "START"
          \/ StartsFirst(op, fifo, Settled)

(* A request is run by a RUNNING module, and pushed for one.               *)
RequestsMeetRunning ==
  /\ cpc = "handle" /\ op[elt].type = "RR_RECEIVED" => mod_state = "RUNNING"
  /\ mod_state # "RUNNING" => \A p \in Producer : ~PushingRequest(p)

(* A cleaning is made by a module that does not run; what it keeps is      *)
(* behind a START it kept, and what it drops is no request it has no table *)
(* for.                                                                    *)
CleaningKeepsStart ==
  /\ cpc \in {"clean_begin"} \cup CleanSteps => mod_state # "RUNNING"
  /\ cpc \in CleanSteps /\ start_op => mod_state = "READY" /\ HasStart(op, fifo, left)
  /\ cpc = "clean_repush" => Kept(op[popped])

(* The invariant of the request table, over that of the queue.             *)
RequestInv ==
  QueueInv /\ RequestsHeld /\ QueueWaitsForStart /\ RequestsMeetRunning /\ CleaningKeepsStart

(* How an operation that is queued last, queued first or taken first       *)
(* changes them.                                                           *)
LEMMA WaitAppend ==
  ASSUME NEW f \in Seq(Elt), NEW e \in Elt, NEW o, NEW l \in 0 .. Len(f)
  PROVE  LET g == Append(f, e) IN
         /\ NoRequest(o, f, l) /\ o[e].type # "RR_RECEIVED" => NoRequest(o, g, l)
         /\ StartsFirst(o, f, l) /\ (o[e].type # "RR_RECEIVED" \/ HasStart(o, f, l))
              => StartsFirst(o, g, l)
         /\ HasStart(o, f, l) \/ o[e].id = "START" => HasStart(o, g, l)
<1> DEFINE g == Append(f, e)
<1>1. /\ Len(f) \in Nat /\ Len(g) = Len(f) + 1 /\ g[Len(f) + 1] = e
      /\ \A i \in 1 .. Len(f) : g[i] = f[i]
  BY AppendProperties, LenProperties
<1> HIDE DEF g
<1>2. \A i \in l + 1 .. Len(g) : i = Len(f) + 1 \/ (i \in l + 1 .. Len(f) /\ g[i] = f[i])
  BY <1>1
<1>3. Len(f) + 1 \in l + 1 .. Len(g) /\ \A i \in l + 1 .. Len(f) : i \in l + 1 .. Len(g)
  BY <1>1
<1>4. NoRequest(o, f, l) /\ o[e].type # "RR_RECEIVED" => NoRequest(o, g, l)
  BY <1>1, <1>2 DEF NoRequest
<1>5. HasStart(o, f, l) \/ o[e].id = "START" => HasStart(o, g, l)
  BY <1>1, <1>2, <1>3 DEF HasStart
<1>6. ASSUME StartsFirst(o, f, l), o[e].type # "RR_RECEIVED" \/ HasStart(o, f, l),
             NEW i \in l + 1 .. Len(g), o[g[i]].type = "RR_RECEIVED"
      PROVE  \E j \in l + 1 .. i - 1 : o[g[j]].id = "START"
  <2>1. CASE i = Len(f) + 1
    <3>1. PICK j \in l + 1 .. Len(f) : o[f[j]].id = "START"
      BY <1>1, <1>6, <2>1 DEF HasStart
    <3>2. j \in l + 1 .. i - 1 /\ g[j] = f[j]
      BY <1>1, <2>1
    <3>3. QED
      BY <3>1, <3>2
  <2>2. CASE i \in l + 1 .. Len(f) /\ g[i] = f[i]
    <3>1. PICK j \in l + 1 .. i - 1 : o[f[j]].id = "START"
      BY <1>6, <2>2 DEF StartsFirst
    <3>2. g[j] = f[j]
      BY <1>1, <2>2
    <3>3. QED
      BY <3>1, <3>2
  <2>3. QED
    BY <1>2, <2>1, <2>2
<1>7. StartsFirst(o, f, l) /\ (o[e].type # "RR_RECEIVED" \/ HasStart(o, f, l))
        => StartsFirst(o, g, l)
  BY <1>6 DEF StartsFirst
<1>8. QED
  BY <1>4, <1>5, <1>7 DEF g

(* The same for an operation queued first.                                 *)
LEMMA WaitPrepend ==
  ASSUME NEW f \in Seq(Elt), NEW e \in Elt, NEW o, NoRequest(o, f, 0), o[e].type # "RR_RECEIVED"
  PROVE  NoRequest(o, <<e>> \o f, 0)
<1> DEFINE g == <<e>> \o f
<1>1. /\ Len(f) \in Nat /\ Len(g) = Len(f) + 1 /\ g[1] = e
      /\ \A i \in 1 .. Len(f) : g[i + 1] = f[i]
  BY Prepended, LenProperties
<1> HIDE DEF g
<1>2. ASSUME NEW i \in 0 + 1 .. Len(g) PROVE o[g[i]].type # "RR_RECEIVED"
  <2>1. CASE i = 1
    BY <1>1, <2>1
  <2>2. CASE i # 1
    <3>1. i - 1 \in 0 + 1 .. Len(f) /\ i - 1 \in 1 .. Len(f) /\ i - 1 + 1 = i
      BY <1>1, <2>2
    <3>2. g[i] = f[i - 1]
      BY <1>1, <3>1
    <3>3. QED
      BY <3>1, <3>2 DEF NoRequest
  <2>3. QED
    BY <2>1, <2>2
<1>3. NoRequest(o, g, 0)
  BY <1>2 DEF NoRequest
<1>4. QED
  BY <1>3 DEF g

(* The same for the operation that is taken.                               *)
LEMMA WaitHead ==
  ASSUME NEW f \in Seq(Elt), f # <<>>, NEW o
  PROVE  /\ NoRequest(o, f, 0) => NoRequest(o, Tail(f), 0) /\ o[Head(f)].type # "RR_RECEIVED"
         /\ StartsFirst(o, f, 0) =>
              /\ o[Head(f)].type # "RR_RECEIVED"
              /\ o[Head(f)].id = "START" \/ StartsFirst(o, Tail(f), 0)
<1> DEFINE g == Tail(f)
<1>1. /\ Len(f) \in Nat /\ Len(f) > 0 /\ Head(f) = f[1] /\ Len(g) = Len(f) - 1
      /\ \A i \in 1 .. Len(f) - 1 : g[i] = f[i + 1]
  BY HeadTailProperties, LenProperties, EmptySeq
<1> HIDE DEF g
<1>2. /\ 1 \in 0 + 1 .. Len(f)
      /\ \A i \in 0 + 1 .. Len(g) : g[i] = f[i + 1] /\ i + 1 \in 0 + 1 .. Len(f)
  BY <1>1
<1>3. NoRequest(o, f, 0) => NoRequest(o, g, 0) /\ o[Head(f)].type # "RR_RECEIVED"
  BY <1>1, <1>2 DEF NoRequest
<1>4. StartsFirst(o, f, 0) => o[Head(f)].type # "RR_RECEIVED"
  <2>1. 0 + 1 .. 1 - 1 = {}
    OBVIOUS
  <2>2. QED
    BY <1>1, <1>2, <2>1 DEF StartsFirst
<1>5. ASSUME StartsFirst(o, f, 0), o[Head(f)].id # "START",
             NEW i \in 0 + 1 .. Len(g), o[g[i]].type = "RR_RECEIVED"
      PROVE  \E j \in 0 + 1 .. i - 1 : o[g[j]].id = "START"
  <2>1. PICK k \in 0 + 1 .. i + 1 - 1 : o[f[k]].id = "START"
    BY <1>2, <1>5 DEF StartsFirst
  <2>2. k # 1
    BY <1>1, <1>5, <2>1
  <2>3. k - 1 \in 0 + 1 .. i - 1 /\ k - 1 + 1 = k /\ k - 1 \in 1 .. Len(f) - 1
    BY <1>1, <2>1, <2>2
  <2>4. g[k - 1] = f[k]
    BY <1>1, <2>3
  <2>5. QED
    BY <2>1, <2>3, <2>4
<1>6. StartsFirst(o, f, 0) => o[Head(f)].id = "START" \/ StartsFirst(o, g, 0)
  BY <1>5 DEF StartsFirst
<1>7. QED
  BY <1>3, <1>4, <1>6 DEF g

(* The same for a queue that a cleaning has looked through as far as l.    *)
LEMMA WaitTail ==
  ASSUME NEW f \in Seq(Elt), f # <<>>, NEW o, NEW l \in 1 .. Len(f)
  PROVE  /\ NoRequest(o, f, l) => NoRequest(o, Tail(f), l - 1)
         /\ HasStart(o, f, l) => HasStart(o, Tail(f), l - 1)
         /\ StartsFirst(o, f, l) => StartsFirst(o, Tail(f), l - 1)
<1> DEFINE g == Tail(f)
<1>1. /\ Len(f) \in Nat /\ Len(g) = Len(f) - 1
      /\ \A i \in 1 .. Len(f) - 1 : g[i] = f[i + 1]
  BY HeadTailProperties, LenProperties
<1> HIDE DEF g
<1>2. \A i \in l - 1 + 1 .. Len(g) : g[i] = f[i + 1] /\ i + 1 \in l + 1 .. Len(f)
  BY <1>1
<1>3. \A i \in l + 1 .. Len(f) : i - 1 \in l - 1 + 1 .. Len(g) /\ g[i - 1] = f[i]
  <2> TAKE i \in l + 1 .. Len(f)
  <2>1. i - 1 \in l - 1 + 1 .. Len(g) /\ i - 1 + 1 = i
    BY <1>1
  <2>2. QED
    BY <1>2, <2>1
<1>4. NoRequest(o, f, l) => NoRequest(o, g, l - 1)
  BY <1>2 DEF NoRequest
<1>5. HasStart(o, f, l) => HasStart(o, g, l - 1)
  BY <1>3 DEF HasStart
<1>6. ASSUME StartsFirst(o, f, l), NEW i \in l - 1 + 1 .. Len(g), o[g[i]].type = "RR_RECEIVED"
      PROVE  \E j \in l - 1 + 1 .. i - 1 : o[g[j]].id = "START"
  <2>0. i + 1 \in l + 1 .. Len(f) /\ o[f[i + 1]].type = "RR_RECEIVED"
    BY <1>2, <1>6
  <2>1. PICK k \in l + 1 .. i + 1 - 1 : o[f[k]].id = "START"
    BY <1>6, <2>0 DEF StartsFirst
  <2>2. k \in l + 1 .. Len(f) /\ k - 1 \in l - 1 + 1 .. i - 1
    BY <1>1, <2>1
  <2>3. QED
    BY <1>3, <2>1, <2>2
<1>7. StartsFirst(o, f, l) => StartsFirst(o, g, l - 1)
  BY <1>6 DEF StartsFirst
<1>8. QED
  BY <1>4, <1>5, <1>7 DEF g
-----------------------------------------------------------------------------
(* The parts of it that are not about the table itself.                    *)
StartInv == QueueWaitsForStart /\ RequestsMeetRunning /\ CleaningKeepsStart

(* What the steps below use of the types.                                  *)
LEMMA RequestTypes ==
  ASSUME RequestInv
  PROVE  /\ QueueInv /\ RequestsHeld /\ StartInv
         /\ fifo \in Seq(Elt) /\ Len(fifo) \in Nat /\ received \in SUBSET Producer
         /\ pc \in [Producer -> {"idle", "check", "get", "push", "fallback", "count"}]
         /\ arg \in [Producer -> Op \cup {NoOp}]
         /\ op \in [Elt -> Op \cup {NoOp}]
         /\ Settled \in 0 .. Len(fifo)
BY QueueFits, LenProperties
DEF RequestInv, StartInv, QueueInv, Ownership, TypeInv, TypeOK

(* A request is not a life-cycle operation.                                *)
LEMMA RequestIsNoLifecycle ==
  ASSUME NEW o \in Op, o.type = "RR_RECEIVED"
  PROVE  o.id \notin Lifecycle /\ o.id # "START"
BY ConstantsAssumption DEF Lifecycle

(* Steps of producers that leave the elements where they are.              *)
LEMMA RequestQuiet ==
  ASSUME RequestInv, UNCHANGED <<op, fifo, elt, mod_state, left, start_op, popped>>,
         cpc' = cpc \/ (cpc = "waiting" /\ cpc' = "woken"),
         \A r \in received' :
           PushingRequest(r)' \/ (r \in received /\ ~PushingRequest(r)),
         \A r \in Producer : PushingRequest(r)' => PushingRequest(r) \/ mod_state = "RUNNING"
  PROVE  RequestsHeld' /\ StartInv'
<1>1. \A r \in Producer, e \in Elt : OnItsWay(r, e) => OnItsWay(r, e)'
  BY DEF OnItsWay, Occurs, CleanHolds
<1>2. RequestsHeld'
  BY <1>1, RequestTypes DEF RequestsHeld
<1>3. Settled' = Settled /\ (Kept(op[popped]) => Kept(op[popped])')
  BY DEF Settled, CleanSteps, Kept, IsStart, AllowedOperation
<1>4. QueueWaitsForStart'
  BY <1>3 DEF RequestInv, QueueWaitsForStart, NoRequest, StartsFirst
<1>5. RequestsMeetRunning'
  BY DEF RequestInv, RequestsMeetRunning
<1>6. CleaningKeepsStart'
  BY <1>3 DEF RequestInv, CleaningKeepsStart, CleanSteps, HasStart
<1>7. QED
  BY <1>2, <1>4, <1>5, <1>6 DEF StartInv

(* A push starts by entering its request in the table.                     *)
LEMMA PushBeginRequests ==
  ASSUME RequestInv, NEW p \in Producer, NEW o \in Op, PushBegin(p, o)
  PROVE  RequestsHeld' /\ StartInv'
<1>1. /\ pc[p] = "idle" /\ pc'[p] = "check" /\ arg'[p] = o
      /\ \A r \in Producer \ {p} : pc'[r] = pc[r] /\ arg'[r] = arg[r]
      /\ UNCHANGED <<op, fifo, cpc, elt, mod_state, left, start_op, popped>>
  BY RequestTypes DEF PushBegin, Goto, modVars, cleanVars
<1>2. /\ \A r \in received' : r = p \/ r \in received
      /\ o.type # "RR_RECEIVED" => received' = received
      /\ received' \in SUBSET Producer
  BY RequestTypes DEF PushBegin
<1>3. o.type = "RR_RECEIVED" => mod_state = "RUNNING"
  BY RequestIsNoLifecycle DEF PushBegin
<1>4. \A r \in Producer \ {p} : PushingRequest(r)' = PushingRequest(r)
  BY <1>1 DEF PushingRequest
<1>5. ~PushingRequest(p) /\ (PushingRequest(p)' <=> o.type = "RR_RECEIVED")
  BY <1>1 DEF PushingRequest, Pushing, PushSteps
<1>6. RequestsMeetRunning /\ RequestsHeld
  BY DEF RequestInv
<1>7. \A r \in received' : PushingRequest(r)' \/ (r \in received /\ ~PushingRequest(r))
  BY <1>2, <1>4, <1>5
<1>8. \A r \in Producer : PushingRequest(r)' => PushingRequest(r) \/ mod_state = "RUNNING"
  BY <1>3, <1>4, <1>5
<1>9. QED
  BY <1>1, <1>7, <1>8, RequestQuiet

(* A push that gives up takes its request out of the table.                *)
LEMMA PushFailsRequests ==
  ASSUME RequestInv, NEW p \in Producer, PushFails(p), pc[p] \in Pushing,
         UNCHANGED <<op, fifo, cpc, elt, modVars, cleanVars>>
  PROVE  RequestsHeld' /\ StartInv'
<1>1. /\ pc'[p] = "idle"
      /\ \A r \in Producer \ {p} : pc'[r] = pc[r] /\ arg'[r] = arg[r]
      /\ received' = IF arg[p].type = "RR_RECEIVED" THEN received \ {p} ELSE received
  BY RequestTypes DEF PushFails, Goto
<1>2. \A r \in Producer \ {p} : PushingRequest(r)' = PushingRequest(r)
  BY <1>1 DEF PushingRequest
<1>3. ~PushingRequest(p)' /\ (PushingRequest(p) <=> arg[p].type = "RR_RECEIVED")
  BY <1>1 DEF PushingRequest, Pushing, PushSteps
<1>4. \A r \in received' : PushingRequest(r)' \/ (r \in received /\ ~PushingRequest(r))
  BY <1>1, <1>2, <1>3, RequestTypes
<1>5. \A r \in Producer : PushingRequest(r)' => PushingRequest(r) \/ mod_state = "RUNNING"
  BY <1>2, <1>3
<1>6. UNCHANGED <<op, fifo, cpc, elt, mod_state, left, start_op, popped>>
  BY DEF modVars, cleanVars
<1>7. QED
  BY <1>4, <1>5, <1>6, RequestQuiet

(* A push that goes on to its next step.                                   *)
LEMMA PushGoesOnRequests ==
  ASSUME RequestInv, NEW p \in Producer, NEW s \in Pushing, Goto(p, s), pc[p] \in Pushing,
         UNCHANGED <<op, fifo, arg, cpc, elt, modVars, cleanVars, received>>
  PROVE  RequestsHeld' /\ StartInv'
<1>1. pc'[p] = s /\ \A r \in Producer \ {p} : pc'[r] = pc[r]
  BY RequestTypes DEF Goto
<1>2. \A r \in Producer : PushingRequest(r)' = PushingRequest(r)
  BY <1>1 DEF PushingRequest
<1>3. UNCHANGED <<op, fifo, cpc, elt, mod_state, left, start_op, popped>>
  BY DEF modVars, cleanVars
<1>4. \A r \in received' : PushingRequest(r)' \/ (r \in received /\ ~PushingRequest(r))
  BY <1>2, RequestTypes
<1>5. QED
  BY <1>2, <1>3, <1>4, RequestQuiet

(* The element that is filled was free: nothing of what is queued, run or  *)
(* popped changes.                                                         *)
LEMMA PoolGetRequests ==
  ASSUME RequestInv, NEW p \in Producer, PoolGet(p)
  PROVE  RequestsHeld' /\ StartInv'
<1>1. CASE FreeOf(arg[p].pool) = {}
  BY <1>1, PushFailsRequests DEF PoolGet, Pushing
<1>2. CASE FreeOf(arg[p].pool) # {}
  <2>1. PICK d \in Elt : /\ op' = [op EXCEPT ![d] = arg[p]] /\ state[d] = "FREE"
                         /\ Goto(p, "push") /\ UNCHANGED <<arg, received>>
    BY <1>2 DEF PoolGet, FreeOf
  <2>2. /\ pc[p] = "get" /\ pc'[p] = "push" /\ \A r \in Producer \ {p} : pc'[r] = pc[r]
        /\ UNCHANGED <<fifo, cpc, elt, mod_state, left, start_op, popped>>
    BY <2>1, RequestTypes DEF PoolGet, Goto, modVars, cleanVars
  <2>3. \A e \in Elt : state[e] = "USED" => op'[e] = op[e]
    BY <2>1, RequestTypes
  <2>4. /\ \A i \in 1 .. Len(fifo) : fifo[i] \in Elt /\ op'[fifo[i]] = op[fifo[i]]
        /\ cpc = "handle" => op'[elt] = op[elt]
        /\ \A e \in Elt : CleanHolds(e) => op'[e] = op[e]
        /\ cpc = "clean_repush" => op'[popped] = op[popped]
    <3>1. \A i \in 1 .. Len(fifo) : fifo[i] \in Elt /\ state[fifo[i]] = "USED"
      BY RequestTypes, ElementOfSeq DEF RequestInv, QueueInv, Ownership, FifoOwns
    <3>2. cpc = "handle" => elt \in Elt /\ state[elt] = "USED"
      BY DEF RequestInv, QueueInv, Ownership, ConsumerOwns, Holding
    <3>3. cpc \in {"clean_repush", "clean_drop"} => popped \in Elt /\ state[popped] = "USED"
      BY DEF RequestInv, QueueInv, TypeInv, StepsOK, Ownership, CleanOwns
    <3>4. \A e \in Elt : CleanHolds(e) => op'[e] = op[e]
      BY <2>3, <3>3 DEF CleanHolds
    <3>5. QED
      BY <2>3, <3>1, <3>2, <3>3, <3>4
  <2>5. \A r \in Producer : PushingRequest(r)' = PushingRequest(r)
    BY <2>1, <2>2 DEF PushingRequest, Pushing, PushSteps
  <2>6. \A r \in Producer, e \in Elt : OnItsWay(r, e) => OnItsWay(r, e)'
    BY <2>2, <2>4 DEF OnItsWay, Occurs, CleanHolds
  <2>7. RequestsHeld'
    BY <2>1, <2>5, <2>6, RequestTypes DEF RequestsHeld
  <2>8. Settled' = Settled /\ Settled \in Nat
    BY <2>2, RequestTypes DEF Settled
  <2>9. \A i \in Settled + 1 .. Len(fifo) : i \in 1 .. Len(fifo) /\ op'[fifo[i]] = op[fifo[i]]
    BY <2>4, <2>8, RequestTypes
  <2>10. QueueWaitsForStart'
    <3>1. NoRequest(op, fifo, Settled) => NoRequest(op, fifo, Settled)'
      BY <2>2, <2>8, <2>9 DEF NoRequest
    <3>2. StartsFirst(op, fifo, Settled) => StartsFirst(op, fifo, Settled)'
      <4>1. ASSUME StartsFirst(op, fifo, Settled), NEW i \in Settled + 1 .. Len(fifo),
                   op'[fifo[i]].type = "RR_RECEIVED"
            PROVE  \E j \in Settled + 1 .. i - 1 : op'[fifo[j]].id = "START"
        <5>1. PICK j \in Settled + 1 .. i - 1 : op[fifo[j]].id = "START"
          BY <2>9, <4>1 DEF StartsFirst
        <5>2. j \in Settled + 1 .. Len(fifo)
          BY <2>8, RequestTypes
        <5>3. QED
          BY <2>9, <5>1, <5>2
      <4>2. QED
        BY <2>2, <2>8, <4>1 DEF StartsFirst
    <3>3. QED
      BY <2>2, <2>4, <3>1, <3>2 DEF RequestInv, QueueWaitsForStart
  <2>11. RequestsMeetRunning'
    BY <2>2, <2>4, <2>5 DEF RequestInv, RequestsMeetRunning
  <2>12. CleaningKeepsStart'
    <3>1. cpc \in CleanSteps /\ HasStart(op, fifo, left) => HasStart(op, fifo, left)'
      BY <2>2, <2>9 DEF HasStart, Settled
    <3>2. Kept(op[popped])' = Kept(op'[popped])
      BY <2>2 DEF Kept, IsStart, AllowedOperation
    <3>3. QED
      BY <2>2, <2>4, <3>1, <3>2 DEF RequestInv, CleaningKeepsStart, CleanSteps
  <2>13. QED
    BY <2>7, <2>10, <2>11, <2>12 DEF StartInv
<1>3. QED
  BY <1>1, <1>2
(* A request that is pushed is queued, and the module runs.                *)
LEMMA HandOverRequests ==
  ASSUME RequestInv, Calm, NEW p \in Producer, pc[p] \in PushSteps, Pushed(p),
         \/ fifo' = Append(fifo, mine[p])
         \/ fifo' = <<mine[p]>> \o fifo /\ arg[p].first,
         UNCHANGED <<op, cpc, elt, modVars, cleanVars>>
  PROVE  RequestsHeld' /\ StartInv'
<1>0. PICK d \in Elt : d = mine[p]
  BY DEF RequestInv, QueueInv, TypeInv, StepsOK
<1>1. /\ d \in Elt /\ op[d] = arg[p] /\ arg[p] \in Op /\ arg[p].from = p
      /\ pc'[p] \in {"count", "idle"} /\ arg' = arg /\ received' = received
      /\ \A r \in Producer \ {p} : pc'[r] = pc[r]
      /\ UNCHANGED <<op, cpc, elt, mod_state, left, start_op, popped>>
  BY <1>0, RequestTypes
  DEF RequestInv, QueueInv, TypeInv, StepsOK, Ownership, ProducersOwn, Pushed, Goto, PushSteps,
      modVars, cleanVars
<1>2. /\ PushingRequest(p) <=> op[d].type = "RR_RECEIVED"
      /\ ~PushingRequest(p)'
      /\ \A r \in Producer \ {p} : PushingRequest(r)' = PushingRequest(r)
  BY <1>1 DEF PushingRequest, Pushing, PushSteps
<1>3. mod_state # "RUNNING" => op[d].type # "RR_RECEIVED"
  BY <1>2 DEF RequestInv, RequestsMeetRunning
<1>4. \A e \in Elt : e = d \/ Occurs(e, fifo) => Occurs(e, fifo')
  BY <1>0, RequestTypes, OccursAppend, OccursPrepend
<1>5. RequestsHeld'
  <2>1. \A r \in Producer, e \in Elt : OnItsWay(r, e) => OnItsWay(r, e)'
    BY <1>1, <1>4 DEF OnItsWay, CleanHolds
  <2>2. op[d].type = "RR_RECEIVED" => OnItsWay(p, d)'
    BY <1>1, <1>4 DEF OnItsWay
  <2>3. ASSUME NEW r \in received PROVE PushingRequest(r)' \/ \E e \in Elt : OnItsWay(r, e)'
    <3>1. PushingRequest(r) \/ \E e \in Elt : OnItsWay(r, e)
      BY DEF RequestInv, RequestsHeld
    <3>2. CASE \E e \in Elt : OnItsWay(r, e)
      BY <2>1, <3>2, RequestTypes
    <3>3. CASE PushingRequest(r) /\ r = p
      BY <1>1, <1>2, <2>2, <3>3
    <3>4. CASE PushingRequest(r) /\ r # p
      BY <1>2, <3>4, RequestTypes
    <3>5. QED
      BY <3>1, <3>2, <3>3, <3>4
  <2>4. QED
    BY <1>1, <2>3 DEF RequestsHeld
<1>6. Settled' = Settled /\ (Kept(op[popped]) => Kept(op[popped])')
  BY <1>1 DEF Settled, CleanSteps, Kept, IsStart, AllowedOperation
<1>7. /\ mod_state # "RUNNING" /\ NoRequest(op, fifo, Settled) => NoRequest(op, fifo', Settled)
      /\ CleanedAtRest /\ mod_state # "RUNNING" /\ StartsFirst(op, fifo, Settled)
           => StartsFirst(op, fifo', Settled)
      /\ CleanedAtRest /\ HasStart(op, fifo, Settled) => HasStart(op, fifo', Settled)
  <2>1. CASE fifo' = Append(fifo, d)
    BY <1>1, <1>3, <2>1, RequestTypes, WaitAppend
  <2>2. CASE fifo' = <<d>> \o fifo /\ arg[p].first
    <3>1. ~CleanedAtRest
      BY <1>1, <2>2 DEF CleanedAtRest
    <3>2. cpc \notin CleanSteps
      BY <3>1, CleaningIsAtRest DEF RequestInv
    <3>3. Settled = 0
      BY <3>2 DEF Settled
    <3>4. QED
      BY <1>1, <1>3, <2>2, <3>1, <3>3, RequestTypes, WaitPrepend
  <2>3. QED
    BY <1>0, <2>1, <2>2
<1>8. QueueWaitsForStart'
  BY <1>1, <1>6, <1>7 DEF RequestInv, QueueWaitsForStart
<1>9. RequestsMeetRunning'
  BY <1>1, <1>2 DEF RequestInv, RequestsMeetRunning
<1>10. CleaningKeepsStart'
  <2>1. cpc \in CleanSteps => CleanedAtRest /\ Settled = left
    BY CleaningIsAtRest DEF RequestInv, Settled
  <2>2. QED
    BY <1>1, <1>6, <1>7, <2>1 DEF RequestInv, CleaningKeepsStart, CleanSteps
<1>11. QED
  BY <1>5, <1>8, <1>9, <1>10 DEF StartInv

(* The steps of a push keep the request on its way, or take it out of the  *)
(* table.                                                                  *)
LEMMA ProduceRequests ==
  ASSUME RequestInv, Calm, NEW p \in Producer, Produce(p)
  PROVE  RequestsHeld' /\ StartInv'
<1>1. CASE PoolCheck(p)
  <2>1. pc[p] \in Pushing /\ UNCHANGED <<op, fifo, cpc, elt, modVars, cleanVars>>
    BY <1>1 DEF PoolCheck, Pushing
  <2>2. CASE PushFails(p)
    BY <2>1, <2>2, PushFailsRequests
  <2>3. CASE Goto(p, "get") /\ UNCHANGED <<arg, received>>
    BY <2>1, <2>3, PushGoesOnRequests DEF Pushing
  <2>4. QED
    BY <1>1, <2>2, <2>3 DEF PoolCheck
<1>2. CASE PoolGet(p)
  BY <1>2, PoolGetRequests
<1>3. CASE FifoPush(p)
  <2>1. /\ pc[p] \in Pushing /\ pc[p] \in PushSteps
        /\ UNCHANGED <<op, cpc, elt, modVars, cleanVars>>
    BY <1>3 DEF FifoPush, Pushing, PushSteps
  <2>2. CASE PushFails(p) /\ UNCHANGED fifo
    BY <2>1, <2>2, PushFailsRequests
  <2>3. CASE Pushed(p) /\ (\/ fifo' = Append(fifo, mine[p])
                           \/ fifo' = <<mine[p]>> \o fifo /\ arg[p].first)
    BY <2>1, <2>3, HandOverRequests
  <2>4. CASE Goto(p, "fallback") /\ UNCHANGED <<fifo, arg, received>>
    BY <2>1, <2>4, PushGoesOnRequests DEF Pushing, PushSteps
  <2>5. QED
    BY <1>3, <2>2, <2>3, <2>4 DEF FifoPush
<1>4. CASE FifoFallback(p)
  <2>1. pc[p] = "fallback" /\ pc[p] \in PushSteps /\ Pushed(p)
    BY <1>4 DEF FifoFallback, PushSteps
  <2>2. arg[p] \in Op /\ arg[p].first
    BY <2>1 DEF RequestInv, QueueInv, TypeInv, StepsOK, Ownership, ProducersOwn
  <2>3. RoomForAll
    BY <2>2 DEF Calm, NeverCleaned, CleanedAtRest, RoomForAll
  <2>4. HasRoom
    BY <2>1, <2>3, PushHasRoom DEF RequestInv
  <2>5. QED
    BY <1>4, <2>1, <2>4, HandOverRequests DEF FifoFallback
<1>5. CASE Count(p)
  <2>1. /\ pc[p] = "count" /\ pc'[p] = "idle"
        /\ \A r \in Producer \ {p} : pc'[r] = pc[r] /\ arg'[r] = arg[r]
        /\ UNCHANGED <<op, fifo, elt, mod_state, left, start_op, popped, received>>
        /\ cpc' = cpc \/ (cpc = "waiting" /\ cpc' = "woken")
    BY <1>5, RequestTypes DEF Count, Goto, Signalled, modVars, cleanVars
  <2>2. \A r \in Producer : PushingRequest(r)' = PushingRequest(r)
    BY <2>1 DEF PushingRequest, Pushing, PushSteps
  <2>3. \A r \in received' : PushingRequest(r)' \/ (r \in received /\ ~PushingRequest(r))
    BY <2>1, <2>2, RequestTypes
  <2>4. QED
    BY <2>1, <2>2, <2>3, RequestQuiet
<1>6. QED
  BY <1>1, <1>2, <1>3, <1>4, <1>5 DEF Produce
-----------------------------------------------------------------------------
(* The module thread takes the first operation.                            *)
LEMMA TakeFirstRequests ==
  ASSUME RequestInv, cpc \in {"pop", "woken"}, activating_op_num > 0, TakeFirst,
         UNCHANGED <<poolVars, op, prodVars, modVars, cleanVars, received>>
  PROVE  RequestsHeld' /\ StartInv'
<1>1. fifo # <<>>
  BY TakeFirstOwn DEF RequestInv
<1>2. /\ elt' = Head(fifo) /\ fifo' = Tail(fifo) /\ cpc' = "handle"
      /\ UNCHANGED <<op, pc, arg, mod_state, left, start_op, popped, received>>
  BY <1>1 DEF TakeFirst, poolVars, prodVars, modVars, cleanVars
<1>3. \A r \in Producer : PushingRequest(r)' = PushingRequest(r)
  BY <1>2 DEF PushingRequest
<1>4. RequestsHeld'
  <2>1. \A e \in Elt : Occurs(e, fifo) => e = elt' \/ Occurs(e, fifo')
    BY <1>1, <1>2, RequestTypes, OccursTail
  <2>2. \A r \in Producer, e \in Elt : OnItsWay(r, e) => OnItsWay(r, e)'
    BY <1>2, <2>1 DEF OnItsWay, CleanHolds
  <2>3. QED
    BY <1>2, <1>3, <2>2, RequestTypes DEF RequestsHeld
<1>5. Settled = 0 /\ Settled' = 0
  BY <1>2 DEF Settled, CleanSteps
<1>6. mod_state # "RUNNING" =>
        \/ NoRequest(op, fifo, 0)
        \/ CleanedAtRest /\ mod_state = "READY" /\ StartsFirst(op, fifo, 0)
  BY <1>5 DEF RequestInv, QueueWaitsForStart
<1>7. QueueWaitsForStart'
  BY <1>1, <1>2, <1>5, <1>6, RequestTypes, WaitHead DEF QueueWaitsForStart
<1>8. RequestsMeetRunning'
  BY <1>1, <1>2, <1>3, <1>6, RequestTypes, WaitHead DEF RequestInv, RequestsMeetRunning
<1>9. CleaningKeepsStart'
  BY <1>2 DEF CleaningKeepsStart, CleanSteps
<1>10. QED
  BY <1>4, <1>7, <1>8, <1>9 DEF StartInv

(* A pop takes the request from the queue to the module thread.            *)
LEMMA PopRequests ==
  ASSUME RequestInv, Calm, PopElt \/ PopWoken
  PROVE  RequestsHeld' /\ StartInv'
<1>1. CASE PopElt /\ activating_op_num = 0
  <2>1. /\ cpc = "pop" /\ cpc' = "waiting"
        /\ UNCHANGED <<op, fifo, pc, arg, elt, mod_state, left, start_op, popped, received>>
    BY <1>1 DEF PopElt, prodVars, modVars, cleanVars
  <2>2. \A r \in Producer : PushingRequest(r)' = PushingRequest(r)
    BY <2>1 DEF PushingRequest
  <2>3. \A r \in Producer, e \in Elt : OnItsWay(r, e) => OnItsWay(r, e)'
    BY <2>1 DEF OnItsWay, Occurs, CleanHolds
  <2>4. RequestsHeld'
    BY <2>1, <2>2, <2>3, RequestTypes DEF RequestsHeld
  <2>5. Settled' = Settled
    BY <2>1 DEF Settled, CleanSteps
  <2>6. StartInv'
    BY <2>1, <2>2, <2>5 DEF RequestInv, StartInv, QueueWaitsForStart, NoRequest, StartsFirst,
       RequestsMeetRunning, CleaningKeepsStart, CleanSteps
  <2>7. QED
    BY <2>4, <2>6
<1>2. CASE PopElt /\ activating_op_num # 0
  <2>1. activating_op_num > 0
    BY <1>2 DEF RequestInv, QueueInv, TypeInv, TypeOK
  <2>2. QED
    BY <1>2, <2>1, TakeFirstRequests DEF PopElt
<1>3. CASE PopWoken
  <2>1. activating_op_num > 0 /\ cpc = "woken"
    BY <1>3 DEF PopWoken, RequestInv, QueueInv, Counted
  <2>2. QED
    BY <1>3, <2>1, TakeFirstRequests DEF PopWoken
<1>4. QED
  BY <1>1, <1>2, <1>3

(* A module stops running when nobody pushes, and a request that it runs   *)
(* is run in RUNNING.                                                      *)
LEMMA HandleRequests ==
  ASSUME RequestInv, Calm, Scheduled, Handle
  PROVE  RequestsHeld' /\ StartInv'
<1>1. /\ cpc = "handle" /\ elt \in Elt /\ elt # NoElt /\ op[elt] \in Op
      /\ UNCHANGED <<fifo, op, pc, arg, elt, left, start_op, popped>>
  BY ConstantsAssumption
  DEF Handle, prodVars, cleanVars, RequestInv, QueueInv, Ownership, ConsumerOwns, Holding
<1>2. op[elt].type = "RR_RECEIVED" =>
        /\ op[elt].id \notin Lifecycle /\ op[elt].id # "START"
        /\ mod_state = "RUNNING"
  BY <1>1, RequestIsNoLifecycle DEF RequestInv, RequestsMeetRunning
<1>3. /\ cpc' \in {"release", "clean_begin"} /\ received' \in SUBSET received
      /\ op[elt].type = "RR_RECEIVED" => op[elt].from \notin received'
  BY <1>1, <1>2 DEF Handle, Lifecycle
<1>4. /\ cpc' = "clean_begin" => mod_state' # "RUNNING"
      /\ mod_state = "RUNNING" /\ mod_state' # "RUNNING"
           => cpc' = "clean_begin" /\ op[elt].id \in Cleaning
      /\ mod_state = "READY" /\ mod_state' # "RUNNING" /\ cpc' # "clean_begin"
           => mod_state' = "READY" /\ op[elt].id # "START"
  <2>1. CASE op[elt].id \in Lifecycle /\ op[elt].id \notin Cleaning
    BY <1>1, <2>1 DEF Handle, Cleaning, Lifecycle
  <2>2. CASE op[elt].id \in Cleaning
    BY <1>1, <2>2 DEF Handle, Cleaning, Lifecycle
  <2>3. CASE op[elt].id \notin Lifecycle
    <3>1. mod_state' = mod_state /\ cpc' = "release" /\ op[elt].id # "START"
      BY <1>1, <2>3 DEF Handle, Lifecycle, modVars
    <3>2. QED
      BY <3>1
  <2>4. QED
    BY <2>1, <2>2, <2>3
<1>5. \A r \in Producer : PushingRequest(r)' = PushingRequest(r)
  BY <1>1 DEF PushingRequest
<1>6. RequestsHeld'
  <2>1. ASSUME NEW r \in received', NEW e \in Elt, OnItsWay(r, e) PROVE OnItsWay(r, e)'
    BY <1>1, <1>3, <2>1 DEF OnItsWay, CleanHolds
  <2>2. QED
    BY <1>3, <1>5, <2>1, RequestTypes DEF RequestsHeld
<1>7. Settled = 0 /\ Settled' = 0
  BY <1>1, <1>3 DEF Settled, CleanSteps
<1>8. QueueWaitsForStart'
  <2>1. SUFFICES ASSUME mod_state' # "RUNNING", cpc' # "clean_begin"
                 PROVE  \/ NoRequest(op, fifo, 0)
                        \/ CleanedAtRest /\ mod_state' = "READY" /\ StartsFirst(op, fifo, 0)
    BY <1>1, <1>7 DEF QueueWaitsForStart
  <2>2. mod_state # "RUNNING"
    BY <1>4, <2>1
  <2>3. \/ NoRequest(op, fifo, 0)
        \/ /\ CleanedAtRest /\ mod_state = "READY"
           /\ op[elt].id = "START" \/ StartsFirst(op, fifo, 0)
    BY <1>1, <1>7, <2>2 DEF RequestInv, QueueWaitsForStart
  <2>4. QED
    BY <1>4, <2>1, <2>2, <2>3
<1>9. RequestsMeetRunning'
  <2>1. CASE mod_state # "RUNNING"
    BY <1>3, <1>5, <2>1 DEF RequestInv, RequestsMeetRunning
  <2>2. CASE mod_state = "RUNNING" /\ mod_state' # "RUNNING"
    <3>1. CleanedAtRest
      BY <1>1, <1>4, <2>2 DEF Calm, NeverCleaned
    <3>2. \A r \in Producer : pc[r] \in {"idle", "count"}
      BY <3>1 DEF Scheduled, CleanedAtRest
    <3>3. \A r \in Producer : ~PushingRequest(r)'
      BY <1>1, <3>2 DEF PushingRequest, Pushing, PushSteps
    <3>4. QED
      BY <1>3, <3>3 DEF RequestsMeetRunning
  <2>3. CASE mod_state' = "RUNNING"
    BY <1>3, <2>3 DEF RequestsMeetRunning
  <2>4. QED
    BY <2>1, <2>2, <2>3
<1>10. CleaningKeepsStart'
  BY <1>3, <1>4 DEF CleaningKeepsStart, CleanSteps
<1>11. QED
  BY <1>6, <1>8, <1>9, <1>10 DEF StartInv

(* A release is of an operation that has been run, so no request is in it. *)
LEMMA ReleaseRequests ==
  ASSUME RequestInv, ReleaseFree \/ ReleaseAvail
  PROVE  RequestsHeld' /\ StartInv'
<1>1. /\ cpc \in {"release", "avail"} /\ cpc' \in {"avail", "pop", "done"}
      /\ UNCHANGED <<op, fifo, pc, arg, elt, mod_state, left, start_op, popped, received>>
  BY DEF ReleaseFree, ReleaseAvail, prodVars, modVars, cleanVars
<1>2. \A r \in Producer : PushingRequest(r)' = PushingRequest(r)
  BY <1>1 DEF PushingRequest
<1>3. \A r \in Producer, e \in Elt : OnItsWay(r, e) => OnItsWay(r, e)'
  BY <1>1 DEF OnItsWay, Occurs, CleanHolds
<1>4. RequestsHeld'
  BY <1>1, <1>2, <1>3, RequestTypes DEF RequestsHeld
<1>5. Settled' = Settled
  BY <1>1 DEF Settled, CleanSteps
<1>6. StartInv'
  BY <1>1, <1>2, <1>5 DEF RequestInv, StartInv, QueueWaitsForStart, NoRequest, StartsFirst,
     RequestsMeetRunning, CleaningKeepsStart, CleanSteps
<1>7. QED
  BY <1>4, <1>6
-----------------------------------------------------------------------------
(* A cleaning begins with everything to look at, and keeps a request only  *)
(* behind a START that it has kept.                                        *)
LEMMA CleanBeginRequests ==
  ASSUME RequestInv, CleanBegin
  PROVE  RequestsHeld' /\ StartInv'
<1>1. /\ cpc = "clean_begin" /\ cpc' = "clean" /\ left' = Len(fifo) /\ start_op' = FALSE
      /\ UNCHANGED <<op, fifo, pc, arg, elt, mod_state, popped, received>>
  BY DEF CleanBegin, prodVars, modVars
<1>2. \A r \in Producer : PushingRequest(r)' = PushingRequest(r)
  BY <1>1 DEF PushingRequest
<1>3. \A r \in Producer, e \in Elt : OnItsWay(r, e) => OnItsWay(r, e)'
  BY <1>1 DEF OnItsWay, Occurs, CleanHolds
<1>4. RequestsHeld'
  BY <1>1, <1>2, <1>3, RequestTypes DEF RequestsHeld
<1>5. NoRequest(op', fifo', Settled')
  <2>1. Settled' = Len(fifo) /\ Len(fifo) \in Nat
    BY <1>1, RequestTypes DEF Settled, CleanSteps
  <2>2. QED
    BY <1>1, <2>1 DEF NoRequest
<1>6. StartInv'
  BY <1>1, <1>2, <1>5 DEF RequestInv, StartInv, QueueWaitsForStart, RequestsMeetRunning,
     CleaningKeepsStart, CleanSteps
<1>7. QED
  BY <1>4, <1>6

(* A cleaning that takes an element keeps it in hand.                      *)
LEMMA CleanNextRequests ==
  ASSUME RequestInv, CleanNext
  PROVE  RequestsHeld' /\ StartInv'
<1>1. /\ cpc = "clean" /\ left \in 0 .. Len(fifo) /\ Settled = left
      /\ UNCHANGED <<op, pc, arg, elt, mod_state, start_op, received>>
  BY RequestTypes DEF CleanNext, prodVars, modVars, Settled, CleanSteps
<1>2. \A r \in Producer : PushingRequest(r)' = PushingRequest(r)
  BY <1>1 DEF PushingRequest
<1>3. CASE left = 0
  <2>1. cpc' = "release" /\ UNCHANGED <<fifo, left, popped>>
    BY <1>3 DEF CleanNext
  <2>2. \A r \in Producer, e \in Elt : OnItsWay(r, e) => OnItsWay(r, e)'
    BY <1>1, <2>1 DEF OnItsWay, Occurs, CleanHolds
  <2>3. RequestsHeld'
    BY <1>1, <1>2, <2>2, RequestTypes DEF RequestsHeld
  <2>4. Settled' = Settled
    BY <1>1, <1>3, <2>1 DEF Settled, CleanSteps
  <2>5. StartInv'
    BY <1>1, <1>2, <2>1, <2>4 DEF RequestInv, StartInv, QueueWaitsForStart, NoRequest,
       StartsFirst, RequestsMeetRunning, CleaningKeepsStart, CleanSteps
  <2>6. QED
    BY <2>3, <2>5
<1>4. CASE left # 0
  <2>1. left \in 1 .. Len(fifo) /\ Len(fifo) > 0
    BY <1>1, <1>4, RequestTypes
  <2>2. fifo # <<>>
    BY <2>1, Len(<<>>) = 0
  <2>3. /\ left' = left - 1 /\ popped' = Head(fifo) /\ fifo' = Tail(fifo)
        /\ cpc' = IF Kept(op[Head(fifo)]) THEN "clean_repush" ELSE "clean_drop"
    BY <1>4, <2>2 DEF CleanNext
  <2>4. \A e \in Elt : Occurs(e, fifo) => e = popped' \/ Occurs(e, fifo')
    BY <2>2, <2>3, RequestTypes, OccursTail
  <2>5. \A r \in Producer, e \in Elt : OnItsWay(r, e) => OnItsWay(r, e)'
    BY <1>1, <2>3, <2>4 DEF OnItsWay, CleanHolds
  <2>6. RequestsHeld'
    BY <1>1, <1>2, <2>5, RequestTypes DEF RequestsHeld
  <2>7. Settled' = left - 1
    BY <2>3 DEF Settled, CleanSteps
  <2>8. /\ NoRequest(op, fifo, left) => NoRequest(op, fifo', left - 1)
        /\ HasStart(op, fifo, left) => HasStart(op, fifo', left - 1)
        /\ StartsFirst(op, fifo, left) => StartsFirst(op, fifo', left - 1)
    BY <2>1, <2>2, <2>3, RequestTypes, WaitTail
  <2>9. QueueWaitsForStart'
    BY <1>1, <2>3, <2>7, <2>8 DEF RequestInv, QueueWaitsForStart
  <2>10. RequestsMeetRunning'
    BY <1>1, <1>2, <2>3 DEF RequestInv, RequestsMeetRunning
  <2>11. CleaningKeepsStart'
    <3>1. cpc' = "clean_repush" => Kept(op[popped])'
      BY <1>1, <2>3 DEF Kept, IsStart, AllowedOperation
    <3>2. QED
      BY <1>1, <2>3, <2>8, <3>1 DEF RequestInv, CleaningKeepsStart, CleanSteps
  <2>12. QED
    BY <2>6, <2>9, <2>10, <2>11 DEF StartInv
<1>5. QED
  BY <1>3, <1>4

(* An operation that a cleaning keeps is queued again, behind the START    *)
(* that made it keep it.                                                   *)
LEMMA CleanRepushRequests ==
  ASSUME RequestInv, Calm, CleanRepush
  PROVE  RequestsHeld' /\ StartInv'
<1>1. /\ cpc = "clean_repush" /\ cpc' = "clean" /\ left \in 0 .. Len(fifo) /\ Settled = left
      /\ start_op' = (start_op \/ IsStart(op[popped]))
      /\ popped \in Elt /\ op[popped] \in Op
      /\ UNCHANGED <<op, pc, arg, elt, mod_state, left, received>>
  BY RequestTypes
  DEF CleanRepush, prodVars, modVars, Settled, CleanSteps, RequestInv, QueueInv, TypeInv, StepsOK,
      Ownership, CleanOwns
<1>2. fifo' = Append(fifo, popped)
  BY RepushHasRoom DEF RequestInv
<1>3. \A r \in Producer : PushingRequest(r)' = PushingRequest(r)
  BY <1>1 DEF PushingRequest
<1>4. RequestsHeld'
  <2>1. \A e \in Elt : e = popped \/ Occurs(e, fifo) => Occurs(e, fifo')
    BY <1>1, <1>2, RequestTypes, OccursAppend
  <2>2. \A r \in Producer, e \in Elt : OnItsWay(r, e) => OnItsWay(r, e)'
    BY <1>1, <2>1 DEF OnItsWay, CleanHolds
  <2>3. QED
    BY <1>1, <1>3, <2>2, RequestTypes DEF RequestsHeld
<1>5. Settled' = left
  BY <1>1 DEF Settled, CleanSteps
<1>6. CleanedAtRest /\ mod_state # "RUNNING" /\ Kept(op[popped])
      /\ (start_op => mod_state = "READY" /\ HasStart(op, fifo, left))
  BY <1>1, CleaningIsAtRest DEF RequestInv, CleaningKeepsStart, CleanSteps
<1>7. op[popped].type = "RR_RECEIVED" => start_op
  BY <1>1, <1>6, RequestIsNoLifecycle DEF Kept, IsStart, AllowedOperation, Lifecycle
<1>8. NoRequest(op, fifo, left) => StartsFirst(op, fifo, left)
  BY DEF NoRequest, StartsFirst
<1>9. \/ NoRequest(op, fifo', left)
      \/ mod_state = "READY" /\ StartsFirst(op, fifo', left)
  <2>1. NoRequest(op, fifo, left) \/ (mod_state = "READY" /\ StartsFirst(op, fifo, left))
    BY <1>1, <1>6 DEF RequestInv, QueueWaitsForStart
  <2>2. CASE op[popped].type = "RR_RECEIVED"
    BY <1>1, <1>2, <1>6, <1>7, <1>8, <2>1, <2>2, RequestTypes, WaitAppend
  <2>3. CASE op[popped].type # "RR_RECEIVED"
    BY <1>1, <1>2, <2>1, <2>3, RequestTypes, WaitAppend
  <2>4. QED
    BY <2>2, <2>3
<1>10. QueueWaitsForStart'
  BY <1>1, <1>5, <1>6, <1>9 DEF QueueWaitsForStart
<1>11. RequestsMeetRunning'
  BY <1>1, <1>3 DEF RequestInv, RequestsMeetRunning
<1>12. start_op' => mod_state = "READY" /\ HasStart(op, fifo', left)
  <2>1. HasStart(op, fifo, left) \/ op[popped].id = "START" => HasStart(op, fifo', left)
    BY <1>1, <1>2, RequestTypes, WaitAppend
  <2>2. QED
    BY <1>1, <1>6, <2>1 DEF IsStart
<1>13. CleaningKeepsStart'
  BY <1>1, <1>6, <1>12 DEF CleaningKeepsStart, CleanSteps
<1>14. QED
  BY <1>4, <1>10, <1>11, <1>13 DEF StartInv

(* An operation that a cleaning drops leaves the table with its element.   *)
LEMMA CleanDropRequests ==
  ASSUME RequestInv, CleanDrop \/ CleanAvail
  PROVE  RequestsHeld' /\ StartInv'
<1>1. /\ cpc \in {"clean_drop", "clean_avail"} /\ cpc' \in CleanSteps
      /\ cpc' \notin {"clean_repush", "clean_begin", "handle"}
      /\ UNCHANGED <<op, fifo, pc, arg, elt, mod_state, left, start_op>>
  BY DEF CleanDrop, CleanAvail, prodVars, modVars, cleanVars, CleanSteps
<1>2. \A r \in Producer : PushingRequest(r)' = PushingRequest(r)
  BY <1>1 DEF PushingRequest
<1>3. /\ received' \in SUBSET received
      /\ \A e \in Elt : CleanHolds(e) =>
           \/ CleanHolds(e)'
           \/ op[e].type = "RR_RECEIVED" => op[e].from \notin received'
  <2>1. CASE CleanAvail
    BY <2>1 DEF CleanAvail, CleanHolds
  <2>2. CASE CleanDrop
    BY <2>2 DEF CleanDrop, FindAndClean, CleanHolds, cleanVars
  <2>3. QED
    BY <2>1, <2>2
<1>4. RequestsHeld'
  <2>1. ASSUME NEW r \in received', NEW e \in Elt, OnItsWay(r, e) PROVE OnItsWay(r, e)'
    BY <1>1, <1>3, <2>1 DEF OnItsWay, Occurs
  <2>2. QED
    BY <1>2, <1>3, <2>1, RequestTypes DEF RequestsHeld
<1>5. Settled' = Settled
  BY <1>1 DEF Settled, CleanSteps
<1>6. QueueWaitsForStart'
  BY <1>1, <1>5 DEF RequestInv, QueueWaitsForStart, NoRequest, StartsFirst
<1>7. RequestsMeetRunning'
  BY <1>1, <1>2 DEF RequestInv, RequestsMeetRunning
<1>8. CleaningKeepsStart'
  BY <1>1 DEF RequestInv, CleaningKeepsStart, CleanSteps, HasStart
<1>9. QED
  BY <1>4, <1>6, <1>7, <1>8 DEF StartInv

(* Every step keeps the account of the requests.                           *)
LEMMA NextRequestInv ==
  ASSUME Calm, RequestInv, [Next]_vars
  PROVE  RequestInv'
<1>1. QueueInv'
  BY NextQueueInv DEF RequestInv
<1>2. ASSUME NEW p \in Producer, Produce(p) PROVE RequestsHeld' /\ StartInv'
  BY <1>2, ProduceRequests
<1>3. ASSUME NEW p \in Producer, NEW o \in Op, PushBegin(p, o) PROVE RequestsHeld' /\ StartInv'
  BY <1>3, PushBeginRequests
<1>4. ASSUME Scheduled, Consume PROVE RequestsHeld' /\ StartInv'
  BY <1>4, PopRequests, HandleRequests, ReleaseRequests, CleanBeginRequests, CleanNextRequests,
     CleanRepushRequests, CleanDropRequests DEF Consume, Clean
<1>5. ASSUME SpuriousWakeup PROVE RequestsHeld' /\ StartInv'
  BY <1>5 DEF Calm, SpuriousWakeup
<1>6. ASSUME UNCHANGED vars PROVE RequestsHeld' /\ StartInv'
  <2>1. UNCHANGED <<op, fifo, pc, arg, cpc, elt, mod_state, left, start_op, popped, received>>
    BY <1>6 DEF vars
  <2>2. \A r \in Producer : PushingRequest(r)' = PushingRequest(r)
    BY <2>1 DEF PushingRequest
  <2>3. \A r \in received' : PushingRequest(r)' \/ (r \in received /\ ~PushingRequest(r))
    BY <2>1, <2>2, RequestTypes
  <2>4. QED
    BY <2>1, <2>2, <2>3, RequestQuiet
<1>7. RequestsHeld' /\ StartInv'
  BY <1>2, <1>3, <1>4, <1>5, <1>6 DEF Next
<1>8. QED
  BY <1>1, <1>7 DEF RequestInv, StartInv

(* The table is empty at first.                                            *)
LEMMA InitRequestInv == Init => RequestInv
<1> SUFFICES ASSUME Init PROVE RequestInv
  OBVIOUS
<1>1. QueueInv
  BY InitQueueInv
<1>2. fifo = <<>> /\ Len(fifo) = 0 /\ cpc = "pop" /\ received = {}
      /\ \A p \in Producer : pc[p] = "idle"
  BY DEF Init
<1>3. NoRequest(op, fifo, Settled) /\ Settled = 0
  BY <1>2 DEF NoRequest, Settled, CleanSteps
<1>4. QED
  BY <1>1, <1>2, <1>3 DEF RequestInv, RequestsHeld, QueueWaitsForStart, RequestsMeetRunning,
     CleaningKeepsStart, CleanSteps, PushingRequest, Pushing, PushSteps

(* What is entered in the table is on its way.                             *)
LEMMA RequestInvAccounts == RequestInv => RequestsAccountedFor
<1> SUFFICES ASSUME RequestInv, NEW p \in received
             PROVE  \/ arg[p] # NoOp /\ arg[p].type = "RR_RECEIVED"
                    \/ \E e \in Elt : Holders(e) # {} /\ op[e].from = p
                                      /\ op[e].type = "RR_RECEIVED"
  BY DEF RequestsAccountedFor
<1>1. CASE PushingRequest(p)
  <2>1. p \in Producer /\ arg[p] \in Op
    BY <1>1, RequestTypes
    DEF RequestInv, QueueInv, TypeInv, StepsOK, PushingRequest, Pushing, PushSteps
  <2>2. QED
    BY <1>1, <2>1, ConstantsAssumption DEF PushingRequest
<1>2. ASSUME NEW e \in Elt, OnItsWay(p, e)
      PROVE  Holders(e) # {} /\ op[e].from = p /\ op[e].type = "RR_RECEIVED"
  <2>1. CASE Occurs(e, fifo)
    <3>1. PICK i \in 1 .. Len(fifo) : fifo[i] = e
      BY <2>1 DEF Occurs
    <3>2. <<"fifo", i>> \in Holders(e)
      BY <3>1 DEF Holders
    <3>3. QED
      BY <1>2, <3>2 DEF OnItsWay
  <2>2. CASE cpc = "handle" /\ elt = e
    <3>1. <<"module_thread", e>> \in Holders(e)
      BY <2>2 DEF Holders, ConsumerHolds
    <3>2. QED
      BY <1>2, <3>1 DEF OnItsWay
  <2>3. CASE CleanHolds(e)
    <3>1. <<"clean", e>> \in Holders(e)
      BY <2>3 DEF Holders
    <3>2. QED
      BY <1>2, <3>1 DEF OnItsWay
  <2>4. QED
    BY <1>2, <2>1, <2>2, <2>3 DEF OnItsWay
<1>3. QED
  BY <1>1, <1>2 DEF RequestInv, RequestsHeld

(* No request stays in the table that is neither pushed, queued, run nor in *)
(* the hands of a cleaning.  A SHUTDOWN or KILL cleans without a table: once *)
(* it meets a queued request (null_request_table) there is no further step, *)
(* and nothing is claimed of what the code does then.                      *)
THEOREM RequestsAccounted == Calm => (Spec => []RequestsAccountedFor)
<1> SUFFICES ASSUME Calm PROVE Spec => []RequestsAccountedFor
  OBVIOUS
<1>1. Init => RequestInv
  BY InitRequestInv
<1>2. RequestInv /\ [Next]_vars => RequestInv'
  BY NextRequestInv
<1>3. RequestInv => RequestsAccountedFor
  BY RequestInvAccounts
<1>4. QED
  BY <1>1, <1>2, <1>3, PTL DEF Spec
-----------------------------------------------------------------------------
(* A queue of activating operations that is never cleaned, whose thread    *)
(* may wake up for no reason: it may then run an operation twice and give  *)
(* its element back twice, but the counter, which may wrap around, stays   *)
(* that of the operations queued less those that are not counted yet.      *)
WrapCounted ==
  LET q == Len(fifo)
      u == Cardinality(Uncounted)
  IN activating_op_num = IF q >= u THEN q - u ELSE q - u + UintMod

(* The elements that are queued, about to be or held carry an operation.   *)
Filled ==
  /\ \A i \in 1 .. Len(fifo) : op[fifo[i]] \in Op
  /\ \A p \in Producer : pc[p] \in PushSteps => op[mine[p]] \in Op
  /\ elt \in Elt => op[elt] \in Op

(* The invariant of the queue under spurious wakeups.                      *)
WrapInv ==
  /\ TypeInv /\ Filled /\ WrapCounted
  /\ cpc \notin {"clean_begin"} \cup CleanSteps
  /\ cpc = "waiting" => activating_op_num = 0
  /\ \A p \in Producer : pc[p] # "fallback"

(* What the steps below use of the types.                                  *)
LEMMA WrapTypes ==
  ASSUME WrapInv, AlwaysActivating
  PROVE  /\ fifo \in Seq(Elt) /\ Len(fifo) \in Nat /\ Len(fifo) <= FifoSize
         /\ pc \in [Producer -> {"idle", "check", "get", "push", "fallback", "count"}]
         /\ mine \in [Producer -> Elt \cup {NoElt}]
         /\ op \in [Elt -> Op \cup {NoOp}]
         /\ IsFiniteSet(Uncounted) /\ Cardinality(Uncounted) \in Nat
         /\ Cardinality(Uncounted) < UintMod /\ FifoSize < UintMod
         /\ UintMod \in Nat /\ FifoSize \in Nat
         /\ activating_op_num \in Nat /\ activating_op_num < UintMod
<1>1. fifo \in Seq(Elt) /\ Len(fifo) \in Nat /\ Len(fifo) <= FifoSize
  BY LenProperties DEF WrapInv, TypeInv, TypeOK
<1>2. Uncounted \in SUBSET Producer /\ IsFiniteSet(Producer)
  BY ConstantsAssumption DEF Uncounted
<1>3. /\ IsFiniteSet(Uncounted) /\ Cardinality(Uncounted) \in Nat
      /\ Cardinality(Uncounted) <= Cardinality(Producer) /\ Cardinality(Producer) \in Nat
  BY <1>2, FS_Subset, FS_CardinalityType
<1>4. QED
  BY <1>1, <1>3, ConstantsAssumption DEF AlwaysActivating, WrapInv, TypeInv, TypeOK

(* Steps that leave the FIFO, the counter and its debtors alone.           *)
LEMMA WrapFrame ==
  ASSUME WrapInv, UNCHANGED <<fifo, activating_op_num>>, Uncounted' = Uncounted
  PROVE  WrapCounted'
BY DEF WrapInv, WrapCounted

(* A producer queues its operation, which it is to count.                  *)
LEMMA WrapPushed ==
  ASSUME WrapInv, AlwaysActivating, NEW p \in Producer, pc[p] \in PushSteps, HasRoom, Pushed(p),
         fifo' = Append(fifo, mine[p]) \/ fifo' = <<mine[p]>> \o fifo,
         UNCHANGED <<op, activating_op_num, cpc, elt>>
  PROVE  (Filled /\ WrapCounted)'
<1>1. /\ mine[p] \in Elt /\ op[mine[p]] \in Op /\ arg[p] \in Op /\ arg[p].act
  BY DEF WrapInv, TypeInv, StepsOK, Filled, PushSteps, AlwaysActivating
<1>2. /\ pc'[p] = "count" /\ \A r \in Producer \ {p} : pc'[r] = pc[r] /\ mine'[r] = mine[r]
  BY <1>1, WrapTypes DEF Pushed, Goto
<1>3. /\ Len(fifo') = Len(fifo) + 1
      /\ \A j \in 1 .. Len(fifo') :
           fifo'[j] = mine[p] \/ \E i \in 1 .. Len(fifo) : fifo'[j] = fifo[i]
  <2>1. CASE fifo' = Append(fifo, mine[p])
    <3>1. /\ Len(fifo') = Len(fifo) + 1 /\ fifo'[Len(fifo) + 1] = mine[p]
          /\ \A i \in 1 .. Len(fifo) : fifo'[i] = fifo[i]
      BY <1>1, <2>1, WrapTypes, AppendProperties
    <3>2. \A j \in 1 .. Len(fifo') : j = Len(fifo) + 1 \/ j \in 1 .. Len(fifo)
      BY <3>1, WrapTypes
    <3>3. QED
      BY <3>1, <3>2
  <2>2. CASE fifo' = <<mine[p]>> \o fifo
    <3>1. /\ Len(fifo') = Len(fifo) + 1 /\ fifo'[1] = mine[p]
          /\ \A i \in 1 .. Len(fifo) : fifo'[i + 1] = fifo[i]
      BY <1>1, <2>2, WrapTypes, Prepended
    <3>2. \A j \in 1 .. Len(fifo') : j = 1 \/ (j - 1 \in 1 .. Len(fifo) /\ j - 1 + 1 = j)
      BY <3>1, WrapTypes
    <3>3. \A j \in 1 .. Len(fifo') :
            j = 1 \/ (j - 1 \in 1 .. Len(fifo) /\ fifo'[j] = fifo[j - 1])
      BY <3>1, <3>2
    <3>4. QED
      BY <3>1, <3>3
  <2>3. QED
    BY <2>1, <2>2
<1>4. Filled'
  BY <1>1, <1>2, <1>3 DEF WrapInv, Filled, PushSteps
<1>5. Uncounted' = Uncounted \cup {p} /\ p \notin Uncounted
  BY <1>2 DEF Uncounted, PushSteps
<1>6. Cardinality(Uncounted') = Cardinality(Uncounted) + 1
  BY <1>5, WrapTypes, FS_AddElement
<1>7. WrapCounted'
  BY <1>3, <1>6, WrapTypes DEF WrapInv, WrapCounted
<1>8. QED
  BY <1>4, <1>7

(* A step of a push keeps the invariant, its count included.               *)
LEMMA WrapProduce ==
  ASSUME WrapInv, AlwaysActivating, NEW p \in Producer, Produce(p)
  PROVE  /\ (Filled /\ WrapCounted)'
         /\ cpc' \notin {"clean_begin"} \cup CleanSteps
         /\ cpc' = "waiting" => activating_op_num' = 0
         /\ \A r \in Producer : pc'[r] # "fallback"
<1>1. ASSUME NEW s \in {"idle"} \cup Pushing, pc[p] \in Pushing, Goto(p, s),
             UNCHANGED <<fifo, op, activating_op_num, cpc, elt>>,
             s \in PushSteps => pc[p] \in PushSteps,
             \A r \in Producer : pc'[r] \in PushSteps => mine'[r] = mine[r]
      PROVE  (Filled /\ WrapCounted)'
  <2>1. pc'[p] = s /\ \A r \in Producer \ {p} : pc'[r] = pc[r]
    BY <1>1, WrapTypes DEF Goto
  <2>2. Filled'
    BY <1>1, <2>1 DEF WrapInv, Filled
  <2>3. Uncounted' = Uncounted
    BY <1>1, <2>1 DEF Uncounted, Pushing, PushSteps
  <2>4. QED
    BY <1>1, <2>2, <2>3, WrapFrame
<1>2. ASSUME PushFails(p), pc[p] \in Pushing, UNCHANGED <<fifo, op, activating_op_num, cpc, elt>>
      PROVE  (Filled /\ WrapCounted)'
  <2>1. Goto(p, "idle") /\ \A r \in Producer \ {p} : mine'[r] = mine[r]
    BY <1>2, WrapTypes DEF PushFails
  <2>2. pc'[p] = "idle"
    BY <2>1, WrapTypes DEF Goto
  <2>3. QED
    BY <1>1, <1>2, <2>1, <2>2 DEF PushSteps
<1>3. ASSUME PoolCheck(p) PROVE (Filled /\ WrapCounted)'
  <2>1. pc[p] \in Pushing /\ UNCHANGED <<fifo, op, activating_op_num, cpc, elt>>
    BY <1>3 DEF PoolCheck, Pushing
  <2>2. CASE PushFails(p)
    BY <1>2, <2>1, <2>2 DEF WrapInv
  <2>3. CASE Goto(p, "get") /\ mine' = mine
    BY <1>1, <2>1, <2>3 DEF WrapInv, Pushing, PushSteps
  <2>4. QED
    BY <1>3, <2>2, <2>3 DEF PoolCheck
<1>4. ASSUME PoolGet(p) PROVE (Filled /\ WrapCounted)'
  <2>1. pc[p] = "get" /\ arg[p] \in Op /\ UNCHANGED <<fifo, activating_op_num, cpc, elt>>
    BY <1>4 DEF PoolGet, WrapInv, TypeInv, StepsOK
  <2>2. CASE PushFails(p) /\ op' = op
    BY <1>2, <2>1, <2>2 DEF WrapInv, Pushing
  <2>3. ASSUME NEW e \in Elt, op' = [op EXCEPT ![e] = arg[p]], mine' = [mine EXCEPT ![p] = e],
               Goto(p, "push")
        PROVE  (Filled /\ WrapCounted)'
    <3>1. /\ pc'[p] = "push" /\ mine'[p] = e /\ op'[e] = arg[p]
          /\ \A r \in Producer \ {p} : pc'[r] = pc[r] /\ mine'[r] = mine[r]
          /\ \A d \in Elt : op[d] \in Op => op'[d] \in Op
      BY <2>1, <2>3, WrapTypes DEF Goto
    <3>2. \A i \in 1 .. Len(fifo) : fifo[i] \in Elt
      BY WrapTypes, ElementOfSeq
    <3>3. \A r \in Producer : pc[r] \in PushSteps => mine[r] \in Elt
      BY DEF WrapInv, TypeInv, StepsOK
    <3>4. \A i \in 1 .. Len(fifo') : op'[fifo'[i]] \in Op
      BY <2>1, <3>1, <3>2 DEF WrapInv, Filled
    <3>5. \A r \in Producer : pc'[r] \in PushSteps => op'[mine'[r]] \in Op
      BY <2>1, <3>1, <3>3 DEF WrapInv, Filled
    <3>6. elt' \in Elt => op'[elt'] \in Op
      BY <2>1, <3>1 DEF WrapInv, Filled
    <3>7. Uncounted' = Uncounted
      BY <2>1, <3>1 DEF Uncounted
    <3>8. QED
      BY <2>1, <3>4, <3>5, <3>6, <3>7, WrapFrame DEF Filled
  <2>4. QED
    BY <1>4, <2>1, <2>2, <2>3 DEF PoolGet, FreeOf, WrapInv
<1>5. ASSUME FifoPush(p) PROVE (Filled /\ WrapCounted)'
  <2>1. /\ pc[p] = "push" /\ pc[p] \in PushSteps /\ pc[p] \in Pushing
        /\ UNCHANGED <<op, activating_op_num, cpc, elt>> /\ ~arg[p].first
    BY <1>5
    DEF FifoPush, Pushing, PushSteps, WrapInv, TypeInv, StepsOK, AlwaysActivating
  <2>2. CASE PushFails(p) /\ fifo' = fifo
    BY <1>2, <2>1, <2>2 DEF WrapInv
  <2>3. CASE HasRoom /\ Pushed(p) /\ (fifo' = Append(fifo, mine[p]) \/ fifo' = <<mine[p]>> \o fifo)
    BY <2>1, <2>3, WrapPushed DEF WrapInv
  <2>4. QED
    BY <1>5, <2>1, <2>2, <2>3 DEF FifoPush
<1>6. \A r \in Producer : pc'[r] # "fallback"
  <2>1. ~FifoFallback(p) /\ (FifoPush(p) => ~arg[p].first)
    BY DEF FifoFallback, FifoPush, WrapInv, TypeInv, StepsOK, AlwaysActivating
  <2>2. \E s : Goto(p, s) /\ s # "fallback"
    BY <2>1 DEF Produce, PoolCheck, PoolGet, FifoPush, Pushed, PushFails, Count
  <2>3. QED
    BY <2>2, WrapTypes DEF Goto, WrapInv
<1>7. CASE Count(p)
  <2>1. /\ pc[p] = "count" /\ pc'[p] = "idle" /\ \A r \in Producer \ {p} : pc'[r] = pc[r]
        /\ UNCHANGED <<fifo, op, mine, elt>> /\ activating_op_num' = Inc(activating_op_num)
        /\ cpc' = IF cpc = "waiting" THEN "woken" ELSE cpc
    BY <1>7, WrapTypes DEF Count, Goto, Signalled
  <2>2. Filled'
    BY <2>1 DEF WrapInv, Filled, PushSteps
  <2>3. Uncounted' = Uncounted \ {p} /\ p \in Uncounted
    BY <2>1 DEF Uncounted
  <2>4. Cardinality(Uncounted') = Cardinality(Uncounted) - 1 /\ Cardinality(Uncounted') \in Nat
    <3>1. Cardinality(Uncounted') = Cardinality(Uncounted) - 1 /\ IsFiniteSet(Uncounted')
      BY <2>3, WrapTypes, FS_RemoveElement
    <3>2. QED
      BY <3>1, FS_CardinalityType
  <2>5. activating_op_num' = IF activating_op_num + 1 = UintMod THEN 0 ELSE activating_op_num + 1
    BY <2>1, WrapTypes, IncRange
  <2>6. WrapCounted'
    BY <2>1, <2>4, <2>5, WrapTypes DEF WrapInv, WrapCounted
  <2>7. QED
    BY <2>1, <2>2, <2>6 DEF WrapInv, CleanSteps
<1>8. CASE ~Count(p)
  <2>1. cpc' = cpc /\ activating_op_num' = activating_op_num
    BY <1>8 DEF Produce, PoolCheck, PoolGet, FifoPush, FifoFallback
  <2>2. ~FifoFallback(p)
    BY DEF FifoFallback, WrapInv
  <2>3. QED
    BY <1>3, <1>4, <1>5, <1>6, <1>8, <2>1, <2>2 DEF Produce, WrapInv
<1>9. QED
  BY <1>7, <1>8

(* Every step keeps it.                                                    *)
LEMMA NextWrapInv ==
  ASSUME WrapInv, AlwaysActivating, [Next]_vars
  PROVE  WrapInv'
<1>1. TypeInv'
  BY NextTypes DEF WrapInv
<1>2. ASSUME NEW p \in Producer, Produce(p) PROVE WrapInv'
  BY <1>1, <1>2, WrapProduce DEF WrapInv
<1>3. ASSUME UNCHANGED <<fifo, activating_op_num, op, mine, elt>>,
             \A r \in Producer : pc'[r] = pc[r] \/ (pc[r] = "idle" /\ pc'[r] = "check"),
             cpc' \notin {"clean_begin"} \cup CleanSteps,
             cpc' = "waiting" => activating_op_num = 0
      PROVE  WrapInv'
  <2>1. Uncounted' = Uncounted
    BY <1>3 DEF Uncounted
  <2>2. Filled' /\ \A r \in Producer : pc'[r] # "fallback"
    BY <1>3 DEF WrapInv, Filled, PushSteps
  <2>3. QED
    BY <1>1, <1>3, <2>1, <2>2, WrapFrame DEF WrapInv
<1>4. ASSUME NEW p \in Producer, NEW o \in Op, PushBegin(p, o) PROVE WrapInv'
  <2>1. \A r \in Producer : pc'[r] = pc[r] \/ (pc[r] = "idle" /\ pc'[r] = "check")
    BY <1>4, WrapTypes DEF PushBegin, Goto
  <2>2. QED
    BY <1>3, <1>4, <2>1 DEF PushBegin, WrapInv
<1>5. ASSUME cpc \in {"pop", "woken"}, TakeFirst, UNCHANGED <<op, prodVars>> PROVE WrapInv'
  <2>1. CASE fifo = <<>>
    BY <1>3, <1>5, <2>1 DEF TakeFirst, prodVars, CleanSteps
  <2>2. CASE fifo # <<>>
    <3>1. /\ elt' = Head(fifo) /\ fifo' = Tail(fifo) /\ cpc' = "handle"
          /\ activating_op_num' = CountAfterPop(Head(fifo)) /\ UNCHANGED <<op, pc, mine>>
      BY <1>5, <2>2 DEF TakeFirst, prodVars
    <3>2. /\ Head(fifo) = fifo[1] /\ Len(fifo) > 0 /\ 1 \in 1 .. Len(fifo)
          /\ Len(fifo') = Len(fifo) - 1
          /\ \A i \in 1 .. Len(fifo') : fifo'[i] = fifo[i + 1] /\ i + 1 \in 1 .. Len(fifo)
      BY <2>2, <3>1, WrapTypes, HeadTailProperties, EmptySeq
    <3>3. op[Head(fifo)] \in Op
      BY <3>2 DEF WrapInv, Filled
    <3>4. Filled'
      BY <3>1, <3>2, <3>3 DEF WrapInv, Filled
    <3>5. activating_op_num' = IF activating_op_num = 0 THEN UintMod - 1 ELSE activating_op_num - 1
      BY <3>1, <3>3, WrapTypes, DecRange DEF CountAfterPop, AlwaysActivating
    <3>6. Uncounted' = Uncounted
      BY <3>1 DEF Uncounted
    <3>7. WrapCounted'
      <4> DEFINE q == Len(fifo)
                 u == Cardinality(Uncounted)
      <4>1. /\ q \in Nat /\ q > 0 /\ u \in Nat /\ u < UintMod /\ UintMod \in Nat
            /\ Len(fifo') = q - 1 /\ Cardinality(Uncounted') = u
        BY <3>2, <3>6, WrapTypes
      <4>2. activating_op_num = IF q >= u THEN q - u ELSE q - u + UintMod
        BY DEF WrapInv, WrapCounted
      <4> HIDE DEF q, u
      <4>3. activating_op_num' = IF q - 1 >= u THEN q - 1 - u ELSE q - 1 - u + UintMod
        BY <3>5, <4>1, <4>2
      <4>4. QED
        BY <4>1, <4>3 DEF WrapCounted
    <3>8. QED
      BY <1>1, <3>1, <3>4, <3>7 DEF WrapInv, CleanSteps
  <2>3. QED
    BY <2>1, <2>2
<1>6. ASSUME Consume PROVE WrapInv'
  <2>1. CASE PopElt
    BY <1>3, <1>5, <2>1 DEF PopElt, prodVars, WrapInv, CleanSteps
  <2>2. CASE PopWoken
    BY <1>5, <2>2 DEF PopWoken
  <2>3. CASE Handle
    <3>1. UNCHANGED <<fifo, activating_op_num, op, pc, mine, elt>> /\ cpc = "handle"
      BY <2>3 DEF Handle, prodVars
    <3>2. cpc' \in {"handle", "release"}
      <4>1. elt # NoElt => op[elt].id \notin Cleaning
        BY DEF WrapInv, TypeInv, TypeOK, Filled, AlwaysActivating
      <4>2. QED
        BY <2>3, <3>1, <4>1 DEF Handle, Cleaning
    <3>3. QED
      BY <1>3, <3>1, <3>2 DEF CleanSteps
  <2>4. CASE ReleaseFree \/ ReleaseAvail
    BY <1>3, <2>4 DEF ReleaseFree, ReleaseAvail, prodVars, CleanSteps
  <2>5. CASE Clean
    BY <2>5 DEF Clean, CleanBegin, CleanNext, CleanRepush, CleanDrop, CleanAvail, WrapInv,
        CleanSteps
  <2>6. QED
    BY <1>6, <2>1, <2>2, <2>3, <2>4, <2>5 DEF Consume
<1>7. ASSUME SpuriousWakeup PROVE WrapInv'
  BY <1>3, <1>7 DEF SpuriousWakeup, prodVars, CleanSteps
<1>8. ASSUME UNCHANGED vars PROVE WrapInv'
  BY <1>3, <1>8 DEF vars, WrapInv
<1>9. QED
  BY <1>2, <1>4, <1>6, <1>7, <1>8 DEF Next

(* It holds at first, when the queue and the counter are both empty.       *)
LEMMA InitWrapInv == Init => WrapInv
<1> SUFFICES ASSUME Init PROVE WrapInv
  OBVIOUS
<1>1. TypeInv
  BY InitTypes
<1>2. Len(fifo) = 0 /\ fifo = <<>> /\ activating_op_num = 0 /\ cpc = "pop"
      /\ elt \notin Elt /\ \A p \in Producer : pc[p] = "idle"
  BY ConstantsAssumption DEF Init
<1>3. Uncounted = {}
  BY <1>2 DEF Uncounted
<1>4. WrapCounted
  BY <1>2, <1>3, FS_EmptySet DEF WrapCounted
<1>5. QED
  BY <1>1, <1>2, <1>4 DEF WrapInv, Filled, PushSteps, CleanSteps

(* The thread sleeps with a counter of zero: as many operations have to be *)
(* counted as there are in the queue.                                      *)
LEMMA WrapInvNoLostWakeup ==
  ASSUME WrapInv, AlwaysActivating
  PROVE  NoLostWakeup
<1>1. ActivatingQueued = Len(fifo)
  <2>1. {i \in 1 .. Len(fifo) : op[fifo[i]].act} = 1 .. Len(fifo)
    BY DEF WrapInv, Filled, AlwaysActivating
  <2>2. QED
    BY <2>1, WrapTypes, IntervalSize DEF ActivatingQueued
<1>2. cpc = "waiting" => Len(fifo) <= Cardinality(Uncounted)
  BY WrapTypes DEF WrapInv, WrapCounted
<1>3. QED
  BY <1>1, <1>2 DEF NoLostWakeup

(* Spurious wakeups lose no wakeup, whatever they do to the elements.      *)
THEOREM SpuriousLosesNoWakeup == AlwaysActivating => (Spec => []NoLostWakeup)
<1> SUFFICES ASSUME AlwaysActivating PROVE Spec => []NoLostWakeup
  OBVIOUS
<1>1. Init => WrapInv
  BY InitWrapInv
<1>2. WrapInv /\ [Next]_vars => WrapInv'
  BY NextWrapInv
<1>3. WrapInv => NoLostWakeup
  BY WrapInvNoLostWakeup
<1>4. QED
  BY <1>1, <1>2, <1>3, PTL DEF Spec
=============================================================================
