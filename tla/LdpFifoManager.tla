--------------------------- MODULE LdpFifoManager ---------------------------
(***************************************************************************)
(* The operation queue of one module: lib/ldp_fifo_manager.c with its      *)
(* element pools (lib/ldp_fifo_elt_pool.c), its FIFO (lib/ldp_fifo.c, used  *)
(* here through the bounded deque that LdpFifo is proved to implement) and *)
(* the request table entries that queued requests refer to.                *)
(*                                                                         *)
(* Producers are the threads that push operations for the module: the      *)
(* server thread of its protection domain, other modules, triggers.  The   *)
(* consumer is the module's own thread: it pops an operation, runs it, and *)
(* releases the element.  Life-cycle operations make it clean the queue.   *)
(*                                                                         *)
(* Every critical section (of the pool, FIFO and manager mutexes) is one   *)
(* action, and so is every access made outside of them.                    *)
(***************************************************************************)
EXTENDS Integers, Sequences, FiniteSets

CONSTANTS
  Producer,          \* the threads that push
  Op,                \* the operations: records [from, id, type, act, pool, first]
  Elt,               \* the elements of all pools
  Pool,              \* the pools
  PoolOf,            \* PoolOf[e]: the pool element e belongs to
  NoElt,             \* the NULL pointer
  NoOp,              \* the content of a fresh element
  FifoSize,          \* fifo->size
  UintMod,           \* 2^32 for the two unsigned counters, scaled down
  SpuriousWakeups,   \* may cond_wait return without a signal?
  Urgent             \* the producers that preempt the module thread: one processor,
                     \* fixed priorities above its own; {} on several processors

Lifecycle == {"INITIALIZE", "START", "STOP", "SHUTDOWN", "KILL"}

ASSUME ConstantsAssumption ==
  /\ FifoSize \in Nat \ {0}
  /\ UintMod \in Nat /\ IsFiniteSet(Elt) /\ UintMod > Cardinality(Elt)
  /\ IsFiniteSet(Producer)
  /\ PoolOf \in [Elt -> Pool]
  /\ NoElt \notin Elt
  /\ NoOp \notin Op
  /\ SpuriousWakeups \in BOOLEAN
  /\ Urgent \subseteq Producer
  /\ \A o \in Op :
       /\ o.from \in Producer /\ o.pool \in Pool /\ o.act \in BOOLEAN /\ o.first \in BOOLEAN
       /\ o.type \in {"EVENT", "RR_RECEIVED"}
       /\ o.id \in Lifecycle => (o.act /\ o.type = "EVENT" /\ ~o.first)

VARIABLES
  state,              \* state[e]: "FREE" or "USED"
  op,                 \* op[e]: the operation element e was filled with
  available,          \* available[q]: element_available of pool q
  fifo,               \* the queued elements, next to be popped first
  activating_op_num,
  pc, arg, mine,      \* per producer: step, operation being pushed, element held
  cpc,                \* step of the consumer
  elt,                \* the consumer's element pointer
  mod_state,          \* the module's life-cycle state
  ending,             \* the module thread is running its KILL
  left, start_op, popped,  \* locals of ldp_fifo_manager_clean
  received,           \* req_received entries, by requesting thread
  fault               \* undefined behaviour met, "none" so far

poolVars == <<state, available>>
prodVars == <<pc, arg, mine>>
cleanVars == <<left, start_op, popped>>
modVars == <<mod_state, ending>>
vars == <<state, op, available, fifo, activating_op_num, pc, arg, mine, cpc, elt,
          mod_state, ending, left, start_op, popped, received, fault>>

Inc(n) == (n + 1) % UintMod
Dec(n) == (n + UintMod - 1) % UintMod

(* The elements of a pool that ldp_element_pool_get may return (and, as a   *)
(* slip, the scan that does not look at the element's state).               *)
FreeOf_AnyState(q) == {e \in Elt : PoolOf[e] = q}
FreeOf(q) == {e \in Elt : PoolOf[e] = q /\ state[e] = "FREE"}

Init ==
  /\ state = [e \in Elt |-> "FREE"]
  /\ op = [e \in Elt |-> NoOp]
  /\ available = [q \in Pool |-> Cardinality({e \in Elt : PoolOf[e] = q})]
  /\ fifo = <<>>
  /\ activating_op_num = 0
  /\ pc = [p \in Producer |-> "idle"]
  /\ arg = [p \in Producer |-> NoOp]
  /\ mine = [p \in Producer |-> NoElt]
  /\ cpc = "pop"
  /\ elt = NoElt
  /\ mod_state = "IDLE"
  /\ ending = FALSE
  /\ left = 0
  /\ start_op = FALSE
  /\ popped = NoElt
  /\ received = {}
  /\ fault = "none"
-----------------------------------------------------------------------------
(* Producers.                                                              *)

Goto(p, step) == pc' = [pc EXCEPT ![p] = step]

(* ldp_comp_received_event, ldp_comp_received_request, comp_server_push_fifo: *)
(* an operation is for a RUNNING module, a life-cycle operation for any; a   *)
(* request is entered in the request table before it is pushed.             *)
PushBegin(p, o) ==
  /\ pc[p] = "idle"
  /\ o.from = p
  /\ o.id \notin Lifecycle => mod_state = "RUNNING"
  /\ IF o.type = "RR_RECEIVED"
     THEN /\ p \notin received
          /\ received' = received \cup {p}
     ELSE UNCHANGED received
  /\ arg' = [arg EXCEPT ![p] = o]
  /\ Goto(p, "check")
  /\ UNCHANGED <<poolVars, op, fifo, activating_op_num, mine, cpc, elt, modVars,
                 cleanVars, fault>>

(* The push returns LDP_ERROR; the caller takes a request out of the table. *)
PushFails(p) ==
  /\ received' = IF arg[p].type = "RR_RECEIVED" THEN received \ {p} ELSE received
  /\ arg' = [arg EXCEPT ![p] = NoOp]
  /\ mine' = [mine EXCEPT ![p] = NoElt]
  /\ Goto(p, "idle")

(* ldp_element_pool_get reads the counter before it takes the mutex. *)
PoolCheck(p) ==
  /\ pc[p] = "check"
  /\ IF available[arg[p].pool] = 0
     THEN PushFails(p)
     ELSE Goto(p, "get") /\ UNCHANGED <<arg, mine, received>>
  /\ UNCHANGED <<poolVars, op, fifo, activating_op_num, cpc, elt, modVars,
                 cleanVars, fault>>

(* The critical section of ldp_element_pool_get, then the element is filled. *)
PoolGet(p) ==
  LET q == arg[p].pool IN
  /\ pc[p] = "get"
  /\ IF FreeOf(q) = {}
     THEN PushFails(p) /\ UNCHANGED <<poolVars, op>>
     ELSE \E e \in FreeOf(q) :
            /\ state' = [state EXCEPT ![e] = "USED"]
            /\ available' = [available EXCEPT ![q] = Dec(@)]
            /\ op' = [op EXCEPT ![e] = arg[p]]
            /\ mine' = [mine EXCEPT ![p] = e]
            /\ Goto(p, "push")
            /\ UNCHANGED <<arg, received>>
  /\ UNCHANGED <<fifo, activating_op_num, cpc, elt, modVars, cleanVars, fault>>

(* After the FIFO took the element: count it if it activates the module. *)
Pushed(p) ==
  /\ Goto(p, IF arg[p].act THEN "count" ELSE "idle")
  /\ mine' = [mine EXCEPT ![p] = NoElt]
  /\ UNCHANGED <<arg, received>>

HasRoom == Len(fifo) < FifoSize

(* ldp_push_fifo / ldp_push_first_fifo.  When the FIFO is full the function *)
(* returns and the element stays USED.                                      *)
FifoPush(p) ==
  /\ pc[p] = "push"
  /\ \/ /\ ~HasRoom
        /\ PushFails(p)
        /\ UNCHANGED fifo
     \/ /\ HasRoom /\ ~arg[p].first
        /\ fifo' = Append(fifo, mine[p])
        /\ Pushed(p)
     \/ /\ HasRoom /\ arg[p].first /\ fifo # <<>>
        /\ fifo' = <<mine[p]>> \o fifo
        /\ Pushed(p)
     \/ /\ arg[p].first /\ fifo = <<>>
        /\ Goto(p, "fallback")
        /\ UNCHANGED <<fifo, arg, mine, received>>
  /\ UNCHANGED <<poolVars, op, activating_op_num, cpc, elt, modVars, cleanVars, fault>>

(* The ldp_push_fifo that ldp_push_first_fifo falls back on: its result is  *)
(* ignored.                                                                 *)
FifoFallback(p) ==
  /\ pc[p] = "fallback"
  /\ fifo' = IF HasRoom THEN Append(fifo, mine[p]) ELSE fifo
  /\ Pushed(p)
  /\ UNCHANGED <<poolVars, op, activating_op_num, cpc, elt, modVars, cleanVars, fault>>

ManagerMutexFree == cpc \notin {"clean", "clean_repush", "clean_drop", "clean_avail"}

Signalled_Lost(step) == step
Signalled(step) == IF step = "waiting" THEN "woken" ELSE step

(* The activating section of _ldp_fifo_manager_push_local.  The model starts *)
(* another operation of p only after it, so arg can be forgotten.            *)
Count(p) ==
  /\ pc[p] = "count"
  /\ ManagerMutexFree
  /\ activating_op_num' = Inc(activating_op_num)
  /\ cpc' = Signalled(cpc)
  /\ Goto(p, "idle")
  /\ arg' = [arg EXCEPT ![p] = NoOp]
  /\ UNCHANGED <<poolVars, op, fifo, mine, elt, modVars, cleanVars, received, fault>>

Produce(p) ==
  \/ PoolCheck(p) \/ PoolGet(p) \/ FifoPush(p) \/ FifoFallback(p) \/ Count(p)
-----------------------------------------------------------------------------
(* The consumer.                                                           *)

CountAfterPop_AnyOp(e) == Dec(activating_op_num)
CountAfterPop(e) == IF op[e].act THEN Dec(activating_op_num) ELSE activating_op_num

(* What follows the wait in ldp_fifo_manager_pop_elt.  On an empty FIFO it  *)
(* returns LDP_ERROR and leaves *elt alone; the module threads go on.       *)
TakeFirst ==
  /\ IF fifo = <<>>
     THEN UNCHANGED <<fifo, elt, activating_op_num>>
     ELSE /\ elt' = Head(fifo)
          /\ fifo' = Tail(fifo)
          /\ activating_op_num' = CountAfterPop(Head(fifo))
  /\ cpc' = "handle"

PopElt ==
  /\ cpc = "pop"
  /\ IF activating_op_num = 0
     THEN cpc' = "waiting" /\ UNCHANGED <<fifo, elt, activating_op_num>>
     ELSE TakeFirst
  /\ UNCHANGED <<poolVars, op, prodVars, modVars, cleanVars, received, fault>>

(* cond_wait is under an if: whatever woke the thread, it goes on. *)
PopWoken ==
  /\ cpc = "woken"
  /\ TakeFirst
  /\ UNCHANGED <<poolVars, op, prodVars, modVars, cleanVars, received, fault>>

SpuriousWakeup ==
  /\ SpuriousWakeups
  /\ cpc = "waiting"
  /\ cpc' = "woken"
  /\ UNCHANGED <<poolVars, op, fifo, activating_op_num, prodVars, elt, modVars,
                 cleanVars, received, fault>>

(* One operation run by the module thread. *)
Handle ==
  LET o == op[elt] IN
  /\ cpc = "handle"
  /\ IF elt = NoElt
     THEN /\ fault' = "uninitialised_element"
          /\ UNCHANGED <<cpc, modVars, received>>
     ELSE
       /\ UNCHANGED fault
       /\ \/ /\ o.id = "INITIALIZE"
             /\ mod_state' = IF mod_state = "IDLE" THEN "READY" ELSE mod_state
             /\ cpc' = "release"
             /\ UNCHANGED <<ending, received>>
          \/ /\ o.id = "START"
             /\ mod_state' = IF mod_state = "READY" THEN "RUNNING" ELSE mod_state
             /\ cpc' = "release"
             /\ UNCHANGED <<ending, received>>
          \/ /\ o.id = "STOP"
             /\ mod_state' = IF mod_state = "RUNNING" THEN "READY" ELSE mod_state
             /\ cpc' = IF mod_state = "RUNNING" THEN "clean_begin" ELSE "release"
             /\ UNCHANGED <<ending, received>>
          \/ /\ o.id = "SHUTDOWN"
             /\ mod_state' = "IDLE"
             /\ cpc' = IF mod_state # "IDLE" THEN "clean_begin" ELSE "release"
             /\ received' = IF mod_state # "IDLE" THEN {} ELSE received
             /\ UNCHANGED ending
          \/ /\ o.id = "KILL"
             /\ mod_state' = "IDLE"
             /\ received' = {}
             /\ ending' = TRUE
             /\ cpc' = "clean_begin"
          \/ /\ o.id \notin Lifecycle
             /\ received' = IF mod_state = "RUNNING" /\ o.type = "RR_RECEIVED"
                            THEN received \ {o.from} ELSE received
             /\ cpc' = "release"
             /\ UNCHANGED modVars
  /\ UNCHANGED <<poolVars, op, fifo, activating_op_num, prodVars, elt, cleanVars>>

(* ldp_element_pool_release: the state is written without the mutex. *)
ReleaseFree ==
  /\ cpc = "release"
  /\ state' = [state EXCEPT ![elt] = "FREE"]
  /\ cpc' = "avail"
  /\ UNCHANGED <<available, op, fifo, activating_op_num, prodVars, elt, modVars,
                 cleanVars, received, fault>>

ReleaseAvail ==
  /\ cpc = "avail"
  /\ available' = [available EXCEPT ![PoolOf[elt]] = Inc(@)]
  /\ cpc' = IF ending THEN "done" ELSE "pop"
  /\ UNCHANGED <<state, op, fifo, activating_op_num, prodVars, elt, modVars,
                 cleanVars, received, fault>>
-----------------------------------------------------------------------------
(* ldp_fifo_manager_clean, run by the consumer under the manager mutex.    *)

(* Only mod_lifecycle_stop passes the request table; shutdown and kill pass *)
(* NULL.                                                                    *)
RequestTableGiven == mod_state = "READY"

CleanBegin ==
  /\ cpc = "clean_begin"
  /\ left' = Len(fifo)
  /\ activating_op_num' = 0
  /\ start_op' = FALSE
  /\ cpc' = "clean"
  /\ UNCHANGED <<poolVars, op, fifo, prodVars, elt, modVars, popped, received, fault>>

IsStart(o) == o.id = "START" /\ mod_state = "READY"

AllowedOperation_NoKill(o) ==
  \/ start_op
  \/ o.id = "SHUTDOWN" /\ mod_state # "IDLE"
  \/ o.id = "INITIALIZE" /\ mod_state = "IDLE"
AllowedOperation(o) ==
  \/ start_op
  \/ o.id = "KILL"
  \/ o.id = "SHUTDOWN" /\ mod_state # "IDLE"
  \/ o.id = "INITIALIZE" /\ mod_state = "IDLE"

Kept(o) == IsStart(o) \/ AllowedOperation(o)

CleanNext ==
  /\ cpc = "clean"
  /\ IF left = 0
     THEN cpc' = "release" /\ UNCHANGED <<fifo, left, popped>>
     ELSE /\ left' = left - 1
          /\ IF fifo = <<>>
             THEN UNCHANGED <<fifo, popped, cpc>>
             ELSE /\ popped' = Head(fifo)
                  /\ fifo' = Tail(fifo)
                  /\ cpc' = IF Kept(op[Head(fifo)]) THEN "clean_repush" ELSE "clean_drop"
  /\ UNCHANGED <<poolVars, op, activating_op_num, prodVars, elt, modVars, start_op,
                 received, fault>>

Recounted(o) ==
  IF IsStart(o) \/ o.act THEN Inc(activating_op_num) ELSE activating_op_num

(* The FIFO after a cleaning's ldp_push_fifo, whose result is not looked at *)
(* (and, as a slip, one that counts the element popped as still there).     *)
Requeued_OneLess == IF Len(fifo) + 1 < FifoSize THEN Append(fifo, popped) ELSE fifo
Requeued == IF HasRoom THEN Append(fifo, popped) ELSE fifo

CleanRepush ==
  LET o == op[popped] IN
  /\ cpc = "clean_repush"
  /\ fifo' = Requeued
  /\ start_op' = (start_op \/ IsStart(o))
  /\ activating_op_num' = Recounted(o)
  /\ popped' = NoElt
  /\ cpc' = "clean"
  /\ UNCHANGED <<poolVars, op, prodVars, elt, modVars, left, received, fault>>

FindAndClean_Nothing(o) == received
FindAndClean(o) == IF o.type = "RR_RECEIVED" THEN received \ {o.from} ELSE received

(* A dropped request leaves the request table too, then its element is freed. *)
CleanDrop ==
  LET o == op[popped] IN
  /\ cpc = "clean_drop"
  /\ IF o.type = "RR_RECEIVED" /\ ~RequestTableGiven
     THEN /\ fault' = "null_request_table"
          /\ UNCHANGED <<received, state, cpc>>
     ELSE /\ received' = FindAndClean(o)
          /\ state' = [state EXCEPT ![popped] = "FREE"]
          /\ cpc' = "clean_avail"
          /\ UNCHANGED fault
  /\ UNCHANGED <<available, op, fifo, activating_op_num, prodVars, elt, modVars, cleanVars>>

CleanAvail ==
  /\ cpc = "clean_avail"
  /\ available' = [available EXCEPT ![PoolOf[popped]] = Inc(@)]
  /\ popped' = NoElt
  /\ cpc' = "clean"
  /\ UNCHANGED <<state, op, fifo, activating_op_num, prodVars, elt, modVars, left,
                 start_op, received, fault>>

Clean == CleanBegin \/ CleanNext \/ CleanRepush \/ CleanDrop \/ CleanAvail

(* The module thread runs when every urgent producer is idle or blocked. *)
Scheduled == \A p \in Urgent : pc[p] = "idle" \/ (pc[p] = "count" /\ ~ManagerMutexFree)

Consume == PopElt \/ PopWoken \/ Handle \/ ReleaseFree \/ ReleaseAvail \/ Clean

Next ==
  /\ fault = "none"
  /\ \/ \E p \in Producer : Produce(p) \/ \E o \in Op : PushBegin(p, o)
     \/ Scheduled /\ Consume
     \/ SpuriousWakeup

Spec == Init /\ [][Next]_vars

(* The threads are scheduled: a started push goes on, and the module thread *)
(* is not starved by the urgent producers, which now and then all sleep,    *)
(* waiting for messages (with no urgent producer that is no assumption).    *)
(* Nothing makes anybody push, and nothing makes a spurious wakeup happen.  *)
Fairness ==
  /\ []<>(\A p \in Urgent : pc[p] = "idle")
  /\ SF_vars(fault = "none" /\ Scheduled /\ Consume)
  /\ \A p \in Producer : WF_vars(fault = "none" /\ Produce(p))

FairSpec == Spec /\ Fairness
-----------------------------------------------------------------------------
(* The uses of the queue in which its counter and its owners stay right:   *)
(* the queue is never cleaned, or it is cleaned by a thread that every     *)
(* producer preempts; the FIFO has room for what it is asked to take.      *)
Cleaning == {"STOP", "SHUTDOWN", "KILL"}

NeverCleaned ==
  /\ \A o \in Op : o.id \notin Cleaning
  /\ (\A o \in Op : ~o.first) \/ FifoSize >= Cardinality(Elt)
CleanedAtRest ==
  /\ Urgent = Producer
  /\ \A o \in Op : ~o.first
  /\ FifoSize + 1 >= Cardinality(Elt)
RoomForAll == FifoSize >= Cardinality(Elt)
Calm == ~SpuriousWakeups /\ (NeverCleaned \/ CleanedAtRest)

(* What the wait asks for when it may also end for no reason: every        *)
(* operation activates, and the counter does not come round.               *)
AlwaysActivating ==
  /\ \A o \in Op : o.act /\ ~o.first /\ o.id \notin Cleaning
  /\ FifoSize < UintMod /\ Cardinality(Producer) < UintMod
-----------------------------------------------------------------------------
(* Type correctness of the queue's state. *)
TypeOK ==
  /\ state \in [Elt -> {"FREE", "USED"}]
  /\ op \in [Elt -> Op \cup {NoOp}]
  /\ available \in [Pool -> 0 .. UintMod - 1]
  /\ fifo \in Seq(Elt) /\ Len(fifo) <= FifoSize
  /\ activating_op_num \in 0 .. UintMod - 1
  /\ pc \in [Producer -> {"idle", "check", "get", "push", "fallback", "count"}]
  /\ arg \in [Producer -> Op \cup {NoOp}]
  /\ mine \in [Producer -> Elt \cup {NoElt}]
  /\ cpc \in {"pop", "waiting", "woken", "handle", "release", "avail", "done",
              "clean_begin", "clean", "clean_repush", "clean_drop", "clean_avail"}
  /\ elt \in Elt \cup {NoElt}
  /\ mod_state \in {"IDLE", "READY", "RUNNING"}
  /\ ending \in BOOLEAN
  /\ left \in 0 .. FifoSize
  /\ start_op \in BOOLEAN
  /\ popped \in Elt \cup {NoElt}
  /\ received \subseteq Producer
  /\ fault \in {"none", "uninitialised_element", "null_request_table"}

(* Who may use an element: the FIFO positions, producers and consumer that  *)
(* hold it.                                                                 *)
ConsumerHolds(e) ==
  elt = e /\ cpc \in {"handle", "release", "clean_begin", "clean", "clean_repush",
                      "clean_drop", "clean_avail"}
CleanHolds(e) == popped = e /\ cpc \in {"clean_repush", "clean_drop"}

Holders(e) ==
  ({"fifo"} \X {i \in 1 .. Len(fifo) : fifo[i] = e})
  \cup ({"producer"} \X {p \in Producer : mine[p] = e})
  \cup {<<h, e>> : h \in (IF ConsumerHolds(e) THEN {"module_thread"} ELSE {})
                        \cup (IF CleanHolds(e) THEN {"clean"} ELSE {})}

(* A pool element is in one place at most: a producer that fills it, the    *)
(* FIFO once, or the module thread; and a free element is in none.  Two     *)
(* owners would run one operation twice and overwrite the parameters of     *)
(* another.                                                                 *)
OneOwner ==
  \A e \in Elt :
    /\ \A h, k \in Holders(e) : h = k
    /\ state[e] = "FREE" => Holders(e) = {}

(* No element is leaked: one that is used is in the FIFO or somebody holds  *)
(* it.  This takes a FIFO with room for the elements of every pool: a push  *)
(* that finds the FIFO full keeps its element for ever.                     *)
UsedIsHeld == \A e \in Elt : state[e] = "USED" => Holders(e) # {}

(* element_available counts the free elements of the pool, less the one     *)
(* whose release has written FREE and has not counted it yet; so the check  *)
(* that ldp_element_pool_get makes without the mutex never sees a counter   *)
(* that wrapped around.                                                     *)
BeingCounted(q) ==
  IF \/ cpc = "avail" /\ PoolOf[elt] = q
     \/ cpc = "clean_avail" /\ PoolOf[popped] = q THEN 1 ELSE 0

PoolCountExact ==
  \A q \in Pool :
    (available[q] + BeingCounted(q)) % UintMod = Cardinality(FreeOf(q))

ActivatingQueued == Cardinality({i \in 1 .. Len(fifo) : op[fifo[i]].act})
Uncounted == {p \in Producer : pc[p] = "count"}

(* activating_op_num is "current number of activating operation in fifo"    *)
(* once the producers that have pushed without counting yet are allowed for.*)
ActivatingCountExact ==
  ManagerMutexFree =>
    (activating_op_num + Cardinality(Uncounted)) % UintMod = ActivatingQueued

(* No lost wakeup: when the module thread sleeps, every activating          *)
(* operation of the FIFO has a producer that is about to count it and       *)
(* signal.                                                                  *)
NoLostWakeup ==
  cpc = "waiting" => ActivatingQueued <= Cardinality(Uncounted)

(* ldp_fifo_manager_pop_elt: "if FIFO is empty, thread stops on a           *)
(* pthread_condition".  So it does not come back with nothing.              *)
PopNeverEmptyHanded ==
  [][(cpc \in {"pop", "woken"} /\ cpc' = "handle") => fifo # <<>>]_vars

(* "re-push allowed operation": the operations that a cleaning keeps are    *)
(* still queued after it.                                                   *)
CleanKeepsAllowed ==
  [][(cpc = "clean_repush" /\ cpc' = "clean") => \E i \in 1 .. Len(fifo') : fifo'[i] = popped]_vars

(* A request in the table is on its way to the module, queued for it or     *)
(* being run; one that a STOP removes from the queue leaves the table too.  *)
RequestsAccountedFor ==
  \A p \in received :
    \/ arg[p] # NoOp /\ arg[p].type = "RR_RECEIVED"
    \/ \E e \in Elt : Holders(e) # {} /\ op[e].from = p /\ op[e].type = "RR_RECEIVED"

(* Every activating operation that entered the FIFO leaves it: it is run by *)
(* the module thread or dropped by a cleaning.                              *)
QueuedIsServed ==
  \A e \in Elt :
    (\E i \in 1 .. Len(fifo) : fifo[i] = e /\ op[e].act)
      ~> (~ \E i \in 1 .. Len(fifo) : fifo[i] = e) \/ cpc = "done" \/ fault # "none"

(* A KILL that was queued is run in the end, whatever else is queued before *)
(* it and whatever the cleanings of STOP and SHUTDOWN remove.               *)
KillIsRun ==
  (\E i \in 1 .. Len(fifo) : op[fifo[i]].id = "KILL")
    ~> (ending \/ fault # "none")
=============================================================================
