----------------------------- MODULE ApexPools -----------------------------
(***************************************************************************)
(* Memory pools of the APR implementation over APEX (apr_pools.c): a fixed *)
(* table of pools that form trees, blocks carved from one arena and        *)
(* recycled through a free list, and fixed tables of cleanups and userdata. *)
(*                                                                         *)
(* An action is a critical section of the mutex of the pools.  A thread    *)
(* uses the pools that it made; clear and destroy run over several         *)
(* sections, with the cleanup callbacks in between, which may use the pool *)
(* being cleared: what is left to do is a stack of frames.                 *)
(***************************************************************************)
EXTENDS Naturals, Sequences, FiniteSets, SequencesExt, FiniteSetsExt

CONSTANTS
  PoolThread,       \* threads
  Controls,         \* APEX_APR_POOL_CONTROL_CAPACITY
  CleanupCapacity,  \* APEX_APR_POOL_CLEANUP_CAPACITY
  UserdataCapacity, \* APEX_APR_POOL_USERDATA_CAPACITY
  Data,             \* data of the cleanups, keys of userdata
  ArenaSize, BlockDefault, BlockHeader,  \* sizes, in units of the alignment
  AllocSizes,       \* sizes asked for
  MaxPoolOps        \* operations in a behaviour

Control == 1..Controls
NoPool == 0

ASSUME PoolsAssumption ==
  /\ Controls \in Nat \ {0} /\ CleanupCapacity \in Nat /\ UserdataCapacity \in Nat
  /\ ArenaSize \in Nat /\ BlockDefault \in Nat \ {0} /\ BlockHeader \in Nat
  /\ AllocSizes \subseteq Nat \ {0} /\ MaxPoolOps \in Nat

VARIABLES
  pool,         \* apex_apr_pool_controls
  free_blocks,  \* apex_apr_free_blocks: numbers of blocks
  arena_used,   \* apex_apr_arena_used: units of the arena carved into blocks
  capacity,     \* of each block carved from the arena
  used,         \* of each block
  live,         \* by pool: the memory given: <<block, offset, size>>
  entries,      \* cleanup entries in use
  stack,        \* by thread: the clears and destroys under way, innermost first
  ending,       \* by thread: the next pool apex_apr_pool_terminate looks at, 0 when not in it
  poolOps,
  runs,         \* by registration of a cleanup: times that it ran
  killed        \* registrations withdrawn by a kill

memoryVars == <<free_blocks, arena_used, capacity, used, live>>
cleanupVars == <<entries, runs, killed>>
callVars == <<stack, ending>>
poolVars == <<pool, memoryVars, cleanupVars, callVars, poolOps>>

EmptyPool == [active |-> FALSE, parent |-> NoPool, owner |-> NoPool, children |-> <<>>, unmanaged |-> FALSE,
              cleanups |-> <<>>, pre_cleanups |-> <<>>, blocks |-> <<>>, userdata |-> {}]
NoCleanup == [n |-> 0, data |-> 0]

PoolsInit ==
  /\ pool = [c \in Control |-> EmptyPool] /\ live = [c \in Control |-> {}]
  /\ free_blocks = <<>> /\ arena_used = 0 /\ capacity = <<>> /\ used = <<>> /\ entries = 0
  /\ stack = [t \in PoolThread |-> <<>>]
  /\ ending = [t \in PoolThread |-> 0] /\ poolOps = 0 /\ runs = <<>> /\ killed = {}

-----------------------------------------------------------------------------

Top(t) == Head(stack[t])
InCallback(t) == stack[t] # <<>> /\ Top(t).callback # NoCleanup

AtRest(t) == stack[t] = <<>> /\ ending[t] = 0

\* A callback uses the pool that is cleared.
Usable(t, c) ==
  /\ pool[c].active /\ pool[c].owner = t
  /\ AtRest(t) \/ (InCallback(t) /\ Top(t).c = c)

\* One operation more, of the only thread left when it ends the library; a pool is
\* made or destroyed in a callback of a pre-cleanup at most: what a cleanup makes
\* then is not destroyed.
Operation(t) ==
  /\ poolOps < MaxPoolOps /\ poolOps' = poolOps + 1
  /\ \A u \in PoolThread \ {t} : ending[u] = 0
TreeMayChange(t) == AtRest(t) \/ (InCallback(t) /\ Top(t).at = "pre_cleanups")

\* apex_apr_pool_create_ex; apex_apr_pool_create_unmanaged_ex without a parent.
Create(t, p) ==
  /\ Operation(t) /\ TreeMayChange(t)
  /\ p # NoPool => Usable(t, p)
  /\ \E c \in Control, u \in BOOLEAN :
       /\ ~pool[c].active /\ \A d \in 1..(c - 1) : pool[d].active
       /\ u => p = NoPool
       /\ LET made == [pool EXCEPT ![c] = [EmptyPool EXCEPT !.active = TRUE, !.parent = p,
                                             !.owner = t, !.unmanaged = u]] IN
            pool' = IF p = NoPool THEN made ELSE [made EXCEPT ![p].children = <<c>> \o @]
  /\ UNCHANGED <<memoryVars, cleanupVars, callVars>>

-----------------------------------------------------------------------------
(* Memory.                                                                 *)

BlockFor(size) == Max({size, BlockDefault})

\* The first free block that is large enough, in the order of the list.
Fitting_Any(size) == DOMAIN free_blocks
Fitting(size) == {k \in DOMAIN free_blocks : capacity[free_blocks[k]] >= BlockFor(size)}

\* The memory of size units at the end of what is used of block b.
Given(c, b, from, size) == live' = [live EXCEPT ![c] = @ \cup {<<b, from, size>>}]

HasRoom(c, size) ==
  pool[c].blocks # <<>> /\ LET b == Head(pool[c].blocks) IN size <= capacity[b] - used[b]

\* apex_apr_palloc in the block that the pool uses, in a recycled one or in a
\* new one; NULL when the arena is full.
AllocInBlock(c, size) ==
  /\ HasRoom(c, size)
  /\ LET b == Head(pool[c].blocks) IN
       Given(c, b, used[b], size) /\ used' = [used EXCEPT ![b] = @ + size]
  /\ UNCHANGED <<pool, free_blocks, arena_used, capacity>>

AllocRecycled(c, size) ==
  /\ ~HasRoom(c, size) /\ Fitting(size) # {}
  /\ LET k == Min(Fitting(size))
         b == free_blocks[k] IN
       /\ free_blocks' = RemoveAt(free_blocks, k)
       /\ pool' = [pool EXCEPT ![c].blocks = <<b>> \o @]
       /\ used' = [used EXCEPT ![b] = size] /\ Given(c, b, 0, size)
  /\ UNCHANGED <<arena_used, capacity>>

AllocCarved(c, size) ==
  /\ ~HasRoom(c, size) /\ Fitting(size) = {}
  /\ arena_used + BlockHeader + BlockFor(size) <= ArenaSize
  /\ arena_used' = arena_used + BlockHeader + BlockFor(size)
  /\ capacity' = Append(capacity, BlockFor(size)) /\ used' = Append(used, size)
  /\ LET b == Len(capacity) + 1 IN
       pool' = [pool EXCEPT ![c].blocks = <<b>> \o @] /\ Given(c, b, 0, size)
  /\ UNCHANGED free_blocks

Alloc(t, c) ==
  /\ Operation(t) /\ Usable(t, c)
  /\ \E size \in AllocSizes : AllocInBlock(c, size) \/ AllocRecycled(c, size) \/ AllocCarved(c, size)
  /\ UNCHANGED <<cleanupVars, callVars>>

-----------------------------------------------------------------------------
(* Cleanups and userdata.                                                  *)

\* apex_apr_pool_cleanup_register_internal, in a list of pool c; without a free
\* entry it is dropped, and the abort function told.
Registered(pools, c, list, d) ==
  IF entries < CleanupCapacity
  THEN /\ entries' = entries + 1 /\ runs' = Append(runs, 0)
       /\ pool' = [pools EXCEPT ![c][list] = <<[n |-> Len(runs) + 1, data |-> d]>> \o @]
  ELSE pool' = pools /\ UNCHANGED <<entries, runs>>

CleanupRegister(t, c) ==
  /\ Operation(t) /\ Usable(t, c)
  /\ \E d \in Data : Registered(pool, c, "cleanups", d)
  /\ UNCHANGED <<memoryVars, callVars, killed>>

\* A pre-cleanup registered by a plain one would not run before the pool ends.
PreCleanupRegister(t, c) ==
  /\ Operation(t) /\ Usable(t, c) /\ TreeMayChange(t)
  /\ \E d \in Data : Registered(pool, c, "pre_cleanups", d)
  /\ UNCHANGED <<memoryVars, callVars, killed>>

\* The first of a list with these data.
Matches(list, d) == {k \in DOMAIN list : list[k].data = d}
First(list, d) == IF Matches(list, d) = {} THEN {} ELSE {Min(Matches(list, d))}
Without(list, d) ==
  IF Matches(list, d) = {} THEN list ELSE RemoveAt(list, Min(Matches(list, d)))

Withdrawn(c, list, d) == {pool[c][list][k].n : k \in First(pool[c][list], d)}

\* apex_apr_pool_cleanup_kill: one of each list.
KilledBy(c, d) == Withdrawn(c, "cleanups", d) \cup Withdrawn(c, "pre_cleanups", d)
Kill(t, c) ==
  /\ Operation(t) /\ Usable(t, c)
  /\ \E d \in Data :
       /\ KilledBy(c, d) # {}
       /\ killed' = killed \cup KilledBy(c, d)
       /\ entries' = entries - Cardinality(KilledBy(c, d))
       /\ pool' = [pool EXCEPT ![c].cleanups = Without(@, d), ![c].pre_cleanups = Without(@, d)]
  /\ UNCHANGED <<memoryVars, callVars, runs>>

\* apex_apr_pool_userdata_setn: a key of the pool, known or not, with a cleanup
\* for the data or none; nothing when the table is full.
UserdataInUse == MapThenSumSet(LAMBDA c : Cardinality(pool[c].userdata), Control)
UserdataSet(t, c) ==
  /\ Operation(t) /\ Usable(t, c)
  /\ \E d \in Data :
       LET with == [pool EXCEPT ![c].userdata = @ \cup {d}] IN
         /\ d \in pool[c].userdata \/ UserdataInUse < UserdataCapacity
         /\ \/ pool' = with /\ UNCHANGED <<entries, runs>>
            \/ Registered(with, c, "cleanups", d)
  /\ UNCHANGED <<memoryVars, callVars, killed>>

-----------------------------------------------------------------------------
(* Clear and destroy: pre-cleanups, children, cleanups, memory, and the     *)
(* pool itself.                                                             *)

Frame(c, op) == [c |-> c, op |-> op, at |-> "pre_cleanups", callback |-> NoCleanup]

\* The innermost frame goes on to another part, or is over.
At(t, part) == stack' = [stack EXCEPT ![t] = <<[Top(t) EXCEPT !.at = part]>> \o Tail(@)]
Over(t) == stack' = [stack EXCEPT ![t] = Tail(@)]

ClearPool(t, c) ==
  /\ Operation(t) /\ AtRest(t) /\ Usable(t, c)
  /\ stack' = [stack EXCEPT ![t] = <<Frame(c, "clear")>>]
  /\ UNCHANGED <<pool, memoryVars, cleanupVars, ending>>

\* A pool, or in a callback a child of the pool that is cleared.
DestroyPool(t, c) ==
  /\ Operation(t) /\ TreeMayChange(t) /\ pool[c].active /\ pool[c].owner = t
  /\ InCallback(t) => pool[c].parent = Top(t).c
  /\ stack' = [stack EXCEPT ![t] = <<Frame(c, "destroy")>> \o @]
  /\ UNCHANGED <<pool, memoryVars, cleanupVars, ending>>

\* apex_apr_pool_terminate, when the other threads are at rest: the pools are then
\* this thread's, and every root is destroyed in turn, by its number.
Terminate(t) ==
  /\ Operation(t) /\ \A u \in PoolThread : AtRest(u)
  /\ ending' = [ending EXCEPT ![t] = 1]
  /\ pool' = [c \in Control |-> IF pool[c].active THEN [pool[c] EXCEPT !.owner = t] ELSE pool[c]]
  /\ UNCHANGED <<memoryVars, cleanupVars, stack>>

RootsLeft(t) ==
  {c \in Control : c >= ending[t] /\ pool[c].active /\ pool[c].parent = NoPool /\ ~pool[c].unmanaged}
TerminateNext(t) ==
  /\ ending[t] # 0 /\ stack[t] = <<>>
  /\ \/ /\ RootsLeft(t) # {}
        /\ stack' = [stack EXCEPT ![t] = <<Frame(Min(RootsLeft(t)), "destroy")>>]
        /\ ending' = [ending EXCEPT ![t] = Min(RootsLeft(t)) + 1]
     \/ /\ RootsLeft(t) = {}
        /\ ending' = [ending EXCEPT ![t] = 0] /\ UNCHANGED stack
  /\ UNCHANGED <<pool, memoryVars, cleanupVars, poolOps>>

Works(t) == stack[t] # <<>> /\ ~InCallback(t)

AfterFirst_Kept(list) == list
AfterFirst(list) == Tail(list)

\* apex_apr_pool_run_cleanups: the first cleanup leaves the list before its
\* callback runs, and its entry is free after.
RunCleanup(t) ==
  /\ Works(t) /\ Top(t).at \in {"pre_cleanups", "cleanups"}
  /\ LET c == Top(t).c
         list == Top(t).at IN
       \/ /\ pool[c][list] # <<>>
          /\ pool' = [pool EXCEPT ![c][list] = AfterFirst(@)]
          /\ stack' = [stack EXCEPT ![t] =
                         <<[Top(t) EXCEPT !.callback = Head(pool[c][list])]>> \o Tail(@)]
       \/ /\ pool[c][list] = <<>>
          /\ At(t, IF list = "pre_cleanups" THEN "children" ELSE "memory")
          /\ UNCHANGED pool
  /\ UNCHANGED <<memoryVars, cleanupVars, ending, poolOps>>

CallbackReturns(t) ==
  /\ InCallback(t)
  /\ runs' = [runs EXCEPT ![Top(t).callback.n] = @ + 1]
  /\ entries' = entries - 1
  /\ stack' = [stack EXCEPT ![t] = <<[Top(t) EXCEPT !.callback = NoCleanup]>> \o Tail(@)]
  /\ UNCHANGED <<pool, memoryVars, killed, ending, poolOps>>

DestroyChildren(t) ==
  /\ Works(t) /\ Top(t).at = "children"
  /\ LET children == pool[Top(t).c].children IN
       \/ /\ children # <<>>
          /\ stack' = [stack EXCEPT ![t] = <<Frame(Head(children), "destroy")>> \o @]
       \/ children = <<>> /\ At(t, "cleanups")
  /\ UNCHANGED <<pool, memoryVars, cleanupVars, ending, poolOps>>

\* The blocks go back to the free list one by one.
ReleaseMemory(t) ==
  /\ Works(t) /\ Top(t).at = "memory"
  /\ LET c == Top(t).c IN
       /\ free_blocks' = Reverse(pool[c].blocks) \o free_blocks
       /\ used' = [b \in DOMAIN used |-> IF Contains(pool[c].blocks, b) THEN 0 ELSE used[b]]
       /\ pool' = [pool EXCEPT ![c].blocks = <<>>, ![c].userdata = {}]
       /\ live' = [live EXCEPT ![c] = {}]
       /\ IF Top(t).op = "clear" THEN Over(t) ELSE At(t, "detach")
  /\ UNCHANGED <<arena_used, capacity, cleanupVars, ending, poolOps>>

Detached(c) ==
  IF pool[c].parent = NoPool THEN pool
  ELSE [pool EXCEPT ![pool[c].parent].children =
          RemoveAt(@, Min({k \in DOMAIN @ : @[k] = c}))]

\* apex_apr_pool_detach_unlocked, and the entry is free.
Detach(t) ==
  /\ Works(t) /\ Top(t).at = "detach"
  /\ LET c == Top(t).c IN pool' = [Detached(c) EXCEPT ![c] = EmptyPool]
  /\ Over(t)
  /\ UNCHANGED <<memoryVars, cleanupVars, ending, poolOps>>

-----------------------------------------------------------------------------

Ends(t) ==
  \/ RunCleanup(t) \/ CallbackReturns(t) \/ DestroyChildren(t) \/ ReleaseMemory(t) \/ Detach(t)
  \/ TerminateNext(t)

PoolsNext ==
  \E t \in PoolThread :
    \/ Ends(t) \/ Terminate(t)
    \/ Create(t, NoPool)
    \/ \E c \in Control :
         \/ Create(t, c) \/ Alloc(t, c) \/ CleanupRegister(t, c) \/ PreCleanupRegister(t, c) \/ Kill(t, c)
         \/ UserdataSet(t, c) \/ ClearPool(t, c) \/ DestroyPool(t, c)

-----------------------------------------------------------------------------

PoolsTypeOK ==
  /\ \A c \in Control : pool[c].active \in BOOLEAN /\ pool[c].parent \in Control \cup {NoPool}
  /\ entries \in 0..CleanupCapacity /\ arena_used \in 0..ArenaSize

\* A block belongs to one pool or to the free list, once, and the memory given
\* from it lies within it and overlaps no other (palloc, clear, destroy).
Blocks(c) == IF c = NoPool THEN free_blocks ELSE pool[c].blocks
PlacesOf(b) ==
  UNION {{<<c, k>> : k \in {i \in DOMAIN Blocks(c) : Blocks(c)[i] = b}} : c \in Control \cup {NoPool}}
BlocksOnce == \A b \in DOMAIN capacity : Cardinality(PlacesOf(b)) = 1
MemoryDisjoint ==
  \A c \in Control : \A m \in live[c] :
    /\ Contains(pool[c].blocks, m[1]) /\ m[2] + m[3] <= capacity[m[1]]
    /\ \A d \in Control : \A o \in live[d] :
         o # m /\ o[1] = m[1] => o[2] >= m[2] + m[3] \/ m[2] >= o[2] + o[3]
PoolMemory == BlocksOnce /\ MemoryDisjoint

\* A registered cleanup is in one list of one pool, runs, ran or was killed:
\* each runs exactly once, whatever callbacks do to the pool that runs them, and
\* every entry of the table is accounted for (apex_apr_pool_run_cleanups).
Pending(n) ==
  UNION {{<<c, list, k>> : k \in {i \in DOMAIN pool[c][list] : pool[c][list][i].n = n}} :
           c \in Control, list \in {"cleanups", "pre_cleanups"}}
Running(n) ==
  UNION {{<<t, k>> : k \in {i \in DOMAIN stack[t] : stack[t][i].callback.n = n}} : t \in PoolThread}
CleanupsOnce ==
  /\ \A n \in DOMAIN runs :
       Cardinality(Pending(n)) + Cardinality(Running(n)) + runs[n] + (IF n \in killed THEN 1 ELSE 0) = 1
  /\ entries = Cardinality({n \in DOMAIN runs : Pending(n) \cup Running(n) # {}})

\* The pools form trees: a child is once in the list of a parent in use, so that
\* the end of a pool finds all that depends on it (create_ex, destroy).
PoolTree ==
  \A c \in Control :
    /\ pool[c].active /\ pool[c].parent # NoPool =>
         /\ pool[pool[c].parent].active
         /\ Cardinality({k \in DOMAIN pool[pool[c].parent].children :
                            pool[pool[c].parent].children[k] = c}) = 1
    /\ \A k \in DOMAIN pool[c].children : pool[pool[c].children[k]].parent = c
=============================================================================
