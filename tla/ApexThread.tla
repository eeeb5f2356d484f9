----------------------------- MODULE ApexThread -----------------------------
(***************************************************************************)
(* Threads of the APR implementation over APEX (apr_thread_proc.c): APEX   *)
(* processes with a fixed registry, in which a new process finds what it    *)
(* has to run, and a semaphore for join.  Preemption is locked around each  *)
(* use of the registry.  A creator joins the threads that it made.          *)
(***************************************************************************)
EXTENDS Naturals, FiniteSets, FiniteSetsExt

CONSTANTS
  Creator,      \* threads that create and join others
  MaxProcesses, \* APEX_APR_THREAD_MAX_PROCESSES
  MaxCreated    \* calls of apr_thread_create in a behaviour

ASSUME ThreadAssumption == MaxProcesses \in Nat /\ MaxCreated \in Nat

Created == 1..MaxCreated
Empty == 0
Nothing == [thread |-> Empty, step |-> "idle"]

VARIABLES
  calls,     \* threads allocated so far: their numbers
  registry,  \* apex_apr_threads: a thread or Empty in each slot
  call,      \* by creator: its call under way: the thread and the step
  mine,      \* by creator: the threads that it was given and has not joined
  process,   \* by thread: "none", "dormant", "started", "runs", "stopped"
  ran,       \* threads whose start_routine ran to its end
  signalled, \* threads whose completion semaphore has a token
  active     \* threads with active = 1

threadVars == <<calls, registry, call, mine, process, ran, signalled, active>>

ThreadInit ==
  /\ calls = 0 /\ registry = [i \in 1..MaxProcesses |-> Empty]
  /\ call = [c \in Creator |-> Nothing] /\ mine = [c \in Creator |-> {}]
  /\ process = [x \in Created |-> "none"]
  /\ ran = {} /\ signalled = {} /\ active = {}

-----------------------------------------------------------------------------

Occupied(x) == {i \in DOMAIN registry : registry[i] = x}

\* apex_apr_thread_unregister
Unregistered(x) == [i \in DOMAIN registry |-> IF registry[i] = x THEN Empty ELSE registry[i]]

Step(c, step) == call' = [call EXCEPT ![c].step = step]
Fails(c) ==
  /\ registry' = Unregistered(call[c].thread)
  /\ call' = [call EXCEPT ![c] = Nothing]

\* apex_apr_thread_create: the first free slot, or APR_ENOMEM.
Registers(c) ==
  /\ call[c] = Nothing /\ calls < MaxCreated
  /\ calls' = calls + 1
  /\ IF Occupied(Empty) # {}
     THEN /\ registry' = [registry EXCEPT ![Min(Occupied(Empty))] = calls + 1]
          /\ call' = [call EXCEPT ![c] = [thread |-> calls + 1, step |-> "semaphore"]]
     ELSE UNCHANGED <<registry, call>>
  /\ UNCHANGED <<mine, process, ran, signalled, active>>

\* CREATE_SEMAPHORE, with the next sequence number in its name.
CreatesSemaphore(c) ==
  /\ call[c].step = "semaphore"
  /\ \/ Step(c, "process") /\ UNCHANGED registry
     \/ Fails(c)
  /\ UNCHANGED <<calls, mine, process, ran, signalled, active>>

CreatesProcess(c) ==
  /\ call[c].step = "process"
  /\ \/ /\ Step(c, "start") /\ UNCHANGED registry
        /\ process' = [process EXCEPT ![call[c].thread] = "dormant"]
     \/ Fails(c) /\ UNCHANGED process
  /\ UNCHANGED <<calls, mine, ran, signalled, active>>

\* START; a process that was not started is left there.
Starts(c) ==
  /\ call[c].step = "start"
  /\ \/ /\ Step(c, "give") /\ UNCHANGED registry
        /\ process' = [process EXCEPT ![call[c].thread] = "started"]
     \/ Fails(c) /\ UNCHANGED process
  /\ UNCHANGED <<calls, mine, ran, signalled, active>>

\* The thread may have run by now.
Gives(c) ==
  /\ call[c].step = "give"
  /\ active' = active \cup {call[c].thread}
  /\ mine' = [mine EXCEPT ![c] = @ \cup {call[c].thread}]
  /\ call' = [call EXCEPT ![c] = Nothing]
  /\ UNCHANGED <<calls, registry, process, ran, signalled>>

-----------------------------------------------------------------------------
(* apex_apr_thread_entry                                                   *)

\* apex_apr_thread_find: in the registry, although apr_thread_create may not have
\* returned yet.
Found_Active(x) == x \in active
Found(x) == Occupied(x) # {}

\* A process that is not in the registry stops without running anything.
Finds(x) ==
  /\ process[x] = "started"
  /\ process' = [process EXCEPT ![x] = IF Found(x) THEN "runs" ELSE "stopped"]
  /\ UNCHANGED <<calls, registry, call, mine, ran, signalled, active>>

Completes(x) ==
  /\ process[x] = "runs"
  /\ process' = [process EXCEPT ![x] = "stopped"]
  /\ ran' = ran \cup {x} /\ signalled' = signalled \cup {x}
  /\ UNCHANGED <<calls, registry, call, mine, active>>

\* apex_apr_thread_join, of a thread that the creator has.
Joins(c) ==
  /\ call[c] = Nothing
  /\ \E x \in mine[c] :
       /\ x \in active /\ x \in signalled
       /\ signalled' = signalled \ {x} /\ active' = active \ {x}
       /\ registry' = Unregistered(x)
       /\ mine' = [mine EXCEPT ![c] = @ \ {x}]
  /\ UNCHANGED <<calls, call, process, ran>>

Calls(c) == Registers(c) \/ CreatesSemaphore(c) \/ CreatesProcess(c) \/ Starts(c) \/ Gives(c)
Runs(x) == Finds(x) \/ Completes(x)
ThreadNext == \/ \E c \in Creator : Calls(c) \/ Joins(c)
              \/ \E x \in Created : Runs(x)

-----------------------------------------------------------------------------

ThreadTypeOK ==
  /\ \A i \in DOMAIN registry : registry[i] \in Created \cup {Empty}
  /\ signalled \cup active \subseteq Created

\* The registry has one slot for each thread being created or not yet joined, and
\* no other: a call that fails half-way or a join gives the slot back, and a
\* thread started finds itself (apr_thread_create, apr_thread_join).
RegistryExact ==
  \A x \in Created :
    Cardinality(Occupied(x)) =
      IF \E c \in Creator : call[c].thread = x \/ x \in mine[c] THEN 1 ELSE 0

\* A thread given to its creator runs its routine and is joined in the end, even
\* if it ends before apr_thread_create returns.
JoinReturns ==
  \A x \in Created : \A c \in Creator : x \in mine[c] ~> x \notin mine[c] /\ x \in ran
=============================================================================
