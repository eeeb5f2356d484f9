------------------------------ MODULE ApexCond ------------------------------
(***************************************************************************)
(* Condition variables of the APR implementation over APEX                 *)
(* (apr_thread_cond.c), made of a counting semaphore and the caller's       *)
(* mutex.  They are used here as everywhere in the library: a thread waits  *)
(* in a loop for items, and who adds one signals with the mutex held        *)
(* (ldp_fifo_manager.c, ldp_dynamic_trigger.c, ldp_mod_container_util.c).   *)
(***************************************************************************)
EXTENDS Naturals, Sequences, FiniteSets, SequencesExt, FiniteSetsExt

CONSTANTS
  Waiter,    \* threads that wait
  Timed,     \* those that wait for a time
  MaxItems,  \* items added in a behaviour
  Nobody

ASSUME CondAssumption ==
  /\ IsFiniteSet(Waiter) /\ Timed \subseteq Waiter
  /\ MaxItems \in Nat /\ Nobody \notin Waiter

VARIABLES
  overlong,  \* whether a timeout may be too long to be converted
  holder,    \* of the mutex
  waiters, pending_signals,
  tokens,    \* value of the semaphore
  blocked,   \* threads in the semaphore, first in first out
  at,        \* of a thread: "out", "locked", "waits", "blocked", "woken", "expired", "done"
  added, items, stopped

condVars == <<overlong, holder, waiters, pending_signals, tokens, blocked, at, added, items, stopped>>

CondInit ==
  /\ overlong \in BOOLEAN
  /\ holder = Nobody /\ waiters = 0 /\ pending_signals = 0 /\ tokens = 0 /\ blocked = <<>>
  /\ at = [t \in Waiter |-> "out"] /\ added = 0 /\ items = 0 /\ stopped = FALSE

-----------------------------------------------------------------------------
(* A thread that waits.                                                    *)

\* apex_apr_thread_mutex_lock, apex_apr_thread_mutex_unlock
Locks(t) == holder = Nobody /\ holder' = t
Unlocks(t) == holder = t /\ holder' = Nobody

Now(t, where) == at' = [at EXCEPT ![t] = where]

Lock(t) ==
  /\ at[t] = "out" /\ Locks(t) /\ Now(t, "locked")
  /\ UNCHANGED <<overlong, waiters, pending_signals, tokens, blocked, added, items, stopped>>

\* An item taken, or the end.
Leave(t) ==
  /\ at[t] = "locked" /\ Unlocks(t)
  /\ \/ items > 0 /\ items' = items - 1 /\ Now(t, "out")
     \/ items = 0 /\ stopped /\ Now(t, "done") /\ UNCHANGED items
  /\ UNCHANGED <<overlong, waiters, pending_signals, tokens, blocked, added, stopped>>

\* apex_apr_cond_wait_internal, up to the release of the mutex.
Wait(t) ==
  /\ at[t] = "locked" /\ items = 0 /\ ~stopped
  /\ waiters' = waiters + 1
  /\ Unlocks(t) /\ Now(t, "waits")
  /\ UNCHANGED <<overlong, pending_signals, tokens, blocked, added, items, stopped>>

\* WAIT_SEMAPHORE: a token that is there, or the queue.
WaitSemaphore(t) ==
  /\ at[t] = "waits"
  /\ \/ /\ tokens > 0
        /\ tokens' = tokens - 1 /\ Now(t, "woken") /\ UNCHANGED blocked
     \/ /\ tokens = 0
        /\ blocked' = Append(blocked, t) /\ Now(t, "blocked") /\ UNCHANGED tokens
  /\ UNCHANGED <<overlong, holder, waiters, pending_signals, added, items, stopped>>

\* The time is over, at once for a timeout of 0.
TimesOut(t) ==
  /\ t \in Timed
  /\ \/ at[t] = "waits" /\ tokens = 0 /\ UNCHANGED blocked
     \/ /\ at[t] = "blocked"
        /\ \E i \in DOMAIN blocked : blocked[i] = t /\ blocked' = RemoveAt(blocked, i)
  /\ Now(t, "expired")
  /\ UNCHANGED <<overlong, holder, waiters, pending_signals, tokens, added, items, stopped>>

Woken(t) == at[t] = "woken"

\* A signal raced the end of the wait, and its token is nobody else's.
Discards_Never == FALSE
Discards == pending_signals > waiters - 1 /\ tokens > 0

\* The end of apex_apr_cond_wait_internal, with the mutex again.
Relock(t) ==
  /\ at[t] \in {"woken", "expired"}
  /\ Locks(t) /\ Now(t, "locked")
  /\ waiters' = waiters - 1
  /\ \/ /\ Woken(t) /\ UNCHANGED tokens
        /\ pending_signals' = IF pending_signals > 0 THEN pending_signals - 1 ELSE 0
     \/ /\ ~Woken(t) /\ Discards
        /\ tokens' = tokens - 1 /\ pending_signals' = pending_signals - 1
     \/ /\ ~Woken(t) /\ ~Discards /\ UNCHANGED <<tokens, pending_signals>>
  /\ UNCHANGED <<overlong, blocked, added, items, stopped>>

\* A timeout that cannot be converted: the wait is given up, whatever was signalled.
GivesUp(t) ==
  /\ overlong /\ t \in Timed /\ at[t] = "waits"
  /\ Locks(t) /\ Now(t, "locked")
  /\ waiters' = waiters - 1
  /\ UNCHANGED <<overlong, pending_signals, tokens, blocked, added, items, stopped>>

-----------------------------------------------------------------------------
(* Who signals.                                                            *)

\* SIGNAL_SEMAPHORE n times: the first threads of the queue go on, and the
\* tokens that are left stay in the semaphore.
SignalSemaphore(n) ==
  LET given == Min({n, Len(blocked)})
      first == ToSet(SubSeq(blocked, 1, given)) IN
    /\ blocked' = SubSeq(blocked, given + 1, Len(blocked))
    /\ at' = [t \in Waiter |-> IF t \in first THEN "woken" ELSE at[t]]
    /\ tokens' = tokens + n - given

Signals_Blocked == IF Len(blocked) > 0 THEN 1 ELSE 0
Signals == IF waiters <= pending_signals THEN 0 ELSE 1

\* An item is added, and apex_apr_thread_cond_signal.
Add ==
  /\ added < MaxItems /\ ~stopped /\ holder = Nobody
  /\ added' = added + 1 /\ items' = items + 1
  /\ SignalSemaphore(Signals) /\ pending_signals' = pending_signals + Signals
  /\ UNCHANGED <<overlong, holder, waiters, stopped>>

\* The subtraction of the code is unsigned: it wraps when pending signals exceed
\* the waiters, which the guard leaves out.
Stop ==
  /\ ~stopped /\ holder = Nobody /\ waiters >= pending_signals
  /\ stopped' = TRUE
  /\ SignalSemaphore(waiters - pending_signals) /\ pending_signals' = waiters
  /\ UNCHANGED <<overlong, holder, waiters, added, items>>

Steps(t) == Lock(t) \/ Leave(t) \/ Wait(t) \/ WaitSemaphore(t) \/ Relock(t)
CondNext == Add \/ Stop \/ \E t \in Waiter : Steps(t) \/ TimesOut(t) \/ GivesUp(t)
CondSpec == CondInit /\ [][CondNext]_condVars

-----------------------------------------------------------------------------

Inside(t) == at[t] \in {"waits", "blocked", "woken", "expired"}

CondTypeOK ==
  /\ holder \in Waiter \cup {Nobody} /\ ToSet(blocked) \subseteq Waiter
  /\ waiters \in 0..Cardinality(Waiter) /\ tokens \in Nat /\ pending_signals \in Nat

\* Every pending signal is a token in the semaphore or a thread that took one
\* and has not yet the mutex, and there are never more than threads that wait: a
\* stale token would end the wait of a later thread, and apr_thread_cond_broadcast
\* would compute a negative number.
CondTokens ==
  ~overlong =>
    /\ waiters = Cardinality({t \in Waiter : Inside(t)})
    /\ pending_signals = tokens + Cardinality({t \in Waiter : Woken(t)})
    /\ pending_signals <= waiters

\* No wakeup is lost: what is added is taken in the end, and all threads end when
\* told to, whatever waits time out meanwhile (cond_signal, cond_broadcast).
CondServes ==
  ~overlong => []<>(items = 0) /\ (stopped ~> \A t \in Waiter : at[t] = "done")
=============================================================================
