----------------------------- MODULE LdpTrigger -----------------------------
(***************************************************************************)
(* The periodic trigger of the Unix build, lib/ldp_trigger.c.              *)
(*                                                                         *)
(* The module thread obeys the life cycle.  INITIALIZE creates a thread    *)
(* and a timer for each period, START arms the timers, STOP disarms them,  *)
(* SHUTDOWN and KILL end timers and threads.  A timer, and the module      *)
(* thread that ends a thread, send it the same signal: it stays pending    *)
(* until the thread waits for it, and ends the process when it finds the   *)
(* thread before sigprocmask.                                              *)
(*                                                                         *)
(* A handler is one action up to its loops over the periods, each turn of  *)
(* which is one.  The queue and what a cleaning leaves in it are those of  *)
(* LdpFifoManager.                                                         *)
(***************************************************************************)
EXTENDS Integers, FiniteSets

CONSTANTS
  nb_trigger_event,  \* periods
  NbOperations,      \* NbOperations[e]: events sent at each of them
  MaxTriggerOps      \* bound: life-cycle operations received

Period == 1 .. nb_trigger_event

ASSUME PeriodicAssumption ==
  /\ nb_trigger_event \in Nat \ {0}
  /\ NbOperations \in [Period -> Nat]
  /\ MaxTriggerOps \in Nat

VARIABLES
  trigState,    \* ctx->state
  mstep, turn,  \* the module thread: step, turn of its loop
  killing,      \* does it obey a KILL?
  received,     \* operations received
  thread,       \* per period: step of its thread
  sending,      \*   the next of its operations
  pending,      \*   who has sent it a signal it has not taken
  timer,        \*   "none", "disarmed" or "armed"
  late,         \* turns since its timer was disarmed
  terminated    \* has a signal found a thread before sigprocmask?

modStep == <<mstep, turn, killing, received>>
threadVars == <<thread, sending, late>>
periodicVars == <<trigState, modStep, threadVars, pending, timer, terminated>>

PeriodicInit ==
  /\ trigState = "IDLE" /\ mstep = "idle" /\ turn = 1 /\ killing = FALSE /\ received = 0
  /\ thread = [e \in Period |-> "none"] /\ sending = [e \in Period |-> 1]
  /\ pending = [e \in Period |-> {}] /\ timer = [e \in Period |-> "none"]
  /\ late = [e \in Period |-> 0]
  /\ terminated = FALSE

-----------------------------------------------------------------------------
(* The module thread.  An operation that finds another state is refused.   *)

Obey(step) ==
  /\ mstep = "idle" /\ received < MaxTriggerOps
  /\ received' = received + 1
  /\ mstep' = step
  /\ UNCHANGED <<turn, threadVars, pending, timer, terminated>>

Initialize ==
  /\ trigState = "IDLE" /\ Obey("create") /\ trigState' = "READY" /\ UNCHANGED killing

Start ==
  /\ trigState = "READY" /\ Obey("arm") /\ trigState' = "RUNNING" /\ UNCHANGED killing

Stop ==
  /\ trigState = "RUNNING" /\ Obey("disarm") /\ trigState' = "READY" /\ UNCHANGED killing

Shutdown ==
  /\ trigState # "IDLE" /\ Obey("delete") /\ trigState' = "IDLE" /\ UNCHANGED killing

Kill ==
  /\ Obey(IF trigState # "IDLE" THEN "delete" ELSE "over")
  /\ trigState' = "IDLE"
  /\ killing' = TRUE

\* A turn of the loop of a step; the next step after the last one.
Turn(step, next) ==
  /\ mstep = step
  /\ turn' = IF turn = nb_trigger_event THEN 1 ELSE turn + 1
  /\ mstep' = IF turn = nb_trigger_event THEN next ELSE step
  /\ UNCHANGED <<trigState, killing, received>>

CreateThread ==
  /\ Turn("create", "barrier")
  /\ thread' = [thread EXCEPT ![turn] = "start"]
  /\ UNCHANGED <<sending, late, pending, timer, terminated>>

\* pthread_create or timer_create fails: the module thread returns, and leaves
\* the threads it has created, in the barrier that misses one or with a timer
\* that never starts.
CreateFails ==
  /\ mstep \in {"create", "timers"}
  /\ mstep' = "over"
  /\ UNCHANGED <<trigState, turn, killing, received, threadVars, pending, timer, terminated>>

\* pthread_barrier_wait: the threads of all periods, and the module thread.
Barrier ==
  /\ mstep = "barrier" /\ \A e \in Period : thread[e] = "barrier"
  /\ mstep' = "timers"
  /\ thread' = [e \in Period |-> "mask"]
  /\ UNCHANGED <<trigState, turn, killing, received, sending, late, pending, timer, terminated>>

\* Timers of which the last one is created; ldp_mod_init_notify follows.
CreateTimer ==
  /\ Turn("timers", "idle")
  /\ timer' = [timer EXCEPT ![turn] = "disarmed"]
  /\ UNCHANGED <<threadVars, pending, terminated>>

Arm ==
  /\ Turn("arm", "idle")
  /\ timer' = [timer EXCEPT ![turn] = "armed"]
  /\ late' = [late EXCEPT ![turn] = 0]
  /\ UNCHANGED <<thread, sending, pending, terminated>>

\* A timer that is set or deleted may take back the signal it has sent.
Withdraw(as) ==
  /\ timer' = [timer EXCEPT ![turn] = as]
  /\ \/ UNCHANGED pending
     \/ pending' = [pending EXCEPT ![turn] = @ \ {"timer"}]

Disarm ==
  /\ Turn("disarm", "idle")
  /\ Withdraw("disarmed")
  /\ UNCHANGED <<threadVars, terminated>>

\* stop_trigger: timers, signals, joins.
DeleteTimer ==
  /\ Turn("delete", "signal")
  /\ Withdraw("none")
  /\ UNCHANGED <<threadVars, terminated>>

\* A signal for a thread that has ended is for nobody.
Signalled(e, from) ==
  /\ pending' = [pending EXCEPT ![e] = IF thread[e] = "ended" THEN @ ELSE @ \cup {from}]
  /\ terminated' = (thread[e] = "mask")

KillThread ==
  /\ Turn("signal", "join")
  /\ Signalled(turn, "module")
  /\ UNCHANGED <<threadVars, timer>>

JoinThread ==
  /\ thread[turn] = "ended"
  /\ Turn("join", IF killing THEN "over" ELSE "idle")
  /\ thread' = [thread EXCEPT ![turn] = "none"]
  /\ late' = [late EXCEPT ![turn] = 0]
  /\ UNCHANGED <<sending, pending, timer, terminated>>

ModuleGoesOn ==
  \/ CreateThread \/ Barrier \/ CreateTimer \/ Arm \/ Disarm
  \/ DeleteTimer \/ KillThread \/ JoinThread

-----------------------------------------------------------------------------
(* A timer, and the thread of a period.                                    *)

\* One signal of a timer is queued at a time.
Expires(e) ==
  /\ timer[e] = "armed" /\ "timer" \notin pending[e]
  /\ Signalled(e, "timer")
  /\ UNCHANGED <<trigState, modStep, threadVars, timer>>

Goes(e, from, to) ==
  /\ thread[e] = from
  /\ thread' = [thread EXCEPT ![e] = to]
  /\ UNCHANGED <<trigState, modStep, timer, terminated>>

SavesPid(e) == Goes(e, "start", "barrier") /\ UNCHANGED <<sending, late, pending>>
Masks(e) == Goes(e, "mask", "check") /\ UNCHANGED <<sending, late, pending>>

Checks(e) ==
  \/ /\ trigState # "IDLE"
     /\ Goes(e, "check", "wait")
     /\ UNCHANGED <<sending, late, pending>>
  \/ /\ trigState = "IDLE"
     /\ Goes(e, "check", "ended")
     /\ pending' = [pending EXCEPT ![e] = {}]
     /\ UNCHANGED <<sending, late>>

\* sigwait.
Waits(e) ==
  \E from \in pending[e] :
    /\ Goes(e, "wait", "send")
    /\ pending' = [pending EXCEPT ![e] = @ \ {from}]
    /\ sending' = [sending EXCEPT ![e] = 1]
    /\ late' = [late EXCEPT ![e] = IF timer[e] = "armed" THEN 0 ELSE @ + 1]

Sends(e) ==
  \/ /\ sending[e] <= NbOperations[e] /\ trigState # "IDLE"
     /\ Goes(e, "send", "send")
     /\ sending' = [sending EXCEPT ![e] = @ + 1]
     /\ UNCHANGED <<late, pending>>
  \/ /\ sending[e] > NbOperations[e] \/ trigState = "IDLE"
     /\ Goes(e, "send", "check")
     /\ UNCHANGED <<sending, late, pending>>

PeriodThread(e) == SavesPid(e) \/ Masks(e) \/ Checks(e) \/ Waits(e) \/ Sends(e)

PeriodicNext ==
  /\ ~terminated
  /\ \/ Initialize \/ Start \/ Stop \/ Shutdown \/ Kill
     \/ CreateFails \/ ModuleGoesOn
     \/ \E e \in Period : Expires(e) \/ PeriodThread(e)

-----------------------------------------------------------------------------
PeriodicTypeOK ==
  /\ trigState \in {"IDLE", "READY", "RUNNING"} /\ turn \in Period /\ received \in 0..MaxTriggerOps
  /\ mstep \in {"idle", "create", "barrier", "timers", "arm", "disarm", "delete", "signal",
                "join", "over"}
  /\ thread \in [Period -> {"none", "start", "barrier", "mask", "check", "wait", "send", "ended"}]
  /\ pending \in [Period -> SUBSET {"timer", "module"}]
  /\ timer \in [Period -> {"none", "disarmed", "armed"}]

\* Signals stay pending, and the handlers do not wait for the threads: a
\* stopped period still has a turn for the signal its timer had sent, and no
\* other (ldp_stop_timer); a trigger that is shut down has no thread left, for
\* the next INITIALIZE to create them anew (stop_trigger).
PeriodicSilent ==
  /\ \A e \in Period : trigState = "READY" => late[e] <= 1
  /\ mstep = "idle" /\ trigState = "IDLE" =>
       \A e \in Period : thread[e] = "none" /\ timer[e] = "none" /\ pending[e] = {}

\* The join of a thread comes to its end: the signal that ends it is not lost,
\* even if the thread has tested the state and does not wait yet.
PeriodicStops == mstep = "delete" ~> mstep \in {"idle", "over"} \/ terminated

\* A trigger that stays RUNNING sends at each of its periods, again and again.
PeriodicSends ==
  \A e \in Period :
    <>[](trigState = "RUNNING" /\ mstep = "idle" /\ ~terminated) => []<>(thread[e] = "send")
=============================================================================
