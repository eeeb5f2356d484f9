---------------------------- MODULE ApexTrigger ----------------------------
(***************************************************************************)
(* The periodic trigger over APEX, lib/apex/ldp_trigger.c.  START creates  *)
(* a thread for each period, which sleeps and sends as long as the trigger *)
(* is RUNNING; STOP, SHUTDOWN and KILL write the state and join them.      *)
(***************************************************************************)
EXTENDS Integers

CONSTANTS
  NbEvents,          \* nb_trigger_event: periods
  MaxApexOps         \* bound: life-cycle operations received

Timing == 1 .. NbEvents

ASSUME ApexTriggerAssumption == NbEvents \in Nat \ {0} /\ MaxApexOps \in Nat

VARIABLES
  apexState,       \* ctx->state
  astep, joined,   \* the module thread: "idle", "start", "join" or "over", its turn
  after,           \* the state it ends in when all are joined
  obeyed,          \* operations received
  event_threads    \* per period: "none", "check", "sleep", "awake", "send", "ended"

apexModule == <<astep, joined, after, obeyed>>
apexVars == <<apexState, apexModule, event_threads>>

ApexInit ==
  /\ apexState = "IDLE" /\ astep = "idle" /\ joined = 1 /\ after = "IDLE" /\ obeyed = 0
  /\ event_threads = [e \in Timing |-> "none"]

ApexObey(to, step, end) ==
  /\ astep = "idle" /\ obeyed < MaxApexOps
  /\ obeyed' = obeyed + 1
  /\ apexState' = to /\ astep' = step /\ after' = end
  /\ UNCHANGED <<joined, event_threads>>

ApexInitialize == apexState = "IDLE" /\ ApexObey("READY", "idle", "READY")
ApexStart == apexState = "READY" /\ ApexObey("RUNNING", "start", "RUNNING")

\* The state the threads are joined in, before the one the handler ends in.
Joining_Unstopped == "RUNNING"
Joining == "READY"

ApexStop == apexState = "RUNNING" /\ ApexObey(Joining, "join", "READY")
ApexShutdown == IF apexState = "RUNNING" THEN ApexObey(Joining, "join", "IDLE")
                                         ELSE ApexObey("IDLE", "idle", "IDLE")
ApexKill == IF apexState = "RUNNING" THEN ApexObey(Joining, "join", "over")
                                     ELSE ApexObey("IDLE", "over", "IDLE")

\* apex_ldp_trigger_start_events; a thread that cannot be created makes the
\* module thread join those that were.
StartEvent ==
  /\ astep = "start"
  /\ \/ /\ event_threads' = [event_threads EXCEPT ![joined] = "check"]
        /\ joined' = IF joined = NbEvents THEN 1 ELSE joined + 1
        /\ astep' = IF joined = NbEvents THEN "idle" ELSE "start"
        /\ UNCHANGED <<apexState, after>>
     \/ /\ apexState' = Joining /\ astep' = "join" /\ after' = "READY" /\ joined' = 1
        /\ UNCHANGED event_threads
  /\ UNCHANGED obeyed

\* apex_ldp_trigger_stop_events.
JoinEvent ==
  /\ astep = "join" /\ event_threads[joined] \in {"none", "ended"}
  /\ event_threads' = [event_threads EXCEPT ![joined] = "none"]
  /\ IF joined < NbEvents
     THEN joined' = joined + 1 /\ UNCHANGED <<apexState, astep>>
     ELSE /\ joined' = 1
          /\ apexState' = IF after = "READY" THEN "READY" ELSE "IDLE"
          /\ astep' = IF after = "over" THEN "over" ELSE "idle"
  /\ UNCHANGED <<after, obeyed>>

ApexGoesOn == StartEvent \/ JoinEvent

Moves(e, from, to) ==
  /\ event_threads[e] = from
  /\ event_threads' = [event_threads EXCEPT ![e] = to]
  /\ UNCHANGED <<apexState, apexModule>>

\* apex_ldp_trigger_event.
EventThread(e) ==
  \/ Moves(e, "check", IF apexState = "RUNNING" THEN "sleep" ELSE "ended")
  \/ Moves(e, "sleep", "awake")
  \/ Moves(e, "awake", IF apexState = "RUNNING" THEN "send" ELSE "ended")
  \/ Moves(e, "send", "check")

ApexNext ==
  \/ ApexInitialize \/ ApexStart \/ ApexStop \/ ApexShutdown \/ ApexKill \/ ApexGoesOn
  \/ \E e \in Timing : EventThread(e)

-----------------------------------------------------------------------------
ApexTypeOK ==
  /\ apexState \in {"IDLE", "READY", "RUNNING"} /\ after \in {"IDLE", "READY", "RUNNING", "over"}
  /\ astep \in {"idle", "start", "join", "over"} /\ joined \in Timing /\ obeyed \in 0..MaxApexOps
  /\ event_threads \in [Timing -> {"none", "check", "sleep", "awake", "send", "ended"}]

\* Between two operations a trigger that is not RUNNING has no thread, one that
\* is has all of them and none has ended: nothing is sent after a STOP, and
\* START never finds a thread of the START before (apex_ldp_trigger_stop_events).
ApexSilent ==
  astep = "idle" =>
    \A e \in Timing : event_threads[e] \in
      (IF apexState = "RUNNING" THEN {"check", "sleep", "awake", "send"} ELSE {"none"})

\* The joins come to their end, whatever the threads were doing.
ApexStops == astep = "join" ~> astep \in {"idle", "over"}

\* A trigger that stays RUNNING sends at each of its periods, again and again.
ApexSends ==
  \A e \in Timing : <>[](apexState = "RUNNING" /\ astep = "idle") => []<>(event_threads[e] = "send")
=============================================================================
