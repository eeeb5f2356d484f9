---------------------------- MODULE LdpDynTrigger ----------------------------
(***************************************************************************)
(* The dynamic trigger, lib/ldp_dynamic_trigger.c: events that are sent    *)
(* after a delay.                                                          *)
(*                                                                         *)
(* The module thread takes operations from its queue: the life cycle, an   *)
(* event to send later, a reset.  The trigger thread, created by START and *)
(* joined by STOP, SHUTDOWN and KILL, sleeps until the earliest date and   *)
(* sends what is due.  The table of events is shared; the mutex protects   *)
(* only the scan that precedes the wait, and the signals.                  *)
(*                                                                         *)
(* The scan and the wait, between which the trigger thread keeps the mutex *)
(* and after which every writer of the table signals, are one action; any  *)
(* other access to shared state is an action of its own.                   *)
(***************************************************************************)
EXTENDS Integers, FiniteSetsExt

CONSTANTS
  MaxEvents,  \* max_event_nb: the slots of trigger_event_tab
  Delays,     \* the delays of events
  Ops,        \* the operations the module thread receives
  MaxOps,     \* bound: how many of them
  MaxTime,    \* bound: the last date
  Prompt      \* does a date never pass while an event is being set?

Lifecycle == {"INITIALIZE", "START", "STOP", "SHUTDOWN", "KILL"}

ASSUME TriggerAssumption ==
  /\ MaxEvents \in Nat \ {0} /\ MaxOps \in Nat /\ MaxTime \in Nat
  /\ Delays \subseteq Nat
  /\ Ops \subseteq Lifecycle \cup {"set", "reset"}
  /\ Prompt \in BOOLEAN

Slot == 1 .. MaxEvents
Event == 1 .. MaxOps
NoEvent == 0
Time == 0 .. MaxTime
TIME_INFINITY == MaxTime + 1

VARIABLES
  now,
  is_set, expiration_date, parameters, handler,  \* trigger_event_tab
  state,        \* ctx->state
  mpc, mop, mslot,  \* the module thread: step, operation, slot
  tid0,         \* its handle: "none", "live" or "joined"
  tpc, tslot,   \* the trigger thread: step, slot
  timeout, current_time,  \* its locals
  taken,        \* the operations taken so far
  disturbed,    \* has a reset or a stop been among them?
  due, sent,    \* per event: its date, how often and when last it was sent
  fault         \* undefined behaviour met, "none" so far

tabVars == <<is_set, expiration_date, parameters, handler>>
modVars == <<mpc, mop, mslot>>
trigVars == <<tpc, tslot, timeout, current_time>>
inputVars == <<taken, disturbed>>
eventVars == <<due, sent>>
vars == <<now, tabVars, state, modVars, tid0, trigVars, inputVars,
          eventVars, fault>>

NotSent == [times |-> 0, at |-> 0]

(* ldp_init_dynamic_trigger, at the start of the module thread. *)
Init ==
  /\ now = 0
  /\ is_set = [s \in Slot |-> FALSE]
  /\ expiration_date = [s \in Slot |-> TIME_INFINITY]
  /\ parameters = [s \in Slot |-> NoEvent]
  /\ handler = [s \in Slot |-> FALSE]
  /\ state = "IDLE"
  /\ mpc = "idle" /\ mop = "none" /\ mslot = 1
  /\ tid0 = "none"
  /\ tpc = "ended" /\ tslot = 1 /\ timeout = TIME_INFINITY /\ current_time = 0
  /\ taken = 0 /\ disturbed = FALSE
  /\ due = [e \in Event |-> TIME_INFINITY]
  /\ sent = [e \in Event |-> NotSent]
  /\ fault = "none"
-----------------------------------------------------------------------------
(* The module thread.  An operation refused in the current state changes   *)
(* nothing.                                                                *)

Take(o, step, s) ==
  /\ mpc = "idle" /\ o \in Ops /\ taken < MaxOps
  /\ taken' = taken + 1
  /\ disturbed' = (disturbed \/ o \in {"STOP", "SHUTDOWN", "KILL", "reset"})
  /\ mop' = o
  /\ mpc' = step
  /\ mslot' = s

initialize_life ==
  /\ state = "IDLE"
  /\ Take("INITIALIZE", "clear", 1)
  /\ UNCHANGED <<now, tabVars, state, tid0, trigVars, eventVars, fault>>

start_life ==
  /\ state = "READY"
  /\ Take("START", "idle", 1)
  /\ state' = "RUNNING"
  /\ tid0' = "live"
  /\ tpc' = "check"
  /\ UNCHANGED <<now, tabVars, tslot, timeout, current_time, eventVars, fault>>

stop_life ==
  /\ state = "RUNNING"
  /\ Take("STOP", "stop", 1)
  /\ state' = "READY"
  /\ UNCHANGED <<now, tabVars, tid0, trigVars, eventVars, fault>>

shutdown_life ==
  /\ state # "IDLE"
  /\ Take("SHUTDOWN", "stop", 1)
  /\ state' = "IDLE"
  /\ UNCHANGED <<now, tabVars, tid0, trigVars, eventVars, fault>>

kill_life ==
  /\ Take("KILL", IF state = "IDLE" THEN "over" ELSE "stop", 1)
  /\ UNCHANGED <<now, tabVars, state, tid0, trigVars, eventVars, fault>>

reset ==
  /\ state = "RUNNING"
  /\ Take("reset", "clear", 1)
  /\ UNCHANGED <<now, tabVars, state, tid0, trigVars, eventVars, fault>>

(* stop_trigger_thread, up to its call of ldp_reset_dynamic_trigger. *)
stop_trigger_thread ==
  /\ mpc = "stop"
  /\ state' = "IDLE"
  /\ mpc' = "clear"
  /\ UNCHANGED <<now, tabVars, mop, mslot, tid0, trigVars, inputVars, eventVars, fault>>

(* A slot is written without the mutex. *)
Cleared(s) ==
  /\ is_set' = [is_set EXCEPT ![s] = FALSE]
  /\ expiration_date' = [expiration_date EXCEPT ![s] = TIME_INFINITY]

ClearSlot ==
  /\ mpc = "clear"
  /\ Cleared(mslot)
  /\ mslot' = IF mslot = MaxEvents THEN 1 ELSE mslot + 1
  /\ mpc' = IF mslot = MaxEvents THEN "signal" ELSE "clear"
  /\ UNCHANGED <<now, parameters, handler, state, mop, tid0, trigVars, inputVars, eventVars, fault>>

(* lock, signal, unlock (and, as a slip, without the signal). *)
Woken_Lost == tpc
Woken == IF tpc = "waiting" THEN "woken" ELSE tpc

Signal ==
  /\ mpc = "signal"
  /\ tpc' = Woken
  /\ state' = IF mop = "INITIALIZE" THEN "READY" ELSE state
  /\ mpc' = IF mop \in {"STOP", "SHUTDOWN", "KILL"} THEN "join" ELSE "idle"
  /\ UNCHANGED <<now, tabVars, mop, mslot, tid0, tslot, timeout, current_time, inputVars,
                 eventVars, fault>>

(* apr_thread_join; the handle may be the one of no thread, or of a thread  *)
(* that was joined before.  SHUTDOWN then clears the table again.           *)
Joinable == tpc = "ended"

Join ==
  /\ mpc = "join"
  /\ \/ /\ tid0 # "live"
        /\ fault' = "join_without_thread"
        /\ UNCHANGED <<tabVars, mpc, tid0>>
     \/ /\ tid0 = "live" /\ Joinable
        /\ tid0' = "joined"
        /\ mpc' = IF mop = "KILL" THEN "over" ELSE "idle"
        /\ IF mop = "SHUTDOWN"
           THEN /\ is_set' = [s \in Slot |-> FALSE]
                /\ expiration_date' = [s \in Slot |-> TIME_INFINITY]
           ELSE UNCHANGED <<is_set, expiration_date>>
        /\ UNCHANGED <<parameters, handler, fault>>
  /\ UNCHANGED <<now, state, mop, mslot, trigVars, inputVars, eventVars>>

(* ldp_set_dynamic_trigger: date and parameters, is_set, handler, signal.   *)
(* Without a free slot it returns LDP_ERROR and changes nothing.            *)
FreeSlots_All == Slot
FreeSlots == {s \in Slot : ~is_set[s]}

SetDate(d) ==
  LET e == taken + 1
      s == Min(FreeSlots) IN
  /\ state = "RUNNING"
  /\ FreeSlots # {}
  /\ now + d < MaxTime
  /\ Take("set", "publish", s)
  /\ expiration_date' = [expiration_date EXCEPT ![s] = now + d]
  /\ parameters' = [parameters EXCEPT ![s] = e]
  /\ due' = [due EXCEPT ![e] = now + d]
  /\ UNCHANGED <<now, is_set, handler, state, tid0, trigVars, sent, fault>>

Publish ==
  /\ mpc = "publish"
  /\ is_set' = [is_set EXCEPT ![mslot] = TRUE]
  /\ mpc' = "handler"
  /\ UNCHANGED <<now, expiration_date, parameters, handler, state, mop, mslot, tid0,
                 trigVars, inputVars, eventVars, fault>>

SetHandler ==
  /\ mpc = "handler"
  /\ handler' = [handler EXCEPT ![mslot] = TRUE]
  /\ mpc' = "signal"
  /\ UNCHANGED <<now, is_set, expiration_date, parameters, state, mop, mslot, tid0,
                 trigVars, inputVars, eventVars, fault>>
-----------------------------------------------------------------------------
(* The trigger thread.                                                     *)

(* while(ctx->state == RUNNING), without the mutex. *)
CheckRunning ==
  /\ tpc = "check"
  /\ tpc' = IF state = "RUNNING" THEN "scan" ELSE "ended"
  /\ UNCHANGED <<now, tabVars, state, modVars, tid0, tslot, timeout, current_time,
                 inputVars, eventVars, fault>>

Earliest_Latest == Max({0} \cup {expiration_date[s] : s \in {i \in Slot : is_set[i]}})
Earliest == Min({TIME_INFINITY} \cup {expiration_date[s] : s \in {i \in Slot : is_set[i]}})

ScanAndWait ==
  /\ tpc = "scan"
  /\ timeout' = Earliest
  /\ tpc' = "waiting"
  /\ UNCHANGED <<now, tabVars, state, modVars, tid0, tslot, current_time, inputVars,
                 eventVars, fault>>

TimeUp ==
  /\ tpc = "waiting"
  /\ timeout # TIME_INFINITY /\ timeout <= now
  /\ tpc' = "woken"
  /\ UNCHANGED <<now, tabVars, state, modVars, tid0, tslot, timeout, current_time,
                 inputVars, eventVars, fault>>

SpuriousWakeup ==
  /\ tpc = "waiting"
  /\ tpc' = "woken"
  /\ UNCHANGED <<now, tabVars, state, modVars, tid0, tslot, timeout, current_time,
                 inputVars, eventVars, fault>>

GetTime ==
  /\ tpc = "woken"
  /\ current_time' = now
  /\ tslot' = 1
  /\ tpc' = "look"
  /\ UNCHANGED <<now, tabVars, state, modVars, tid0, timeout, inputVars, eventVars, fault>>

(* ldp_time_cmp returns 1 for equal dates: an event is due when its date is *)
(* over.                                                                    *)
Due(s) == is_set[s] /\ expiration_date[s] < current_time

NextSlot ==
  /\ tslot' = IF tslot = MaxEvents THEN 1 ELSE tslot + 1
  /\ tpc' = IF tslot = MaxEvents THEN "check" ELSE "look"

Look ==
  /\ tpc = "look"
  /\ IF Due(tslot) THEN tpc' = "send" /\ UNCHANGED tslot ELSE NextSlot
  /\ UNCHANGED <<now, tabVars, state, modVars, tid0, timeout, current_time, inputVars,
                 eventVars, fault>>

(* The call of the handler, with the parameters the slot has by then. *)
Send ==
  LET e == parameters[tslot] IN
  /\ tpc = "send"
  /\ \/ /\ ~handler[tslot]
        /\ fault' = "call_of_NULL"
        /\ UNCHANGED <<tpc, sent>>
     \/ /\ handler[tslot]
        /\ sent' = [sent EXCEPT ![e] = [times |-> @.times + 1, at |-> now]]
        /\ tpc' = "unset"
        /\ UNCHANGED fault
  /\ UNCHANGED <<now, tabVars, state, modVars, tid0, tslot, timeout, current_time, inputVars, due>>

Unset_DateOnly(s) ==
  /\ expiration_date' = [expiration_date EXCEPT ![s] = current_time]
  /\ UNCHANGED is_set
Unset(s) == Cleared(s)

ClearSent ==
  /\ tpc = "unset"
  /\ Unset(tslot)
  /\ NextSlot
  /\ UNCHANGED <<now, parameters, handler, state, modVars, tid0, timeout, current_time,
                 inputVars, eventVars, fault>>
-----------------------------------------------------------------------------
Tick ==
  /\ now < MaxTime
  /\ Prompt => mpc \notin {"publish", "handler"}
  /\ now' = now + 1
  /\ UNCHANGED <<tabVars, state, modVars, tid0, trigVars, inputVars, eventVars, fault>>

(* What the module thread does once it has taken an operation. *)
ModuleStep ==
  stop_trigger_thread \/ ClearSlot \/ Signal \/ Join \/ Publish \/ SetHandler

Module ==
  \/ initialize_life \/ start_life \/ stop_life \/ shutdown_life \/ kill_life
  \/ reset \/ \E d \in Delays : SetDate(d)
  \/ ModuleStep

Trigger ==
  CheckRunning \/ ScanAndWait \/ TimeUp \/ GetTime \/ Look \/ Send \/ ClearSent

Next == fault = "none" /\ (Module \/ Trigger \/ SpuriousWakeup \/ Tick)
Spec == Init /\ [][Next]_vars

(* Threads that can run do run, and time goes on.  Nothing makes an         *)
(* operation arrive, nor a wait end for no reason.                          *)
Fairness ==
  /\ WF_vars(fault = "none" /\ ModuleStep)
  /\ WF_vars(fault = "none" /\ Trigger)
  /\ WF_vars(fault = "none" /\ Tick)

FairSpec == Spec /\ Fairness
-----------------------------------------------------------------------------
(* Type correctness. *)
TypeOK ==
  /\ now \in Time
  /\ is_set \in [Slot -> BOOLEAN] /\ handler \in [Slot -> BOOLEAN]
  /\ expiration_date \in [Slot -> Time \cup {TIME_INFINITY}]
  /\ parameters \in [Slot -> Event \cup {NoEvent}]
  /\ state \in {"IDLE", "READY", "RUNNING"}
  /\ mpc \in {"idle", "clear", "stop", "signal", "join", "publish", "handler", "over"}
  /\ mop \in Ops \cup {"none"} /\ mslot \in Slot
  /\ tid0 \in {"none", "live", "joined"}
  /\ tpc \in {"ended", "check", "scan", "waiting", "woken", "look", "send", "unset"}
  /\ tslot \in Slot
  /\ timeout \in Time \cup {TIME_INFINITY} /\ current_time \in Time
  /\ taken \in 0 .. MaxOps /\ disturbed \in BOOLEAN
  /\ due \in [Event -> Time \cup {TIME_INFINITY}]
  /\ sent \in [Event -> [times : Nat, at : Time]]
  /\ fault \in {"none", "join_without_thread", "call_of_NULL"}

(* START, after any sequence of life-cycle operations, finds the former     *)
(* trigger thread ended: two of them never share the table.                 *)
OneTriggerThread == (mpc = "idle" /\ state = "READY") => tpc = "ended"

(* The trigger thread writes a slot it no longer owns when a reset and a    *)
(* set come in between, and a slot is published before its handler is       *)
(* written: even then every event is sent by the one trigger thread there   *)
(* is, through a handler that is there, and none twice.                     *)
SentOnce ==
  /\ TypeOK
  /\ OneTriggerThread
  /\ fault # "call_of_NULL"
  /\ \A e \in Event : sent[e].times <= 1

(* The trigger thread never sleeps past the date of an event that is set,   *)
(* unless the module thread is on its way to the signal.                    *)
NoOversleep ==
  tpc = "waiting" =>
    \A s \in Slot :
      is_set[s] /\ expiration_date[s] < timeout => mpc \in {"handler", "signal"}

(* As long as nobody resets or stops the trigger, no event is sent before   *)
(* its date: the slot that the trigger thread is about to send, and still   *)
(* has to clear, is not given to another event.                             *)
NeverEarly ==
  ~disturbed => \A e \in Event : sent[e].times > 0 => sent[e].at > due[e]

(* Every event that was set is sent, unless a reset or a stop intervenes.   *)
EventIsSent ==
  \A e \in Event :
    (due[e] # TIME_INFINITY) ~> (sent[e].times > 0 \/ disturbed)

(* stop_trigger_thread: "stop trigger thread", "wait thread".  So a STOP,   *)
(* SHUTDOWN or KILL that joins the trigger thread comes back.               *)
StopReturns == (mpc = "join") ~> (mpc # "join" \/ fault # "none")
=============================================================================
