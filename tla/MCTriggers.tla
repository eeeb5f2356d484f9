----------------------------- MODULE MCTriggers -----------------------------
(***************************************************************************)
(* The triggers for TLC: a behaviour is of the dynamic trigger, of the     *)
(* periodic trigger of the Unix build or of that over APEX; the others     *)
(* keep their initial states.                                              *)
(***************************************************************************)
EXTENDS LdpDynTrigger, LdpTrigger, ApexTrigger

CONSTANT Parts

VARIABLE part

StopOps == {"INITIALIZE", "START", "STOP"}
AllOps == Lifecycle \cup {"set", "reset"}
MCOperations == <<1, 2>>

triggerVars == <<part, vars, periodicVars, apexVars>>

MCInit == part \in Parts /\ Init /\ PeriodicInit /\ ApexInit

Dynamic == part = "dynamic" /\ UNCHANGED <<part, periodicVars, apexVars>>
Periodic == part = "periodic" /\ UNCHANGED <<part, vars, apexVars>>
Apex == part = "apex" /\ UNCHANGED <<part, vars, periodicVars>>

MCNext ==
  \/ Dynamic /\ Next
  \/ Periodic /\ PeriodicNext
  \/ Apex /\ ApexNext

\* Threads that can run do run, and time goes on: dates pass and timers expire.
\* Nothing makes an operation arrive, a call fail or a wait end for no reason.
MCFairness ==
  /\ WF_triggerVars(Dynamic /\ fault = "none" /\ ModuleStep)
  /\ WF_triggerVars(Dynamic /\ fault = "none" /\ Trigger)
  /\ WF_triggerVars(Dynamic /\ fault = "none" /\ Tick)
  /\ WF_triggerVars(Periodic /\ ~terminated /\ ModuleGoesOn)
  /\ \A e \in Period : /\ WF_triggerVars(Periodic /\ ~terminated /\ PeriodThread(e))
                       /\ WF_triggerVars(Periodic /\ ~terminated /\ Expires(e))
  /\ WF_triggerVars(Apex /\ ApexGoesOn)
  /\ \A e \in Timing : WF_triggerVars(Apex /\ EventThread(e))

MCSpec == MCInit /\ [][MCNext]_triggerVars /\ MCFairness
-----------------------------------------------------------------------------
\* An event of a dynamic trigger is sent once; a periodic trigger that was
\* stopped falls silent, and leaves no thread behind that would send what the
\* next one sends.
TriggersSendOnce ==
  /\ PeriodicTypeOK /\ ApexTypeOK
  /\ SentOnce
  /\ PeriodicSilent
  /\ ApexSilent

\* STOP, SHUTDOWN and KILL of a periodic trigger come back.
PeriodicTriggersStop == PeriodicStops /\ ApexStops

\* What a trigger has to send is sent in the end: an event of a dynamic trigger
\* unless a reset or a stop intervenes, those of a periodic one at each period
\* as long as it is RUNNING.
EventsAreSent ==
  /\ EventIsSent
  /\ part = "periodic" => PeriodicSends
  /\ part = "apex" => ApexSends
=============================================================================
