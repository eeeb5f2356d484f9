-------------------------- MODULE MCTriggersProofs --------------------------
(***************************************************************************)
(* Proofs about the triggers.  The dynamic one, for any size of its table, *)
(* any delays and any number of operations: its thread never sleeps past a *)
(* date, sends nothing twice and, undisturbed, nothing early.  The         *)
(* periodic ones of both builds, for any number of periods and operations, *)
(* and the three together: a trigger that was stopped falls silent and     *)
(* leaves no thread behind.                                                *)
(***************************************************************************)
EXTENDS MCTriggers, FiniteSetTheorems, TLAPS

(* What the module thread is doing, by its step, and in which state.  Only  *)
(* while the trigger is RUNNING, or being stopped, may there be a thread.   *)
Lives ==
  /\ mpc = "idle" /\ state # "RUNNING" => tpc = "ended"
  /\ mpc \in {"clear", "signal"} /\ mop = "INITIALIZE" => tpc = "ended"
  /\ mpc \in {"clear", "signal"} => mop \in {"INITIALIZE", "reset", "set", "STOP", "SHUTDOWN", "KILL"}
  /\ mpc = "clear" => mop # "set"
  /\ mpc \in {"clear", "signal"} /\ mop \in {"reset", "set"} => state = "RUNNING"
  /\ mpc \in {"publish", "handler"} => mop = "set" /\ state = "RUNNING"
  /\ mpc \in {"stop", "join"} => mop \in {"STOP", "SHUTDOWN", "KILL"}

(* Events are numbered as they are set, and are in one slot at most.        *)
Numbered ==
  /\ \A s \in Slot : parameters[s] <= taken
  /\ \A s, r \in Slot : parameters[s] = parameters[r] /\ parameters[s] # NoEvent => s = r
  /\ \A e \in Event : e > taken => sent[e].times = 0

(* An event that was sent stays in its slot, but the slot has no date: or   *)
(* the trigger thread is about to take it away.  So what it is sending has  *)
(* not been sent, even if the module thread has changed the slot meanwhile. *)
SentIsUnset ==
  /\ \A s \in Slot :
       parameters[s] # NoEvent /\ sent[parameters[s]].times > 0 =>
         expiration_date[s] = TIME_INFINITY \/ (tpc = "unset" /\ tslot = s)
  /\ tpc = "send" /\ parameters[tslot] # NoEvent => sent[parameters[tslot]].times = 0

AtMostOnce == \A e \in Event : sent[e].times <= 1

NotAhead == current_time <= now

(* A slot has a handler, or its date is yet to come.                        *)
Handled ==
  /\ \A s \in Slot : is_set[s] =>
       handler[s] \/ (mpc = "handler" /\ mslot = s /\ expiration_date[s] >= now)
  /\ mpc = "publish" => expiration_date[mslot] >= now
  /\ tpc = "send" => handler[tslot]
  /\ fault # "call_of_NULL"

(* As long as nobody resets or stops the trigger, a slot belongs to the     *)
(* module thread until it is set, then to the trigger thread.               *)
Undisturbed ==
  /\ mop \in {"none", "INITIALIZE", "START", "set"}
  /\ \A s \in Slot : is_set[s] \/ (mpc = "publish" /\ mslot = s) =>
       parameters[s] \in Event /\ due[parameters[s]] = expiration_date[s]
  /\ mpc = "publish" => ~is_set[mslot]
  /\ tpc \in {"send", "unset"} => is_set[tslot] /\ expiration_date[tslot] < current_time

TriggerInv ==
  /\ TypeOK
  /\ Lives
  /\ Numbered
  /\ SentIsUnset
  /\ AtMostOnce
  /\ NoOversleep
  /\ NotAhead
  /\ Prompt => Handled
  /\ ~disturbed => Undisturbed /\ NeverEarly

-----------------------------------------------------------------------------
(* A set of natural numbers has a least one. *)
LEMMA MinIsLeast ==
  ASSUME NEW S \in SUBSET Nat, S # {}
  PROVE  Min(S) \in S /\ \A y \in S : Min(S) <= y
<1> DEFINE Below == {0 .. y : y \in S}
           R == StrictSubsetOrdering(Nat)
<1>1. Below \subseteq FiniteSubsetsOf(Nat) /\ Below # {}
  <2>1. \A y \in S : 0 .. y \in SUBSET Nat /\ IsFiniteSet(0 .. y)  BY FS_Interval
  <2> QED  BY <2>1 DEF FiniteSubsetsOf
<1>2. \E T \in Below : \A U \in Below : ~ (<<U, T>> \in R)
  <2> HIDE DEF Below, R
  <2>1. IsWellFoundedOn(StrictSubsetOrdering(Nat), FiniteSubsetsOf(Nat))
    BY FS_StrictSubsetOrderingWellFounded
  <2> QED  BY <1>1, <2>1, WFMin DEF R
<1>3. PICK x \in S : \A y \in S : ~ (<<0 .. y, 0 .. x>> \in R)
  BY <1>2
<1>4. ASSUME NEW y \in S, y < x  PROVE FALSE
  <2>1. 0 .. y \subseteq 0 .. x  BY <1>4
  <2>2. x \in 0 .. x /\ x \notin 0 .. y  BY <1>4
  <2>3. 0 .. y \in SUBSET Nat /\ 0 .. x \in SUBSET Nat  OBVIOUS
  <2>4. <<0 .. y, 0 .. x>> \in R  BY <2>1, <2>2, <2>3 DEF StrictSubsetOrdering
  <2> QED  BY <1>3, <2>4
<1>5. \A y \in S : x <= y
  BY <1>4
<1> QED  BY <1>5 DEF Min

(* The scan before a wait finds the earliest date of the events that are set. *)
LEMMA EarliestIsFirst ==
  ASSUME TypeOK
  PROVE  /\ Earliest \in Time \cup {TIME_INFINITY}
         /\ \A s \in Slot : is_set[s] => Earliest <= expiration_date[s]
<1> DEFINE D == {TIME_INFINITY} \cup {expiration_date[s] : s \in {i \in Slot : is_set[i]}}
<1>1. D \subseteq Time \cup {TIME_INFINITY}  BY DEF TypeOK
<1>2. Time \cup {TIME_INFINITY} \subseteq Nat  BY TriggerAssumption DEF Time, TIME_INFINITY
<1>3. Min(D) \in D /\ \A y \in D : Min(D) <= y
  <2> HIDE DEF D
  <2>1. D \in SUBSET Nat /\ D # {}  BY <1>1, <1>2 DEF D
  <2> QED  BY <2>1, MinIsLeast
<1> QED  BY <1>1, <1>3 DEF Earliest

(* An event is put in a free slot. *)
LEMMA FreeSlotIsFree ==
  ASSUME FreeSlots # {}
  PROVE  Min(FreeSlots) \in Slot /\ ~is_set[Min(FreeSlots)]
<1>1. FreeSlots \in SUBSET Nat  BY TriggerAssumption DEF FreeSlots, Slot
<1>2. Min(FreeSlots) \in FreeSlots  BY <1>1, MinIsLeast
<1> QED  BY <1>2 DEF FreeSlots

(* What the proofs need to know of the ranges. *)
LEMMA Ranges ==
  /\ Slot \subseteq Nat /\ 1 \in Slot /\ \A s \in Slot : s # MaxEvents => s + 1 \in Slot
  /\ Time \subseteq Nat /\ 0 \in Time /\ TIME_INFINITY \in Nat /\ TIME_INFINITY \notin Time
  /\ \A t \in Time : t < TIME_INFINITY /\ (t < MaxTime => t + 1 \in Time)
  /\ \A t \in Nat : t < MaxTime => t \in Time
  /\ Event \subseteq Nat /\ NoEvent \in Nat /\ NoEvent \notin Event
  /\ \A k \in 0 .. MaxOps : k < MaxOps => k + 1 \in Event /\ k + 1 \in 0 .. MaxOps
  /\ "none" \notin Ops /\ Delays \subseteq Nat /\ MaxTime \in Nat /\ MaxOps \in Nat
BY TriggerAssumption DEF Slot, Time, TIME_INFINITY, Event, NoEvent, Lifecycle

(* What is a number in a state of the right type. *)
LEMMA Numbers ==
  ASSUME TypeOK
  PROVE  /\ now \in Nat /\ current_time \in Nat /\ current_time < TIME_INFINITY
         /\ taken \in Nat /\ timeout \in Nat
         /\ \A s \in Slot : expiration_date[s] \in Nat /\ parameters[s] \in Nat
         /\ \A e \in Event : sent[e].times \in Nat /\ sent[e].at \in Nat /\ due[e] \in Nat
<1> USE Ranges DEF TypeOK
<1>1. now \in Nat /\ current_time \in Nat /\ current_time < TIME_INFINITY
  OBVIOUS
<1>2. taken \in Nat /\ timeout \in Nat
  OBVIOUS
<1>3. ASSUME NEW s \in Slot  PROVE expiration_date[s] \in Nat /\ parameters[s] \in Nat
  <2>1. expiration_date[s] \in Time \cup {TIME_INFINITY}  OBVIOUS
  <2>2. parameters[s] \in Event \cup {NoEvent}  OBVIOUS
  <2> QED  BY <2>1, <2>2
<1>4. ASSUME NEW e \in Event
      PROVE  sent[e].times \in Nat /\ sent[e].at \in Nat /\ due[e] \in Nat
  <2>1. sent[e] \in [times : Nat, at : Time]  OBVIOUS
  <2>2. due[e] \in Time \cup {TIME_INFINITY}  OBVIOUS
  <2> QED  BY <2>1, <2>2
<1> QED  BY <1>1, <1>2, <1>3, <1>4

(* An operation taken leaves the events their numbers. *)
LEMMA TakeKeepsNumbers ==
  ASSUME TypeOK, Numbered, taken' = taken + 1, UNCHANGED <<parameters, sent>>
  PROVE  Numbered'
<1>1. \A s \in Slot : parameters'[s] <= taken'  BY Numbers DEF Numbered
<1>2. \A e \in Event : e > taken' => e > taken  BY Numbers, Ranges
<1> QED  BY <1>1, <1>2 DEF Numbered


(* Every step keeps the types. *)
LEMMA TypeStep ==
  ASSUME TypeOK, [Next]_vars
  PROVE  TypeOK'
<1> USE DEF TypeOK, tabVars, modVars, trigVars, inputVars, eventVars
<1>1. CASE initialize_life
  BY <1>1, Ranges DEF initialize_life, Take
<1>2. CASE start_life
  BY <1>2, Ranges DEF start_life, Take
<1>3. CASE stop_life
  BY <1>3, Ranges DEF stop_life, Take
<1>4. CASE shutdown_life
  BY <1>4, Ranges DEF shutdown_life, Take
<1>5. CASE kill_life
  BY <1>5, Ranges DEF kill_life, Take
<1>6. CASE reset
  BY <1>6, Ranges DEF reset, Take
<1>7. ASSUME NEW d \in Delays, SetDate(d)  PROVE  TypeOK'
  BY <1>7, Ranges, FreeSlotIsFree DEF SetDate, Take
<1>8. CASE stop_trigger_thread
  BY <1>8, Ranges DEF stop_trigger_thread
<1>9. CASE ClearSlot
  BY <1>9, Ranges DEF ClearSlot, Cleared
<1>10. CASE Signal
  BY <1>10, Ranges DEF Signal, Woken
<1>11. CASE Join
  BY <1>11, Ranges DEF Join, Joinable
<1>12. CASE Publish
  BY <1>12, Ranges DEF Publish
<1>13. CASE SetHandler
  BY <1>13, Ranges DEF SetHandler
<1>14. CASE CheckRunning
  BY <1>14, Ranges DEF CheckRunning
<1>15. CASE ScanAndWait
  BY <1>15, Ranges, EarliestIsFirst DEF ScanAndWait
<1>16. CASE TimeUp
  BY <1>16, Ranges DEF TimeUp
<1>17. CASE GetTime
  BY <1>17, Ranges DEF GetTime
<1>18. CASE Look
  BY <1>18, Ranges DEF Look, NextSlot, Due
<1>19. CASE Send
  BY <1>19, Ranges DEF Send
<1>20. CASE ClearSent
  BY <1>20, Ranges DEF ClearSent, NextSlot, Unset, Cleared
<1>21. CASE SpuriousWakeup
  BY <1>21, Ranges DEF SpuriousWakeup
<1>22. CASE Tick
  BY <1>22, Ranges DEF Tick
<1>23. CASE UNCHANGED vars
  BY <1>23 DEF vars, tabVars, modVars, trigVars, inputVars, eventVars
<1> QED
  BY <1>1, <1>2, <1>3, <1>4, <1>5, <1>6, <1>7, <1>8, <1>9, <1>10, <1>11, <1>12,
     <1>13, <1>14, <1>15, <1>16, <1>17, <1>18, <1>19, <1>20, <1>21, <1>22, <1>23 DEF Next, Module, Trigger, ModuleStep

(* There is no trigger thread but in the states that allow for one. *)
LEMMA LivesStep ==
  ASSUME TypeOK, Lives, [Next]_vars
  PROVE  Lives'
<1> USE DEF TypeOK, Lives, tabVars, modVars, trigVars, inputVars, eventVars
<1>1. CASE initialize_life
  BY <1>1 DEF initialize_life, Take
<1>2. CASE start_life
  BY <1>2 DEF start_life, Take
<1>3. CASE stop_life
  BY <1>3 DEF stop_life, Take
<1>4. CASE shutdown_life
  BY <1>4 DEF shutdown_life, Take
<1>5. CASE kill_life
  BY <1>5 DEF kill_life, Take
<1>6. CASE reset
  BY <1>6 DEF reset, Take
<1>7. ASSUME NEW d \in Delays, SetDate(d)  PROVE  Lives'
  BY <1>7 DEF SetDate, Take
<1>8. CASE stop_trigger_thread
  BY <1>8 DEF stop_trigger_thread
<1>9. CASE ClearSlot
  BY <1>9 DEF ClearSlot, Cleared
<1>10. CASE Signal
  BY <1>10 DEF Signal, Woken
<1>11. CASE Join
  BY <1>11 DEF Join, Joinable
<1>12. CASE Publish
  BY <1>12 DEF Publish
<1>13. CASE SetHandler
  BY <1>13 DEF SetHandler
<1>14. CASE CheckRunning
  BY <1>14 DEF CheckRunning
<1>15. CASE ScanAndWait
  BY <1>15 DEF ScanAndWait
<1>16. CASE TimeUp
  BY <1>16 DEF TimeUp
<1>17. CASE GetTime
  BY <1>17 DEF GetTime
<1>18. CASE Look
  BY <1>18 DEF Look, NextSlot, Due
<1>19. CASE Send
  BY <1>19 DEF Send
<1>20. CASE ClearSent
  BY <1>20 DEF ClearSent, NextSlot, Unset, Cleared
<1>21. CASE SpuriousWakeup
  BY <1>21 DEF SpuriousWakeup
<1>22. CASE Tick
  BY <1>22 DEF Tick
<1>23. CASE UNCHANGED vars
  BY <1>23 DEF vars, tabVars, modVars, trigVars, inputVars, eventVars
<1> QED
  BY <1>1, <1>2, <1>3, <1>4, <1>5, <1>6, <1>7, <1>8, <1>9, <1>10, <1>11, <1>12,
     <1>13, <1>14, <1>15, <1>16, <1>17, <1>18, <1>19, <1>20, <1>21, <1>22, <1>23 DEF Next, Module, Trigger, ModuleStep

(* Events keep their numbers. *)
LEMMA NumberedStep ==
  ASSUME TypeOK, Numbered, [Next]_vars
  PROVE  Numbered'
<1> USE DEF TypeOK, Numbered, tabVars, modVars, trigVars, inputVars, eventVars
<1>1. CASE initialize_life
  BY <1>1, TakeKeepsNumbers DEF initialize_life, Take
<1>2. CASE start_life
  BY <1>2, TakeKeepsNumbers DEF start_life, Take
<1>3. CASE stop_life
  BY <1>3, TakeKeepsNumbers DEF stop_life, Take
<1>4. CASE shutdown_life
  BY <1>4, TakeKeepsNumbers DEF shutdown_life, Take
<1>5. CASE kill_life
  BY <1>5, TakeKeepsNumbers DEF kill_life, Take
<1>6. CASE reset
  BY <1>6, TakeKeepsNumbers DEF reset, Take
<1>7. ASSUME NEW d \in Delays, SetDate(d)  PROVE  Numbered'
  <2> DEFINE f == Min(FreeSlots)
  <2>1. /\ f \in Slot /\ taken' = taken + 1 /\ UNCHANGED sent
        /\ parameters' = [parameters EXCEPT ![f] = taken + 1]
    BY <1>7, FreeSlotIsFree DEF SetDate, Take
  <2> HIDE DEF f
  <2>2. \A s \in Slot : parameters'[s] = (IF s = f THEN taken + 1 ELSE parameters[s])
    BY <2>1
  <2>3. \A s \in Slot : parameters[s] <= taken /\ parameters[s] # taken + 1
    BY Numbers
  <2>4. \A e \in Event : e > taken' => e > taken  BY <2>1, Numbers, Ranges
  <2>5. \A s \in Slot : parameters'[s] <= taken'  BY <2>1, <2>2, <2>3, Numbers
  <2>6. \A s, r \in Slot : parameters'[s] = parameters'[r] /\ parameters'[s] # NoEvent => s = r
    BY <2>2, <2>3
  <2> QED  BY <2>1, <2>4, <2>5, <2>6
<1>8. CASE stop_trigger_thread
  BY <1>8, Ranges DEF stop_trigger_thread
<1>9. CASE ClearSlot
  BY <1>9, Ranges DEF ClearSlot, Cleared
<1>10. CASE Signal
  BY <1>10, Ranges DEF Signal, Woken
<1>11. CASE Join
  BY <1>11, Ranges DEF Join, Joinable
<1>12. CASE Publish
  BY <1>12, Ranges DEF Publish
<1>13. CASE SetHandler
  BY <1>13, Ranges DEF SetHandler
<1>14. CASE CheckRunning
  BY <1>14, Ranges DEF CheckRunning
<1>15. CASE ScanAndWait
  BY <1>15, Ranges DEF ScanAndWait
<1>16. CASE TimeUp
  BY <1>16, Ranges DEF TimeUp
<1>17. CASE GetTime
  BY <1>17, Ranges DEF GetTime
<1>18. CASE Look
  BY <1>18, Ranges DEF Look, NextSlot, Due
<1>19. CASE Send
  BY <1>19, Ranges DEF Send
<1>20. CASE ClearSent
  BY <1>20, Ranges DEF ClearSent, NextSlot, Unset, Cleared
<1>21. CASE SpuriousWakeup
  BY <1>21, Ranges DEF SpuriousWakeup
<1>22. CASE Tick
  BY <1>22, Ranges DEF Tick
<1>23. CASE UNCHANGED vars
  BY <1>23 DEF vars, tabVars, modVars, trigVars, inputVars, eventVars
<1> QED
  BY <1>1, <1>2, <1>3, <1>4, <1>5, <1>6, <1>7, <1>8, <1>9, <1>10, <1>11, <1>12,
     <1>13, <1>14, <1>15, <1>16, <1>17, <1>18, <1>19, <1>20, <1>21, <1>22, <1>23 DEF Next, Module, Trigger, ModuleStep

(* What was sent keeps no date. *)
LEMMA SentStep ==
  ASSUME TypeOK, Lives, Numbered, SentIsUnset, AtMostOnce, NotAhead, [Next]_vars
  PROVE  SentIsUnset' /\ AtMostOnce' /\ NotAhead'
<1> USE DEF TypeOK, Numbered, SentIsUnset, AtMostOnce, NotAhead, tabVars, modVars, trigVars, inputVars, eventVars
<1>1. CASE initialize_life
  BY <1>1, Ranges DEF initialize_life, Take
<1>2. CASE start_life
  BY <1>2 DEF start_life, Take, Lives
<1>3. CASE stop_life
  BY <1>3, Ranges DEF stop_life, Take
<1>4. CASE shutdown_life
  BY <1>4, Ranges DEF shutdown_life, Take
<1>5. CASE kill_life
  BY <1>5, Ranges DEF kill_life, Take
<1>6. CASE reset
  BY <1>6, Ranges DEF reset, Take
<1>7. ASSUME NEW d \in Delays, SetDate(d)  PROVE  SentIsUnset' /\ AtMostOnce' /\ NotAhead'
  BY <1>7, Ranges, FreeSlotIsFree DEF SetDate, Take
<1>8. CASE stop_trigger_thread
  BY <1>8, Ranges DEF stop_trigger_thread
<1>9. CASE ClearSlot
  BY <1>9, Ranges DEF ClearSlot, Cleared
<1>10. CASE Signal
  BY <1>10, Ranges DEF Signal, Woken
<1>11. CASE Join
  BY <1>11, Ranges DEF Join, Joinable
<1>12. CASE Publish
  BY <1>12, Ranges DEF Publish
<1>13. CASE SetHandler
  BY <1>13, Ranges DEF SetHandler
<1>14. CASE CheckRunning
  BY <1>14, Ranges DEF CheckRunning
<1>15. CASE ScanAndWait
  BY <1>15, Ranges DEF ScanAndWait
<1>16. CASE TimeUp
  BY <1>16, Ranges DEF TimeUp
<1>17. CASE GetTime
  BY <1>17, Ranges DEF GetTime
<1>18. CASE Look
  <2>1. CASE ~Due(tslot)
    BY <1>18, <2>1 DEF Look, NextSlot
  <2>2. CASE Due(tslot)
    <3>1. expiration_date[tslot] # TIME_INFINITY  BY <2>2, Numbers, Ranges DEF Due
    <3>2. parameters[tslot] # NoEvent => ~(sent[parameters[tslot]].times > 0)
      BY <1>18, <3>1 DEF Look
    <3>3. parameters[tslot] # NoEvent => sent[parameters[tslot]].times = 0
      <4>1. parameters[tslot] # NoEvent => sent[parameters[tslot]].times \in Nat
        BY Numbers
      <4> QED  BY <3>2, <4>1
    <3> QED  BY <1>18, <2>2, <3>3 DEF Look
  <2> QED  BY <2>1, <2>2
<1>19. CASE Send
  <2>1. CASE ~handler[tslot]
    BY <1>19, <2>1 DEF Send
  <2>2. CASE handler[tslot] /\ parameters[tslot] = NoEvent
    BY <1>19, <2>2, Ranges DEF Send
  <2>3. CASE handler[tslot] /\ parameters[tslot] # NoEvent
    <3> DEFINE e == parameters[tslot]
    <3>1. e \in Event /\ sent[e].times = 0  BY <1>19, <2>3 DEF Send
    <3>2. /\ tpc' = "unset"
          /\ \A g \in Event : sent'[g].times = (IF g = e THEN 1 ELSE sent[g].times)
      BY <1>19, <2>3, <3>1 DEF Send
    <3>3. UNCHANGED <<now, current_time, expiration_date, parameters, tslot>>
      BY <1>19 DEF Send
    <3>4. \A s \in Slot : parameters[s] = e => s = tslot  BY <2>3
    <3> HIDE DEF e
    <3>5. AtMostOnce'  BY <3>2
    <3>6. SentIsUnset'  BY <3>2, <3>3, <3>4
    <3> QED  BY <3>3, <3>5, <3>6
  <2> QED  BY <2>1, <2>2, <2>3
<1>20. CASE ClearSent
  BY <1>20, Ranges DEF ClearSent, NextSlot, Unset, Cleared
<1>21. CASE SpuriousWakeup
  BY <1>21, Ranges DEF SpuriousWakeup
<1>22. CASE Tick
  BY <1>22, Ranges DEF Tick
<1>23. CASE UNCHANGED vars
  BY <1>23 DEF vars, tabVars, modVars, trigVars, inputVars, eventVars
<1> QED
  BY <1>1, <1>2, <1>3, <1>4, <1>5, <1>6, <1>7, <1>8, <1>9, <1>10, <1>11, <1>12,
     <1>13, <1>14, <1>15, <1>16, <1>17, <1>18, <1>19, <1>20, <1>21, <1>22, <1>23 DEF Next, Module, Trigger, ModuleStep

(* Nobody sets a date before the timeout but on the way to a signal. *)
LEMMA OversleepStep ==
  ASSUME TypeOK, NoOversleep, [Next]_vars
  PROVE  NoOversleep'
<1> USE DEF TypeOK, NoOversleep, tabVars, modVars, trigVars, inputVars, eventVars
<1>1. CASE initialize_life
  BY <1>1, Ranges DEF initialize_life, Take
<1>2. CASE start_life
  BY <1>2, Ranges DEF start_life, Take
<1>3. CASE stop_life
  BY <1>3, Ranges DEF stop_life, Take
<1>4. CASE shutdown_life
  BY <1>4, Ranges DEF shutdown_life, Take
<1>5. CASE kill_life
  BY <1>5, Ranges DEF kill_life, Take
<1>6. CASE reset
  BY <1>6, Ranges DEF reset, Take
<1>7. ASSUME NEW d \in Delays, SetDate(d)  PROVE  NoOversleep'
  BY <1>7, FreeSlotIsFree DEF SetDate, Take
<1>8. CASE stop_trigger_thread
  BY <1>8, Ranges DEF stop_trigger_thread
<1>9. CASE ClearSlot
  BY <1>9, Ranges DEF ClearSlot, Cleared
<1>10. CASE Signal
  BY <1>10, Ranges DEF Signal, Woken
<1>11. CASE Join
  BY <1>11, Ranges DEF Join, Joinable
<1>12. CASE Publish
  BY <1>12, Ranges DEF Publish
<1>13. CASE SetHandler
  BY <1>13, Ranges DEF SetHandler
<1>14. CASE CheckRunning
  BY <1>14, Ranges DEF CheckRunning
<1>15. CASE ScanAndWait
  <2>1. timeout' = Earliest /\ UNCHANGED <<is_set, expiration_date>>  BY <1>15 DEF ScanAndWait
  <2>2. \A s \in Slot : is_set[s] => ~(expiration_date[s] < Earliest)
    <3>1. Earliest \in Nat  BY EarliestIsFirst, Ranges
    <3>2. \A s \in Slot : is_set[s] => Earliest <= expiration_date[s]  BY EarliestIsFirst
    <3> QED  BY <3>1, <3>2, Numbers
  <2> QED  BY <2>1, <2>2
<1>16. CASE TimeUp
  BY <1>16, Ranges DEF TimeUp
<1>17. CASE GetTime
  BY <1>17, Ranges DEF GetTime
<1>18. CASE Look
  BY <1>18, Ranges DEF Look, NextSlot, Due
<1>19. CASE Send
  BY <1>19, Ranges DEF Send
<1>20. CASE ClearSent
  BY <1>20, Ranges DEF ClearSent, NextSlot, Unset, Cleared
<1>21. CASE SpuriousWakeup
  BY <1>21, Ranges DEF SpuriousWakeup
<1>22. CASE Tick
  BY <1>22, Ranges DEF Tick
<1>23. CASE UNCHANGED vars
  BY <1>23 DEF vars, tabVars, modVars, trigVars, inputVars, eventVars
<1> QED
  BY <1>1, <1>2, <1>3, <1>4, <1>5, <1>6, <1>7, <1>8, <1>9, <1>10, <1>11, <1>12,
     <1>13, <1>14, <1>15, <1>16, <1>17, <1>18, <1>19, <1>20, <1>21, <1>22, <1>23 DEF Next, Module, Trigger, ModuleStep

(* The trigger thread sends through handlers that are there. *)
LEMMA HandledStep ==
  ASSUME TypeOK, NotAhead, Prompt, Handled, [Next]_vars
  PROVE  Handled'
<1> USE DEF TypeOK, NotAhead, Handled, tabVars, modVars, trigVars, inputVars, eventVars
<1>1. CASE initialize_life
  BY <1>1, Ranges DEF initialize_life, Take
<1>2. CASE start_life
  BY <1>2, Ranges DEF start_life, Take
<1>3. CASE stop_life
  BY <1>3, Ranges DEF stop_life, Take
<1>4. CASE shutdown_life
  BY <1>4, Ranges DEF shutdown_life, Take
<1>5. CASE kill_life
  BY <1>5, Ranges DEF kill_life, Take
<1>6. CASE reset
  BY <1>6, Ranges DEF reset, Take
<1>7. ASSUME NEW d \in Delays, SetDate(d)  PROVE  Handled'
  BY <1>7, Ranges, FreeSlotIsFree DEF SetDate, Take
<1>8. CASE stop_trigger_thread
  BY <1>8, Ranges DEF stop_trigger_thread
<1>9. CASE ClearSlot
  BY <1>9, Ranges DEF ClearSlot, Cleared
<1>10. CASE Signal
  BY <1>10, Ranges DEF Signal, Woken
<1>11. CASE Join
  BY <1>11, Ranges DEF Join, Joinable
<1>12. CASE Publish
  BY <1>12, Ranges DEF Publish
<1>13. CASE SetHandler
  BY <1>13, Ranges DEF SetHandler
<1>14. CASE CheckRunning
  BY <1>14, Ranges DEF CheckRunning
<1>15. CASE ScanAndWait
  BY <1>15, Ranges DEF ScanAndWait
<1>16. CASE TimeUp
  BY <1>16, Ranges DEF TimeUp
<1>17. CASE GetTime
  BY <1>17, Ranges DEF GetTime
<1>18. CASE Look
  <2>1. Due(tslot) => handler[tslot]  BY Numbers DEF Due
  <2> QED  BY <1>18, <2>1 DEF Look, NextSlot
<1>19. CASE Send
  BY <1>19, Ranges DEF Send
<1>20. CASE ClearSent
  BY <1>20, Ranges DEF ClearSent, NextSlot, Unset, Cleared
<1>21. CASE SpuriousWakeup
  BY <1>21, Ranges DEF SpuriousWakeup
<1>22. CASE Tick
  BY <1>22, Ranges DEF Tick
<1>23. CASE UNCHANGED vars
  BY <1>23 DEF vars, tabVars, modVars, trigVars, inputVars, eventVars
<1> QED
  BY <1>1, <1>2, <1>3, <1>4, <1>5, <1>6, <1>7, <1>8, <1>9, <1>10, <1>11, <1>12,
     <1>13, <1>14, <1>15, <1>16, <1>17, <1>18, <1>19, <1>20, <1>21, <1>22, <1>23 DEF Next, Module, Trigger, ModuleStep

(* Undisturbed, the two threads have different slots. *)
LEMMA UndisturbedStep ==
  ASSUME TypeOK, Lives, Numbered, NotAhead, ~disturbed => Undisturbed /\ NeverEarly, ~disturbed', [Next]_vars
  PROVE  Undisturbed' /\ NeverEarly'
<1> USE DEF TypeOK, Lives, Numbered, NotAhead, Undisturbed, NeverEarly, tabVars, modVars, trigVars, inputVars, eventVars
<1>1. CASE initialize_life
  BY <1>1, Ranges DEF initialize_life, Take
<1>2. CASE start_life
  BY <1>2, Ranges DEF start_life, Take
<1>3. CASE stop_life
  BY <1>3, Ranges DEF stop_life, Take
<1>4. CASE shutdown_life
  BY <1>4, Ranges DEF shutdown_life, Take
<1>5. CASE kill_life
  BY <1>5, Ranges DEF kill_life, Take
<1>6. CASE reset
  BY <1>6, Ranges DEF reset, Take
<1>7. ASSUME NEW d \in Delays, SetDate(d)  PROVE  Undisturbed' /\ NeverEarly'
  BY <1>7, Ranges, FreeSlotIsFree DEF SetDate, Take
<1>8. CASE stop_trigger_thread
  BY <1>8, Ranges DEF stop_trigger_thread
<1>9. CASE ClearSlot
  <2>1. ~disturbed /\ mpc = "clear"  BY <1>9 DEF ClearSlot
  <2>4. mop = "INITIALIZE"  BY <2>1
  <2>5. tpc = "ended"  BY <2>1, <2>4
  <2>2. UNCHANGED <<parameters, mop, tpc, tslot, due, sent, disturbed, current_time>> /\ mpc' # "publish"
    BY <1>9 DEF ClearSlot
  <2>3. \A s \in Slot : is_set'[s] => is_set[s] /\ expiration_date'[s] = expiration_date[s]
    BY <1>9 DEF ClearSlot, Cleared
  <2> QED  BY <2>1, <2>2, <2>3, <2>4, <2>5
<1>10. CASE Signal
  BY <1>10, Ranges DEF Signal, Woken
<1>11. CASE Join
  BY <1>11, Ranges DEF Join, Joinable
<1>12. CASE Publish
  BY <1>12, Ranges DEF Publish
<1>13. CASE SetHandler
  BY <1>13, Ranges DEF SetHandler
<1>14. CASE CheckRunning
  BY <1>14, Ranges DEF CheckRunning
<1>15. CASE ScanAndWait
  BY <1>15, Ranges DEF ScanAndWait
<1>16. CASE TimeUp
  BY <1>16, Ranges DEF TimeUp
<1>17. CASE GetTime
  BY <1>17, Ranges DEF GetTime
<1>18. CASE Look
  BY <1>18, Ranges DEF Look, NextSlot, Due
<1>19. CASE Send
  <2>1. CASE ~handler[tslot]
    BY <1>19, <2>1 DEF Send
  <2>2. CASE handler[tslot]
    <3> DEFINE e == parameters[tslot]
    <3>1. ~disturbed /\ e \in Event /\ due[e] < now
      BY <1>19, Numbers DEF Send
    <3>2. \A g \in Event : sent'[g].at = (IF g = e THEN now ELSE sent[g].at)
                           /\ (g # e => sent'[g] = sent[g])
      BY <1>19, <2>2, <3>1 DEF Send
    <3>3. /\ tpc' = "unset"
          /\ UNCHANGED <<now, current_time, is_set, expiration_date, parameters, mpc, mop, mslot, tslot, due>>
      BY <1>19, <2>2 DEF Send
    <3> HIDE DEF e
    <3>4. NeverEarly'  BY <3>1, <3>2, <3>3, Numbers
    <3>5. Undisturbed'  BY <1>19, <3>1, <3>3 DEF Send
    <3> QED  BY <3>4, <3>5
  <2> QED  BY <2>1, <2>2
<1>20. CASE ClearSent
  BY <1>20, Ranges DEF ClearSent, NextSlot, Unset, Cleared
<1>21. CASE SpuriousWakeup
  BY <1>21, Ranges DEF SpuriousWakeup
<1>22. CASE Tick
  BY <1>22, Ranges DEF Tick
<1>23. CASE UNCHANGED vars
  BY <1>23 DEF vars, tabVars, modVars, trigVars, inputVars, eventVars
<1> QED
  BY <1>1, <1>2, <1>3, <1>4, <1>5, <1>6, <1>7, <1>8, <1>9, <1>10, <1>11, <1>12,
     <1>13, <1>14, <1>15, <1>16, <1>17, <1>18, <1>19, <1>20, <1>21, <1>22, <1>23 DEF Next, Module, Trigger, ModuleStep

-----------------------------------------------------------------------------
(* ldp_init_dynamic_trigger leaves an empty table and no trigger thread. *)
THEOREM TriggerInit == Init => TriggerInv
<1> SUFFICES ASSUME Init  PROVE TriggerInv
  OBVIOUS
<1> USE Ranges DEF Init, NotSent
<1>1. TypeOK
  <2>1. is_set \in [Slot -> BOOLEAN] /\ handler \in [Slot -> BOOLEAN]  OBVIOUS
  <2>2. expiration_date \in [Slot -> Time \cup {TIME_INFINITY}]  OBVIOUS
  <2>3. parameters \in [Slot -> Event \cup {NoEvent}]  OBVIOUS
  <2>4. due \in [Event -> Time \cup {TIME_INFINITY}]  OBVIOUS
  <2>5. sent \in [Event -> [times : Nat, at : Time]]  OBVIOUS
  <2>6. taken \in 0 .. MaxOps  BY TriggerAssumption
  <2> QED  BY <2>1, <2>2, <2>3, <2>4, <2>5, <2>6 DEF TypeOK
<1>2. Lives /\ NoOversleep /\ NotAhead /\ Handled  BY DEF Lives, NoOversleep, NotAhead, Handled
<1>3. Numbered /\ SentIsUnset /\ AtMostOnce  BY DEF Numbered, SentIsUnset, AtMostOnce, NoEvent
<1>4. Undisturbed /\ NeverEarly  BY DEF Undisturbed, NeverEarly
<1> QED  BY <1>1, <1>2, <1>3, <1>4 DEF TriggerInv

(* Every step of either thread, and of the clock, keeps the invariant. *)
THEOREM TriggerStep == TriggerInv /\ [Next]_vars => TriggerInv'
<1> SUFFICES ASSUME TriggerInv, [Next]_vars  PROVE TriggerInv'
  OBVIOUS
<1>1. TypeOK' /\ Lives' /\ Numbered' /\ NoOversleep'
  BY TypeStep, LivesStep, NumberedStep, OversleepStep DEF TriggerInv
<1>2. SentIsUnset' /\ AtMostOnce' /\ NotAhead'
  BY SentStep DEF TriggerInv
<1>3. Prompt => Handled'
  BY HandledStep DEF TriggerInv
<1>4. ~disturbed' => Undisturbed' /\ NeverEarly'
  BY UndisturbedStep DEF TriggerInv
<1> QED  BY <1>1, <1>2, <1>3, <1>4 DEF TriggerInv

\* Whatever the module thread is given and however the two threads interleave,
\* the trigger thread does not sleep past the date of an event that is set
\* (ldp_start_dynamic_trigger): whoever sets an earlier one still has to signal.
THEOREM NeverOversleeps == Spec => []NoOversleep
<1>1. TriggerInv => NoOversleep
  BY DEF TriggerInv
<1> QED  BY TriggerInit, TriggerStep, <1>1, PTL DEF Spec

\* As long as nobody resets or stops the trigger, no event is sent before its
\* date, for any number of slots and events that share them in turn.
THEOREM NeverSendsEarly == Spec => []NeverEarly
<1>1. TriggerInv => NeverEarly
  BY DEF TriggerInv, NeverEarly
<1> QED  BY TriggerInit, TriggerStep, <1>1, PTL DEF Spec

\* Even with resets and stops, no event is sent twice, and START never creates
\* a trigger thread while there is one (ldp_start_dynamic_trigger).
THEOREM NothingSentTwice == Spec => [](OneTriggerThread /\ AtMostOnce)
<1>1. TriggerInv => OneTriggerThread /\ AtMostOnce
  BY DEF TriggerInv, OneTriggerThread, Lives
<1> QED  BY TriggerInit, TriggerStep, <1>1, PTL DEF Spec

\* When no date passes while it is being set, every event is sent through a
\* handler that is there: the slot is published before its handler is written.
THEOREM SendsOnce == Prompt => (Spec => []SentOnce)
<1> SUFFICES ASSUME Prompt  PROVE Spec => []SentOnce
  OBVIOUS
<1>1. TriggerInv => SentOnce
  BY DEF TriggerInv, SentOnce, OneTriggerThread, Lives, AtMostOnce, Handled
<1> QED  BY TriggerInit, TriggerStep, <1>1, PTL DEF Spec

-----------------------------------------------------------------------------
(* The periodic triggers.                                                  *)

(* The steps of a thread between the barrier and its end.                  *)
Looping == {"mask", "check", "wait", "send"}

(* A period for which nothing exists.                                      *)
Dormant(e) == thread[e] = "none" /\ timer[e] = "none" /\ pending[e] = {} /\ late[e] = 0

(* A period whose thread waits for the other ones.                         *)
Starting(e) ==
  thread[e] \in {"start", "barrier"} /\ timer[e] = "none" /\ pending[e] = {} /\ late[e] = 0

(* What there is of a period at each step of the module thread, before and *)
(* after the turn of its loop.                                             *)
PeriodAt(e) ==
  /\ mstep = "idle" /\ trigState = "IDLE" => Dormant(e)
  /\ mstep = "idle" /\ trigState # "IDLE" => thread[e] \in Looping /\ timer[e] # "none"
  /\ mstep \in {"arm", "disarm"} => thread[e] \in Looping /\ timer[e] # "none"
  /\ mstep = "create" => IF e < turn THEN Starting(e) ELSE Dormant(e)
  /\ mstep = "barrier" => Starting(e)
  /\ mstep = "timers" =>
       /\ thread[e] \in Looping /\ pending[e] = {} /\ late[e] = 0
       /\ timer[e] = IF e < turn THEN "disarmed" ELSE "none"
  /\ mstep \in {"delete", "signal"} => thread[e] \in Looping \cup {"ended"}
  /\ mstep = "delete" /\ e < turn => timer[e] = "none"
  /\ mstep = "signal" => timer[e] = "none"
  /\ mstep = "join" =>
       IF e < turn THEN Dormant(e)
       ELSE thread[e] \in Looping \cup {"ended"} /\ timer[e] = "none"
  /\ mstep = "over" => trigState = "IDLE" \/ timer[e] # "armed"

(* The signals of a period: one that its timer has sent and that is not    *)
(* taken yet is the only turn that the thread has left once the timer is   *)
(* disarmed.                                                               *)
SignalsOf(e) ==
  /\ thread[e] = "ended" => pending[e] = {}
  /\ "module" \in pending[e] => trigState = "IDLE"
  /\ timer[e] = "armed" => late[e] = 0
  /\ trigState # "IDLE" => late[e] <= 1
  /\ trigState # "IDLE" /\ timer[e] # "armed" /\ "timer" \in pending[e] => late[e] = 0

(* The state that the module thread writes before it does what its         *)
(* operation asks, and the turns of its loops.                             *)
StateAt ==
  /\ mstep \in {"idle", "barrier"} => turn = 1
  /\ mstep \in {"create", "barrier", "timers", "disarm"} => trigState = "READY"
  /\ mstep = "arm" => trigState = "RUNNING"
  /\ mstep \in {"delete", "signal", "join"} => trigState = "IDLE"

PeriodicInv ==
  /\ PeriodicTypeOK /\ late \in [Period -> Nat]
  /\ StateAt
  /\ \A e \in Period : PeriodAt(e) /\ SignalsOf(e)

-----------------------------------------------------------------------------
(* Nothing exists at first.                                                *)
LEMMA InitPeriodic == PeriodicInit => PeriodicInv
BY PeriodicAssumption
  DEF PeriodicInit, PeriodicInv, PeriodicTypeOK, StateAt, PeriodAt, SignalsOf, Dormant, Period

(* The module thread keeps the invariant: the operations it obeys, and the *)
(* turns of its loops.                                                     *)
LEMMA ModuleKeepsPeriods ==
  ASSUME PeriodicInv,
         \/ Initialize \/ Start \/ Stop \/ Shutdown \/ Kill \/ CreateFails \/ ModuleGoesOn
  PROVE  PeriodicInv'
<1> USE PeriodicAssumption
    DEF PeriodicInv, PeriodicTypeOK, StateAt, PeriodAt, SignalsOf, Dormant, Starting, Looping,
        Period, modStep, threadVars
<1>1. CASE Initialize
  BY <1>1 DEF Initialize, Obey
<1>2. CASE Start
  BY <1>2 DEF Start, Obey
<1>3. CASE Stop
  BY <1>3 DEF Stop, Obey
<1>4. CASE Shutdown
  BY <1>4 DEF Shutdown, Obey
<1>5. CASE Kill
  BY <1>5 DEF Kill, Obey
<1>6. CASE CreateFails
  BY <1>6 DEF CreateFails
<1>7. CASE CreateThread
  BY <1>7 DEF CreateThread, Turn
<1>8. CASE Barrier
  BY <1>8 DEF Barrier
<1>9. CASE CreateTimer
  BY <1>9 DEF CreateTimer, Turn
<1>10. CASE Arm
  BY <1>10 DEF Arm, Turn
<1>11. CASE Disarm
  BY <1>11 DEF Disarm, Turn, Withdraw
<1>12. CASE DeleteTimer
  <2>1. PeriodicTypeOK' /\ late' \in [Period -> Nat] /\ StateAt'
    BY <1>12 DEF DeleteTimer, Turn, Withdraw
  <2>2. ASSUME NEW e \in Period PROVE PeriodAt(e)'
    BY <1>12 DEF DeleteTimer, Turn, Withdraw
  <2>3. ASSUME NEW e \in Period PROVE SignalsOf(e)'
    BY <1>12 DEF DeleteTimer, Turn, Withdraw
  <2>4. QED
    BY <2>1, <2>2, <2>3
<1>13. CASE KillThread
  BY <1>13 DEF KillThread, Turn, Signalled
<1>14. CASE JoinThread
  BY <1>14 DEF JoinThread, Turn
<1>15. QED
  BY <1>1, <1>2, <1>3, <1>4, <1>5, <1>6, <1>7, <1>8, <1>9, <1>10, <1>11, <1>12, <1>13, <1>14 DEF ModuleGoesOn

(* A timer that expires and the thread of a period keep it.                *)
LEMMA PeriodKeepsPeriods ==
  ASSUME PeriodicInv, NEW e \in Period, Expires(e) \/ PeriodThread(e)
  PROVE  PeriodicInv'
<1> USE PeriodicAssumption
    DEF PeriodicInv, PeriodicTypeOK, StateAt, PeriodAt, SignalsOf, Dormant, Starting, Looping,
        Period, modStep, threadVars
<1>1. CASE Expires(e)
  BY <1>1 DEF Expires, Signalled
<1>2. CASE SavesPid(e)
  BY <1>2 DEF SavesPid, Goes
<1>3. CASE Masks(e)
  BY <1>3 DEF Masks, Goes
<1>4. CASE Checks(e)
  <2>1. CASE trigState # "IDLE" /\ Goes(e, "check", "wait") /\ UNCHANGED <<sending, late, pending>>
    BY <2>1 DEF Goes
  <2>2. CASE /\ trigState = "IDLE" /\ Goes(e, "check", "ended")
             /\ pending' = [pending EXCEPT ![e] = {}] /\ UNCHANGED <<sending, late>>
    <3>1. PeriodicTypeOK' /\ late' \in [Period -> Nat] /\ StateAt'
      BY <2>2 DEF Goes
    <3>2. ASSUME NEW r \in Period PROVE PeriodAt(r)' /\ SignalsOf(r)'
      BY <2>2 DEF Goes
    <3>3. QED
      BY <3>1, <3>2
  <2>3. QED
    BY <1>4, <2>1, <2>2 DEF Checks
<1>5. CASE Waits(e)
  <2>1. PICK from \in pending[e] :
          /\ Goes(e, "wait", "send")
          /\ pending' = [pending EXCEPT ![e] = @ \ {from}]
          /\ late' = [late EXCEPT ![e] = IF timer[e] = "armed" THEN 0 ELSE @ + 1]
    BY <1>5 DEF Waits
  <2>2. PeriodicTypeOK' /\ late' \in [Period -> Nat] /\ StateAt'
    BY <2>1 DEF Goes
  <2>3. ASSUME NEW r \in Period \ {e} PROVE PeriodAt(r)' /\ SignalsOf(r)'
    BY <2>1 DEF Goes
  <2>4. PeriodAt(e)'
    <3>1. /\ thread[e] = "wait" /\ thread'[e] = "send" /\ pending[e] # {}
          /\ UNCHANGED <<trigState, mstep, turn, timer>>
      BY <2>1 DEF Goes
    <3>2. ~(mstep = "idle" /\ trigState = "IDLE") /\ mstep \notin {"create", "barrier", "timers"}
          /\ (mstep = "join" => ~(e < turn))
      BY <3>1
    <3>3. QED
      BY <3>1, <3>2
  <2>5. SignalsOf(e)'
    <3>1. /\ thread'[e] = "send" /\ trigState' = trigState /\ timer' = timer
          /\ pending'[e] = pending[e] \ {from}
          /\ late'[e] = IF timer[e] = "armed" THEN 0 ELSE late[e] + 1
      BY <2>1 DEF Goes
    <3>2. from \in {"timer", "module"}
      OBVIOUS
    <3>3. ASSUME trigState # "IDLE", timer[e] # "armed"
          PROVE  late'[e] = 1 /\ "timer" \notin pending'[e]
      BY <3>1, <3>2, <3>3
    <3>4. QED
      BY <3>1, <3>3
  <2>6. ASSUME NEW r \in Period PROVE PeriodAt(r)' /\ SignalsOf(r)'
    <3>1. CASE r = e
      BY ONLY <3>1, <2>4, <2>5
    <3>2. CASE r # e
      BY ONLY r \in Period, <3>2, <2>3
    <3>3. QED
      BY ONLY <3>1, <3>2
  <2> HIDE DEF PeriodicTypeOK, StateAt, PeriodAt, SignalsOf
  <2>7. QED
    BY ONLY <2>2, <2>6 DEF PeriodicInv
<1>6. CASE Sends(e)
  <2>1. CASE Goes(e, "send", "send") /\ UNCHANGED <<late, pending>>
    BY <2>1 DEF Goes
  <2>2. CASE Goes(e, "send", "check") /\ UNCHANGED <<sending, late, pending>>
    <3>1. PeriodicTypeOK' /\ late' \in [Period -> Nat] /\ StateAt'
      BY <2>2 DEF Goes
    <3>2. ASSUME NEW r \in Period PROVE PeriodAt(r)'
      BY <2>2 DEF Goes
    <3>3. ASSUME NEW r \in Period PROVE SignalsOf(r)'
      BY <2>2 DEF Goes
    <3> HIDE DEF PeriodicTypeOK, StateAt, PeriodAt, SignalsOf
    <3>4. QED
      BY ONLY <3>1, <3>2, <3>3 DEF PeriodicInv
  <2>3. QED
    BY <1>6, <2>1, <2>2 DEF Sends
<1>7. QED
  BY <1>1, <1>2, <1>3, <1>4, <1>5, <1>6 DEF PeriodThread

-----------------------------------------------------------------------------
(* The periodic trigger over APEX: the steps of a thread before its end,   *)
(* and what there is of a period before and after the turn of the module   *)
(* thread's loop.                                                          *)
ApexLooping == {"check", "sleep", "awake", "send"}

TimingAt(e) ==
  /\ astep = "idle" => IF apexState = "RUNNING" THEN event_threads[e] \in ApexLooping
                       ELSE event_threads[e] = "none"
  /\ astep = "start" => IF e < joined THEN event_threads[e] \in ApexLooping
                        ELSE event_threads[e] = "none"
  /\ astep = "join" /\ e < joined => event_threads[e] = "none"

ApexInv ==
  /\ ApexTypeOK
  /\ astep = "idle" => joined = 1
  /\ astep = "start" => apexState = "RUNNING"
  /\ astep = "join" => apexState = "READY"
  /\ \A e \in Timing : TimingAt(e)

(* Nothing exists at first.                                                *)
LEMMA InitApex == ApexInit => ApexInv
BY ApexTriggerAssumption DEF ApexInit, ApexInv, ApexTypeOK, TimingAt, Timing

(* Every step of the trigger over APEX keeps the invariant: threads are    *)
(* created from the first period on, joined from the first one on, and end *)
(* only while they are joined.                                             *)
LEMMA NextApex ==
  ASSUME ApexInv, [ApexNext]_apexVars
  PROVE  ApexInv'
<1> USE ApexTriggerAssumption
    DEF ApexInv, ApexTypeOK, TimingAt, Timing, ApexLooping, apexModule, ApexObey, Joining
<1>1. CASE ApexInitialize \/ ApexStart \/ ApexStop \/ ApexShutdown \/ ApexKill
  BY <1>1 DEF ApexInitialize, ApexStart, ApexStop, ApexShutdown, ApexKill
<1>2. CASE StartEvent
  BY <1>2 DEF StartEvent
<1>3. CASE JoinEvent
  BY <1>3 DEF JoinEvent
<1>4. ASSUME NEW e \in Timing, EventThread(e) PROVE ApexInv'
  BY <1>4 DEF EventThread, Moves
<1>5. CASE UNCHANGED apexVars
  BY <1>5 DEF apexVars
<1>6. QED
  BY <1>1, <1>2, <1>3, <1>4, <1>5 DEF ApexNext, ApexGoesOn
-----------------------------------------------------------------------------
(* The three triggers together.                                            *)
TriggersInv == TriggerInv /\ PeriodicInv /\ ApexInv

(* Every step of the periodic trigger of the Unix build keeps its          *)
(* invariant.                                                              *)
LEMMA NextPeriodic ==
  ASSUME PeriodicInv, [PeriodicNext]_periodicVars
  PROVE  PeriodicInv'
<1>1. CASE UNCHANGED periodicVars
  BY <1>1 DEF periodicVars, modStep, threadVars, PeriodicInv, PeriodicTypeOK, StateAt,
    PeriodAt, SignalsOf, Dormant, Starting
<1>2. QED
  BY <1>1, ModuleKeepsPeriods, PeriodKeepsPeriods DEF PeriodicNext

(* A step is of one trigger, and leaves the others alone.                  *)
LEMMA NextTriggers ==
  ASSUME TriggersInv, [MCNext]_triggerVars
  PROVE  TriggersInv'
<1>1. [Next]_vars
  BY DEF MCNext, triggerVars, Dynamic, Periodic, Apex
<1>2. [PeriodicNext]_periodicVars
  BY DEF MCNext, triggerVars, Dynamic, Periodic, Apex
<1>3. [ApexNext]_apexVars
  BY DEF MCNext, triggerVars, Dynamic, Periodic, Apex
<1>4. QED
  BY <1>1, <1>2, <1>3, TriggerStep, NextPeriodic, NextApex DEF TriggersInv

(* In every reachable state, in whatever order operations, signals, timers *)
(* and threads come: an event of a dynamic trigger is sent once through a  *)
(* handler that is there (when no date passes while it is set); a period   *)
(* that was stopped has one turn left at most, for the signal its timer    *)
(* had sent (ldp_stop_timer); and a trigger that is shut down has no       *)
(* thread, timer or signal left for the next INITIALIZE to meet            *)
(* (stop_trigger, apex_ldp_trigger_stop_events).                           *)
THEOREM StoppedFallsSilent == Prompt => (MCSpec => []TriggersSendOnce)
<1> SUFFICES ASSUME Prompt PROVE MCSpec => []TriggersSendOnce
  OBVIOUS
<1>1. MCInit => TriggersInv
  BY TriggerInit, InitPeriodic, InitApex DEF MCInit, TriggersInv
<1>2. TriggersInv /\ [MCNext]_triggerVars => TriggersInv'
  BY NextTriggers
<1>3. TriggersInv => TriggersSendOnce
  <2>1. TriggerInv => SentOnce
    BY DEF TriggerInv, SentOnce, OneTriggerThread, Lives, AtMostOnce, Handled
  <2>2. PeriodicInv => PeriodicTypeOK /\ PeriodicSilent
    BY DEF PeriodicInv, PeriodicSilent, PeriodAt, SignalsOf, Dormant, PeriodicTypeOK
  <2>3. ApexInv => ApexTypeOK /\ ApexSilent
    BY DEF ApexInv, ApexSilent, TimingAt, ApexLooping
  <2>4. QED
    BY <2>1, <2>2, <2>3 DEF TriggersInv, TriggersSendOnce
<1>4. QED
  BY <1>1, <1>2, <1>3, PTL DEF MCSpec
=============================================================================
