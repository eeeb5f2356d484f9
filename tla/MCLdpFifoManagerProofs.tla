----------------------- MODULE MCLdpFifoManagerProofs -----------------------
(***************************************************************************)
(* The three regimes of the queue that the model checker runs together:    *)
(* the invariants of LdpFifoManagerProofs hold in each regime whose use of *)
(* the queue allows them, and give the invariants that the run checks.     *)
(***************************************************************************)
EXTENDS MCLdpFifoManager, LdpFifoManagerProofs

(* The push regime never cleans, and its module thread wakes up for a       *)
(* reason.                                                                 *)
LEMMA PushIsCalm == Push!Calm
BY RegimesAssumption DEF Push!Calm

(* What holds in each regime.                                              *)
RegimesInv ==
  /\ regime = "life" => RequestInv
  /\ regime = "push" => Push!PoolInv /\ Push!HeldInv
  /\ regime = "spurious" => Spurious!WrapInv

(* It holds at first, in the three regimes.                                *)
LEMMA InitRegimes == MCInit => RegimesInv
<1>1. Init => RequestInv
  BY InitRequestInv
<1>2. Push!Init => Push!PoolInv /\ Push!HeldInv
  BY RegimesAssumption, Push!InitPoolInv, Push!InitHeldInv
<1>3. Spurious!Init => Spurious!WrapInv
  BY RegimesAssumption, Spurious!InitWrapInv
<1>4. QED
  BY <1>1, <1>2, <1>3 DEF MCInit, RegimesInv

(* A step is of one regime, which it does not leave.                       *)
LEMMA NextRegimes ==
  ASSUME Calm, RegimesInv, [LifeNext \/ PushNext \/ SpuriousNext]_mcVars
  PROVE  RegimesInv'
<1>1. regime' = regime
  BY DEF LifeNext, PushNext, SpuriousNext, mcVars
<1>2. ASSUME regime = "life" PROVE RequestInv'
  <2>1. [Next]_vars
    BY <1>2 DEF LifeNext, PushNext, SpuriousNext, mcVars
  <2>2. QED
    BY <1>2, <2>1, NextRequestInv DEF RegimesInv
<1>3. ASSUME regime = "push" PROVE (Push!PoolInv /\ Push!HeldInv)'
  <2>1. [Push!Next]_Push!vars
    BY <1>3 DEF LifeNext, PushNext, SpuriousNext, mcVars, vars, Push!vars
  <2>2. Push!PoolInv'
    BY <1>3, <2>1, RegimesAssumption, PushIsCalm, Push!NextPoolInv DEF RegimesInv
  <2>3. Push!HeldInv'
    BY <1>3, <2>1, RegimesAssumption, PushIsCalm, Push!NextHeldInv DEF RegimesInv
  <2>4. QED
    BY <2>2, <2>3
<1>4. ASSUME regime = "spurious" PROVE Spurious!WrapInv'
  <2>1. [Spurious!Next]_Spurious!vars
    BY <1>4 DEF LifeNext, PushNext, SpuriousNext, mcVars, vars, Spurious!vars
  <2>2. QED
    BY <1>4, <2>1, RegimesAssumption, Spurious!NextWrapInv DEF RegimesInv
<1>5. QED
  BY <1>1, <1>2, <1>3, <1>4 DEF RegimesInv

(* What it says of each regime.                                            *)
LEMMA RegimesInvGives ==
  RegimesInv =>
    ElementsOwned /\ ActivatingCounted /\ NeverAsleepOnWork /\ RequestsInQueue
<1> SUFFICES ASSUME RegimesInv
             PROVE  ElementsOwned /\ ActivatingCounted /\ NeverAsleepOnWork /\ RequestsInQueue
  OBVIOUS
<1>1. ASSUME regime = "life"
      PROVE  TypeOK /\ OneOwner /\ ActivatingCountExact /\ RequestsAccountedFor
  <2>1. RequestInv /\ QueueInv /\ TypeInv
    BY <1>1 DEF RegimesInv, RequestInv, QueueInv
  <2>2. QED
    BY <2>1, QueueInvOneOwner, QueueInvCounts, RequestInvAccounts DEF TypeInv
<1>2. ASSUME regime = "push"
      PROVE  /\ Push!TypeOK /\ Push!OneOwner /\ Push!UsedIsHeld /\ Push!PoolCountExact
             /\ Push!ActivatingCountExact /\ Push!NoLostWakeup
  <2>1. Push!PoolInv /\ Push!HeldInv /\ Push!QueueInv /\ Push!TypeInv
    BY <1>2 DEF RegimesInv, Push!HeldInv, Push!QueueInv
  <2>2. Push!UsedIsHeld
    BY <2>1, RegimesAssumption, Push!HeldHasHolder DEF Push!UsedIsHeld, Push!HeldInv, Push!UsedHeld
  <2>3. Push!OneOwner
    BY <2>1, RegimesAssumption, Push!QueueInvOneOwner
  <2>4. Push!ActivatingCountExact /\ Push!NoLostWakeup
    BY <2>1, RegimesAssumption, Push!QueueInvCounts
  <2>5. Push!PoolCountExact
    BY <2>1, RegimesAssumption, Push!PoolInvCounts
  <2>6. QED
    BY <2>1, <2>2, <2>3, <2>4, <2>5 DEF Push!TypeInv
<1>3. ASSUME regime = "spurious" PROVE Spurious!TypeOK /\ Spurious!NoLostWakeup
  <2>1. Spurious!WrapInv /\ Spurious!TypeInv
    BY <1>3 DEF RegimesInv, Spurious!WrapInv
  <2>2. Spurious!NoLostWakeup
    BY <2>1, RegimesAssumption, Spurious!WrapInvNoLostWakeup
  <2>3. QED
    BY <2>1, <2>2 DEF Spurious!TypeInv
<1>4. QED
  BY <1>1, <1>2, <1>3 DEF ElementsOwned, ActivatingCounted, NeverAsleepOnWork, RequestsInQueue

(* The invariant of the three regimes holds in every reachable state.      *)
LEMMA RegimesKept == Calm => (MCSpec => []RegimesInv)
<1> SUFFICES ASSUME Calm PROVE MCSpec => []RegimesInv
  OBVIOUS
<1>1. MCInit => RegimesInv
  BY InitRegimes
<1>2. RegimesInv /\ [LifeNext \/ PushNext \/ SpuriousNext]_mcVars => RegimesInv'
  BY NextRegimes
<1>3. QED
  BY <1>1, <1>2, PTL DEF MCSpec

(* A pool element of ldp_elt_pool.c has one owner at most, a free one none *)
(* (all regimes but the spurious one, which is only typed); with a FIFO    *)
(* for all elements none is leaked and element_available counts the free   *)
(* ones.                                                                   *)
THEOREM OwnersOfElements == Calm => (MCSpec => []ElementsOwned)
BY RegimesKept, RegimesInvGives, PTL

(* activating_op_num is the number of activating operations in the FIFO,   *)
(* but for those not counted yet.                                          *)
THEOREM CounterOfActivating == Calm => (MCSpec => []ActivatingCounted)
BY RegimesKept, RegimesInvGives, PTL

(* The module thread never sleeps in ldp_fifo_manager_pop_elt on an        *)
(* activating operation that nobody is about to signal.                    *)
THEOREM NoWakeupLost == Calm => (MCSpec => []NeverAsleepOnWork)
BY RegimesKept, RegimesInvGives, PTL

(* A request of the table of received requests is queued or being run, and *)
(* a cleaning that drops it takes it out of the table.                     *)
THEOREM RequestsOfTable == Calm => (MCSpec => []RequestsInQueue)
BY RegimesKept, RegimesInvGives, PTL
=============================================================================
