-------------------------- MODULE MCLdpFifoManager --------------------------
(***************************************************************************)
(* LdpFifoManager for TLC: a server thread that pushes life-cycle          *)
(* operations and remote requests, and another module that pushes events.  *)
(*                                                                         *)
(* A behaviour is of one of three regimes: "life", the constants of the    *)
(* configuration, where the producers preempt the module thread and the    *)
(* whole life cycle is run; "push", on several processors and without      *)
(* cleanings, with a FIFO that has room for every element; "spurious",     *)
(* where the module thread may wake up for no reason.                      *)
(***************************************************************************)
EXTENDS LdpFifoManager

CONSTANTS server, peer, l1, l2, o1, o2, Regimes

MCProducer == {server, peer}
MCPool == {"lifecycle", "op"}
Elements == {l1, l2, o1, o2}
PoolOfElement == [e \in Elements |-> IF e \in {l1, l2} THEN "lifecycle" ELSE "op"]
PoolsOf(elements) == [e \in elements |-> PoolOfElement[e]]
LifeElt == {l1, l2, o1}
LifePoolOf == PoolsOf(LifeElt)
PushElt == {l1, o1, o2}
SpuriousElt == {l1, o1}

Life(id) == [from |-> server, id |-> id, type |-> "EVENT", act |-> TRUE,
             pool |-> "lifecycle", first |-> FALSE]
Event(p, a) == [from |-> p, id |-> "event", type |-> "EVENT", act |-> a,
                pool |-> "op", first |-> FALSE]
Request(p) == [from |-> p, id |-> "request", type |-> "RR_RECEIVED", act |-> TRUE,
               pool |-> "op", first |-> FALSE]
Answer(p) == [from |-> p, id |-> "answer", type |-> "EVENT", act |-> TRUE,
              pool |-> "op", first |-> TRUE]

(* No life-cycle operation that cleans the queue: requests, activating and   *)
(* plain events, and answers pushed in front.                               *)
PushOp == {Life("INITIALIZE"), Life("START"), Request(server), Event(peer, FALSE),
           Answer(peer)}
SpuriousOp == {Life("INITIALIZE"), Life("START"), Event(peer, TRUE)}
(* The whole life cycle, and requests that its cleanings may find queued.   *)
LifeOp == {Life(id) : id \in Lifecycle} \cup {Request(peer)}

Push == INSTANCE LdpFifoManagerProofs WITH
  Elt <- PushElt, PoolOf <- PoolsOf(PushElt), Op <- PushOp, FifoSize <- 3, Urgent <- {},
  SpuriousWakeups <- FALSE
Spurious == INSTANCE LdpFifoManagerProofs WITH
  Elt <- SpuriousElt, PoolOf <- PoolsOf(SpuriousElt), Op <- SpuriousOp, FifoSize <- 2,
  Urgent <- {}, UintMod <- 4, SpuriousWakeups <- TRUE

(* The push and spurious regimes are uses of the queue that its code can    *)
(* stand; a configuration chooses the use of the life regime.              *)
ASSUME RegimesAssumption ==
  /\ Push!ConstantsAssumption /\ Push!NeverCleaned /\ Push!RoomForAll
  /\ Spurious!ConstantsAssumption /\ Spurious!AlwaysActivating

VARIABLE regime

mcVars == <<regime, vars>>

MCInit ==
  /\ regime \in Regimes
  /\ \/ regime = "life" /\ Init
     \/ regime = "push" /\ Push!Init
     \/ regime = "spurious" /\ Spurious!Init

LifeNext == regime = "life" /\ Next /\ UNCHANGED regime
PushNext == regime = "push" /\ Push!Next /\ UNCHANGED regime
SpuriousNext == regime = "spurious" /\ Spurious!Next /\ UNCHANGED regime

(* The fairness of LdpFifoManager, in the regime that has liveness.         *)
Ongoing == regime = "life" /\ fault = "none" /\ UNCHANGED regime
MCFairness ==
  /\ []<>(\A p \in Urgent : pc[p] = "idle")
  /\ SF_mcVars(Ongoing /\ Scheduled /\ Consume)
  /\ \A p \in Producer : WF_mcVars(Ongoing /\ Produce(p))

MCSpec == MCInit /\ [][LifeNext \/ PushNext \/ SpuriousNext]_mcVars /\ MCFairness
-----------------------------------------------------------------------------
(* A pool element has one owner at most, and none when it is free.  With a  *)
(* FIFO that has room for all of them none is leaked, and the unsigned      *)
(* element_available of a pool is the number of its free elements.          *)
ElementsOwned ==
  /\ regime = "life" => TypeOK /\ OneOwner
  /\ regime = "spurious" => Spurious!TypeOK
  /\ regime = "push" => Push!TypeOK /\ Push!OneOwner /\ Push!UsedIsHeld /\ Push!PoolCountExact

(* activating_op_num is the number of activating operations in the FIFO,    *)
(* but for those that their producers have not counted yet.                 *)
ActivatingCounted ==
  /\ regime = "life" => ActivatingCountExact
  /\ regime = "push" => Push!ActivatingCountExact

(* The module thread never sleeps on an activating operation that nobody is *)
(* about to signal, even when a spurious wakeup has made the counter wrap.  *)
NeverAsleepOnWork ==
  /\ regime = "push" => Push!NoLostWakeup
  /\ regime = "spurious" => Spurious!NoLostWakeup

(* What is in the table of received requests is queued or being run.        *)
RequestsInQueue == regime = "life" => RequestsAccountedFor

(* Every activating operation that is queued is run or dropped by a         *)
(* cleaning; without fairness, the other regimes may stop.                  *)
QueuedServed == regime = "life" => QueuedIsServed
=============================================================================
