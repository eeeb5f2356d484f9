------------------------------- MODULE MCApex -------------------------------
(* The APR implementation over APEX: memory pools, condition variables or    *)
(* threads, one of them a behaviour.                                         *)
EXTENDS ApexPools, ApexCond, ApexThread

VARIABLE part

AprInit ==
  /\ part \in {"pools", "condition", "threads"}
  /\ PoolsInit /\ CondInit /\ ThreadInit
  /\ part # "condition" => ~overlong

PoolsPart == part = "pools" /\ UNCHANGED <<part, condVars, threadVars>>
CondPart == part = "condition" /\ UNCHANGED <<part, poolVars, threadVars>>
ThreadPart == part = "threads" /\ UNCHANGED <<part, poolVars, condVars>>

AprNext ==
  \/ PoolsPart /\ PoolsNext
  \/ CondPart /\ CondNext
  \/ ThreadPart /\ ThreadNext

aprVars == <<part, poolVars, condVars, threadVars>>

(* A thread that runs goes on.  The mutexes are first in first out, so that a *)
(* thread that asks for one again and again gets it; a join waits for the     *)
(* semaphore of its thread alone.  Nothing is fair about who adds, stops,     *)
(* creates or times out.                                                      *)
AprFairness ==
  /\ \A t \in Waiter : /\ SF_aprVars(CondPart /\ (Lock(t) \/ Relock(t)))
                       /\ WF_aprVars(CondPart /\ (Leave(t) \/ Wait(t) \/ WaitSemaphore(t)))
  /\ \A c \in Creator : WF_aprVars(ThreadPart /\ Calls(c)) /\ WF_aprVars(ThreadPart /\ Joins(c))
  /\ \A x \in Created : WF_aprVars(ThreadPart /\ Runs(x))

AprSpec == AprInit /\ [][AprNext]_aprVars /\ AprFairness
-----------------------------------------------------------------------------
(* What the calls leave behind them is well formed: the pools form trees, the *)
(* pending signals of a condition are its tokens and the threads that took    *)
(* one, and the registry holds the threads that are not joined.               *)
AprWellFormed ==
  /\ PoolsTypeOK /\ CondTypeOK /\ ThreadTypeOK
  /\ PoolTree
  /\ CondTokens
  /\ RegistryExact
=============================================================================
