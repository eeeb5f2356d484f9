------------------------ MODULE MCLdpRequestResponse ------------------------
(***************************************************************************)
(* LdpRequestResponse for TLC.  A behaviour is of one of two regimes:      *)
(* "in_time", the constants of the configuration, or "mixed", with two     *)
(* entries, expiration dates that pass while requests are outstanding, and *)
(* answering threads that preempt the client's.                            *)
(***************************************************************************)
EXTENDS LdpRequestResponse

CONSTANTS n1, n2, n3, Regimes

MCNode == {n1, n2, n3}

Ask(server, sync) == [server |-> server, sync |-> sync]
SyncKinds == {Ask("local", TRUE), Ask("remote", TRUE)}
AllKinds == {Ask(s, b) : s \in Answerer, b \in BOOLEAN}

Mixed == INSTANCE LdpRequestResponseProofs WITH
  Node <- {n1, n2}, MaxID <- 2, AnswerPool <- 2, Expiry <- TRUE, Urgent <- TRUE

(* A configuration chooses the use of the tables in time, and of the mixed  *)
(* one what it shares with that.                                           *)
ASSUME MixedAssumption == Mixed!RequestAssumption

VARIABLE regime

mcVars == <<regime, vars>>

MCInit ==
  /\ regime \in Regimes
  /\ \/ regime = "in_time" /\ Init
     \/ regime = "mixed" /\ Mixed!Init

InTimeNext == regime = "in_time" /\ Next /\ UNCHANGED regime
MixedNext == regime = "mixed" /\ Mixed!Next /\ UNCHANGED regime

(* The fairness of LdpRequestResponse, in either regime.                    *)
Either(inTime, mixed) ==
  /\ fault = "none" /\ UNCHANGED regime
  /\ (regime = "in_time" /\ inTime) \/ (regime = "mixed" /\ mixed)
MCFairness ==
  /\ WF_mcVars(Either(Local, Mixed!Local))
  /\ WF_mcVars(Either(Router, Mixed!Router))
  /\ SF_mcVars(Either(Scheduled /\ Run, Mixed!Scheduled /\ Mixed!Run))
  /\ WF_mcVars(Either(TimeUp, Mixed!TimeUp))
  /\ WF_mcVars(Either(Pass, Mixed!Pass))

MCSpec == MCInit /\ [][InTimeNext \/ MixedNext]_mcVars /\ MCFairness
-----------------------------------------------------------------------------
(* Everything has its type, and when no date passes an entry is freed once, *)
(* by whoever holds it, and one in use is that of a request that somebody   *)
(* still has to end.                                                        *)
EntriesInTime ==
  /\ regime = "in_time" => TypeOK /\ FreedOnce /\ EntriesAccountedFor
  /\ regime = "mixed" => Mixed!TypeOK
=============================================================================
