------------------------------- MODULE MCDds -------------------------------
(***************************************************************************)
(* DDS for TLC: the main process, a domain with two modules that send, and *)
(* a domain without modules that receives.                                 *)
(***************************************************************************)
EXTENDS LdpDds

\* The routes of example/route.h: two business wires on one topic, and one
\* control topic.  The sender has two modules, the receiver none.
MCInfoPort == [p \in Runtime |->
  CASE p = Main -> <<41001, 41002>>
    [] p = "sender" -> <<46001, 41001, 30002>>
    [] p = "receiver" -> <<30002, 41002, 46001>>]

MCControlRoutes == <<
  [iface |-> 1001, target |-> 2, topic |-> "control", sport |-> 41001, tport |-> 46001],
  [iface |-> 1002, target |-> 3, topic |-> "control", sport |-> 41002, tport |-> 46002],
  [iface |-> 1003, target |-> 1, topic |-> "control", sport |-> 46001, tport |-> 41001],
  [iface |-> 1004, target |-> 1, topic |-> "control", sport |-> 46002, tport |-> 41002]>>
MCWireRoutes == <<
  [iface |-> 1005, target |-> 3, topic |-> "mission", tport |-> 30002],
  [iface |-> 1006, target |-> 2, topic |-> "mission", tport |-> 46001]>>
MCTopics == <<"control", "mission">>

MCEntityOf == [p \in Runtime |->
  CASE p = Main -> 1 [] p = "sender" -> 2 [] p = "receiver" -> 3]
MCNbClient == [d \in PD |-> 1]
MCDataInterface == [d \in PD |-> 3]
MCModulesOf == [d \in PD |-> IF d = "sender" THEN {1, 2} ELSE {}]
=============================================================================
