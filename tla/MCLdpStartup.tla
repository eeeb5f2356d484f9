---------------------------- MODULE MCLdpStartup ----------------------------
(***************************************************************************)
(* LdpStartup for TLC: a domain with a module and a trigger, and one with  *)
(* a module.                                                               *)
(***************************************************************************)
EXTENDS LdpStartup, TLC

CONSTANTS d1, d2, mod1, trig1, mod2

MCDomain == {d1, d2}
MCUnit == {mod1, trig1, mod2}
MCDomainOf == mod1 :> d1 @@ trig1 :> d1 @@ mod2 :> d2
MCTrigger == {trig1}
MCIdOf == mod1 :> 1 @@ trig1 :> 2 @@ mod2 :> 127

MCComponentOf == mod1 :> "c1" @@ trig1 :> "c1" @@ mod2 :> "c2"
MCDescriptors == <<mod1, trig1, mod2>>

\* launcher.txt: everybody is initialized; a domain is started, its trigger
\* stopped, a line names a module that nobody has; two components are started.
MCScript ==
  << <<"INITIALIZE", "*">>, <<"START", d1>>, <<"STOP", trig1>>, <<"SHUTDOWN", "ghost">>,
     <<"START", "c2">>, <<"START", "c1">> >>
MCKiller == {mod2}
MCOrders == {"START_MOD", "SHUTDOWN"}
=============================================================================
