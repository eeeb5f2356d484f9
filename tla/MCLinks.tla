------------------------------ MODULE MCLinks ------------------------------
(***************************************************************************)
(* The links for TLC: the transports between the processes of a platform   *)
(* and the ELI protocol between platforms.  A behaviour is of one of them, *)
(* chosen in its initial state; the others keep their initial states.      *)
(***************************************************************************)
EXTENDS LdpTcpStream, LdpTcpLink, LdpUdp, LdpApexPort, LdpEliUdp, LdpEliStatus

CONSTANT Parts

VARIABLE part

MCPayload == <<1, 0, 2>>
MCModule == {1, 2}
MCPackets == <<2, 2>>
MCPeer == [p \in 0..2 |-> CASE p = 0 -> <<1, 2>> [] p = 1 -> <<2, 0>> [] p = 2 -> <<0, 1>>]

\* Three fragments, the last one short; twice two full ones, which can be taken
\* for each other; one, one that is full, three full ones.
MCSizes == [s \in 1..2 |-> IF s = 1 THEN <<5, 4, 4>> ELSE <<1, 2, 6>>]

\* Datagrams lost.  Two may be too many when each message restarts the counter:
\* MCLostTwo.
MCLostWhen == [restarted |-> 1, continued |-> 2]
MCLostTwo == [restarted |-> 2]

localVars == <<tcpVars, linkVars, udpVars, portVars>>
vars == <<part, localVars, eliVars, statusVars>>

\* The initial states of the links that are not the one of the behaviour.
OtherTcp == part # "tcp" => ~tcpPartial
OtherUdp == part # "udp" => ordered /\ Len(read_msgs) = 1
OtherPort == part # "port" => misconfigured = {}
OtherEli == part # "datagrams" => counting = "restarted" /\ Len(channels) = 1

Init ==
  /\ part \in Parts
  /\ TcpInit /\ LinkInit /\ UdpInit /\ PortInit /\ EliInit /\ StatusInit
  /\ OtherTcp /\ OtherUdp /\ OtherPort /\ OtherEli

OtherPlatforms == UNCHANGED <<part, eliVars, statusVars>>
Tcp == part = "tcp" /\ OtherPlatforms /\ UNCHANGED <<linkVars, udpVars, portVars>>
Connections == part = "link" /\ OtherPlatforms /\ UNCHANGED <<tcpVars, udpVars, portVars>>
Udp == part = "udp" /\ OtherPlatforms /\ UNCHANGED <<tcpVars, linkVars, portVars>>
Port == part = "port" /\ OtherPlatforms /\ UNCHANGED <<tcpVars, linkVars, udpVars>>
Datagrams == part = "datagrams" /\ UNCHANGED <<part, localVars, statusVars>>
Status == part = "status" /\ UNCHANGED <<part, localVars, eliVars>>

Next ==
  \/ Tcp /\ TcpNext
  \/ Connections /\ LinkNext
  \/ Udp /\ UdpNext
  \/ Port /\ PortNext
  \/ Datagrams /\ EliNext
  \/ Status /\ StatusNext

\* The loops of the servers and the processes of a platform go on, and a thread
\* that sends goes on sending; nothing is fair about who dies, what is lost or
\* when a module sends.
Fairness ==
  /\ WF_vars(Tcp /\ Reader)
  /\ \A w \in Writer : WF_vars(Tcp /\ SocketSend(w))
  /\ WF_vars(Connections /\ Client)
  /\ \A i \in Interface : WF_vars(Connections /\ Server(i))
  /\ WF_vars(Port /\ MainSent)
  /\ \A p \in Process : WF_vars(Port /\ PortServer(p))
  /\ \A d \in PDomain : WF_vars(Port /\ ModuleSent(d))
  /\ \A p \in Platform : WF_vars(Status /\ Works(p))

Spec == Init /\ [][Next]_vars /\ Fairness
-----------------------------------------------------------------------------
\* What the servers know of their links is well formed: an interface is in the
\* list of those to connect or has a connection, never both nor neither, and a
\* domain is attached to all its ports or to none.
LinksWellFormed ==
  /\ TcpTypeOK /\ LinkTypeOK /\ UdpTypeOK /\ PortTypeOK /\ EliTypeOK /\ StatusTypeOK
  /\ ListedOrConnected
  /\ AttachedAllOrNone

\* A message is delivered whole, with what one sender put in it and nothing of
\* another message, whatever datagrams are lost or overtaken: between the
\* domains (ldp_core_udp.c) and between platforms (ldp_ELI_udp.c).
MessagesWhole == UdpWhole /\ EliWhole

\* A message none of whose datagrams is lost is delivered, however many before
\* it were left incomplete.
MessagesArrive == UdpArrives /\ EliArrives

\* Reconnected, of the behaviours of the connections.
LinksReconnected == part = "link" => Reconnected
=============================================================================
