------------------------------- MODULE LdpDds -------------------------------
(***************************************************************************)
(* The DDS transport: dds/ldp_dds.c and the servers of the main process    *)
(* and of the protection domains over it, ldp_dds_main_server.c and        *)
(* ldp_dds_comp_server.c, with the start-up protocol they carry.           *)
(*                                                                         *)
(* A process reads every topic, those of others included, and keeps what   *)
(* the routes say is for one of its interfaces.  DDS itself is external:   *)
(* reliable, transient-local, the last KeepLast samples kept by a writer   *)
(* for the readers to come and by a reader until it takes them.            *)
(***************************************************************************)
EXTENDS Naturals, Sequences, SequencesExt, FiniteSets

CONSTANTS
  Main, PD,         \* the main process, the protection domains
  EntityOf,         \* their identifiers in LDP_DDS_ENTITY_ROUTES
  InfoPort,         \* the ports of the interfaces of a process, as generated
  NbClient,         \* nb_client of a domain; the next interface is the father's
  ReplyOffset,      \* LDP_DDS_REPLY_PORT_OFFSET
  ControlRoutes, WireRoutes, \* the tables of route.h
  Topics,           \* the topics of the endpoints, the fallback first
  ModulesOf,           \* the modules of a domain
  DataInterface,    \* the interface a domain writes its data on
  KeepLast,         \* dds_qset_history (32 in the code)
  TakeMax,          \* samples of one dds_take (8 in the code)
  MaxData,          \* bound: data messages of a domain
  SlowInit          \* whether an INITIALIZE outlasts the test of deliver_packet

Runtime == PD \union {Main}
Topic == ToSet(Topics)

ASSUME DdsAssumption ==
  /\ Main \notin PD /\ IsFiniteSet(PD) /\ PD # {}
  /\ EntityOf \in [Runtime -> Nat \ {0}]
  /\ InfoPort \in [Runtime -> Seq(Nat)] /\ ReplyOffset \in Nat
  /\ \A d \in PD : {NbClient[d] + 1, DataInterface[d]} \subseteq DOMAIN InfoPort[d]
  /\ Len(InfoPort[Main]) = Cardinality(PD)
  /\ KeepLast \in Nat \ {0} /\ TakeMax \in Nat \ {0} /\ MaxData \in Nat
  /\ SlowInit \in BOOLEAN

\* The routes of route.h are records, and the interface of a route names it.
ASSUME RoutesNamed ==
  LET Named(r) == r.iface \in Nat \ {0} /\ r.tport \in Nat
      routes == ControlRoutes \o WireRoutes
  IN /\ ControlRoutes \in Seq(ToSet(ControlRoutes)) /\ WireRoutes \in Seq(ToSet(WireRoutes))
     /\ \A i \in DOMAIN routes : Named(routes[i])
     /\ \A i, j \in DOMAIN routes : routes[i].iface = routes[j].iface => i = j

VARIABLES
  spc,      \* the server of a process: "down", "joined", "loop", "test",
            \* "announce", "stopped"
  cache,    \* samples a reader holds
  taken,    \* samples of its dds_take that it has still to deliver
  wrote,    \* everything a process wrote
  got,      \* everything a process consumed
  pdState,  \* state of a domain
  module,   \* state of its modules; "notify" is READY before ldp_mod_init_notify
  nbInit,   \* nb_init_clients, nb_ready_clients
  nbReady,
  killed    \* whether a module has killed the platform

ddsVars == <<spc, cache, taken, wrote, got, pdState, module, nbInit, nbReady, killed>>
servers == <<taken, got>>
counters == <<nbInit, nbReady>>

DdsInit ==
  /\ spc = [p \in Runtime |-> "down"]
  /\ cache = [p \in Runtime |-> [t \in Topic |-> <<>>]]
  /\ taken = [p \in Runtime |-> <<>>]
  /\ wrote = [p \in Runtime |-> <<>>]
  /\ got = [p \in Runtime |-> <<>>]
  /\ pdState = [d \in PD |-> "IDLE"]
  /\ module = [d \in PD |-> [m \in ModulesOf[d] |-> "IDLE"]]
  /\ nbInit = 0 /\ nbReady = 0 /\ killed = FALSE

Up(p) == spc[p] \notin {"down", "stopped"}

-----------------------------------------------------------------------------
(* Ports and routes.                                                       *)

\* create_main_interface, create_component_interface: one end of a link reads
\* the port of the link and the other the same port with an offset.
IsServerEnd(p, i) == p # Main /\ i > NbClient[p]
ReadPort(p, i) == InfoPort[p][i] + (IF IsServerEnd(p, i) THEN ReplyOffset ELSE 0)
WritePort(p, i) == InfoPort[p][i] + (IF IsServerEnd(p, i) THEN 0 ELSE ReplyOffset)

ByPorts(source, target) ==
  SelectInSeq(ControlRoutes, LAMBDA r : r.sport = source /\ r.tport = target)
WireByPort(target) == SelectInSeq(WireRoutes, LAMBDA r : r.tport = target)

\* Interface i of process p, as the link it writes on.
DdsLink == UNION {{<<p, i>> : i \in DOMAIN InfoPort[p]} : p \in Runtime}

\* dds_publish_bytes: what every packet written on a link says of its route.
Routed(source, target) ==
  LET c == ByPorts(source, target)
      w == WireByPort(target)
      On(route) == [tport |-> target, topic |-> route.topic, entity |-> route.target,
                    iface |-> route.iface]
  IN IF c > 0 THEN On(ControlRoutes[c]) ELSE IF w > 0 THEN On(WireRoutes[w])
     ELSE On([topic |-> Head(Topics), target |-> 0, iface |-> 0])
Routing == [l \in DdsLink |-> Routed(ReadPort(l[1], l[2]), WritePort(l[1], l[2]))]

Sample(p, i, op) == [link |-> <<p, i>>, op |-> op]

\* ldp_dds_packet_targets_runtime, with what the servers registered.
Targets(p, h) ==
  \/ h.entity = EntityOf[p]
  \/ \E i \in DOMAIN InfoPort[p] : ReadPort(p, i) = h.tport
  \/ h.entity = 0 /\ h.tport = 0

\* find_interface_by_target_port: the first that reads the port, or 0.
Reads(p, port) ==
  SelectInSeq([i \in DOMAIN InfoPort[p] |-> ReadPort(p, i)], LAMBDA n : n = port)

\* The port of the route of a packet; the main process knows control routes to itself only.
RoutePort(p, h) ==
  LET routes == IF p = Main THEN ControlRoutes ELSE ControlRoutes \o WireRoutes
      k == SelectInSeq(routes, LAMBDA r : r.iface = h.iface)
  IN IF k > 0 /\ (p = Main => routes[k].target = EntityOf[Main]) THEN routes[k].tport
     ELSE h.tport

\* find_interface_by_packet, find_main_interface_by_packet.
FoundInterface(p, h) ==
  LET i == Reads(p, RoutePort(p, h)) IN IF i = 0 /\ p # Main THEN Reads(p, h.tport) ELSE i

\* The interface a process takes the packets of a link on, 0 when it lets them go.
TakenOn == [p \in Runtime |-> [l \in DdsLink |->
  IF Targets(p, Routing[l]) THEN FoundInterface(p, Routing[l]) ELSE 0]]

-----------------------------------------------------------------------------
(* DDS.                                                                    *)

LastN(s, n) == IF Len(s) > n THEN SubSeq(s, Len(s) - n + 1, Len(s)) ELSE s

Kept(s) == LastN(s, KeepLast)

\* The packets written on these links.
Among(packets, links) ==
  LET upTo[n \in 0..Len(packets)] ==
        IF n = 0 THEN <<>>
        ELSE IF packets[n].link \in links THEN Append(upTo[n - 1], packets[n])
             ELSE upTo[n - 1]
  IN upTo[Len(packets)]

LinksOn == [t \in Topic |-> {l \in DdsLink : Routing[l].topic = t}]
OnTopic(packets, t) == Among(packets, LinksOn[t])

\* The samples of packets, written by p in this order, reach every reader.
Write(p, packets) ==
  /\ wrote' = [wrote EXCEPT ![p] = @ \o packets]
  /\ cache' = [q \in Runtime |-> [t \in Topic |->
                IF Up(q) THEN Kept(cache[q][t] \o OnTopic(packets, t)) ELSE cache[q][t]]]

\* What the writers, visited in the order ws, have kept for a new reader.
Replayed_None(ws, t) == <<>>
Replayed(ws, t) == Kept(FlattenSeq([i \in DOMAIN ws |-> Kept(OnTopic(wrote[ws[i]], t))]))

\* dds_create_runtime, and the interfaces of a server.
Join(p) ==
  /\ spc[p] = "down"
  /\ spc' = [spc EXCEPT ![p] = IF p = Main THEN "loop" ELSE "joined"]
  /\ \E ws \in SetToSeqs({q \in Runtime : Up(q)}) :
       cache' = [cache EXCEPT ![p] = [t \in Topic |-> Replayed(ws, t)]]
  /\ UNCHANGED <<servers, wrote, pdState, module, counters, killed>>

-----------------------------------------------------------------------------
(* The loops.                                                              *)

\* What a dds_take of n samples leaves in the reader.
Left_None(samples, n) == <<>>
Left(samples, n) == SubSeq(samples, n + 1, Len(samples))

\* The loop comes to an endpoint that holds samples: dds_take.  Those for
\* others, or for an interface that is not here, are let go.
Visit(p, t) ==
  /\ spc[p] = "loop" /\ taken[p] = <<>> /\ cache[p][t] # <<>>
  /\ LET n == Min({Len(cache[p][t]), TakeMax})
         batch == SubSeq(cache[p][t], 1, n)
     IN /\ taken' = [taken EXCEPT ![p] = Among(batch, {l \in DdsLink : TakenOn[p][l] > 0})]
        /\ cache' = [cache EXCEPT ![p][t] = Left(@, n)]
  /\ UNCHANGED <<spc, wrote, got, pdState, module, counters, killed>>

Next1(p) == Head(taken[p])

\* The rest of the batch; a server that stops returns the loan of all of it.
Delivered(p, stops) ==
  /\ spc[p] = "loop" /\ taken[p] # <<>>
  /\ taken' = [taken EXCEPT ![p] = IF stops THEN <<>> ELSE Tail(@)]
  /\ got' = [got EXCEPT ![p] = Append(@, Next1(p))]

\* broadcast_to_client.
Broadcast(op) == [i \in DOMAIN InfoPort[Main] |-> Sample(Main, i, op)]

\* What the main process writes before its server stops.
LastOrders_None == <<>>
LastOrders == Broadcast("KILL")

\* main_proc_consume_control_msg without a launcher.txt.
MainConsumes ==
  /\ Delivered(Main, Next1(Main).op = "KILL")
  /\ LET op == Next1(Main).op
         reply(o) == <<Sample(Main, TakenOn[Main][Next1(Main).link], o)>>
         n == Cardinality(PD)
     IN \/ /\ op = "CLIENT_INIT"
           /\ nbInit' = nbInit + 1 /\ nbReady' = nbReady
           /\ Write(Main, IF nbInit + 1 = n THEN Broadcast("INIT_MOD")
                          ELSE IF nbInit + 1 > n THEN reply("INIT_MOD") ELSE <<>>)
           /\ spc' = spc
        \/ /\ op = "CLIENT_READY"
           /\ nbReady' = nbReady + 1 /\ nbInit' = nbInit
           /\ Write(Main, IF nbReady + 1 = n THEN Broadcast("START_MOD")
                          ELSE IF nbReady + 1 > n THEN reply("START_MOD") ELSE <<>>)
           /\ spc' = spc
        \/ /\ op = "KILL"
           /\ Write(Main, LastOrders)
           /\ spc' = [spc EXCEPT ![Main] = "stopped"]
           /\ UNCHANGED counters
  /\ UNCHANGED <<pdState, module, killed>>

All(d, st) == [m \in ModulesOf[d] |-> st]

\* deliver_packet: domain_proc_consume_msg, and the test after an INIT_MOD.
DomainConsumes(d) ==
  /\ Delivered(d, Next1(d).op = "KILL")
  /\ LET op == Next1(d).op IN
       \/ /\ op = "INIT_MOD" /\ pdState[d] = "INIT"
          /\ module' = [module EXCEPT ![d] = All(d, "INITIALIZE")]
          /\ spc' = [spc EXCEPT ![d] = "test"]
          /\ UNCHANGED pdState
       \/ /\ op = "START_MOD"
          /\ module' = IF pdState[d] = "READY" THEN [module EXCEPT ![d] = All(d, "RUNNING")]
                       ELSE module
          /\ pdState' = [pdState EXCEPT ![d] = "RUNNING"]
          /\ spc' = spc
       \/ /\ op = "KILL"
          /\ pdState' = [pdState EXCEPT ![d] = "IDLE"]
          /\ spc' = [spc EXCEPT ![d] = "stopped"]
          /\ UNCHANGED module
       \/ /\ op = "DATA" \/ (op = "INIT_MOD" /\ pdState[d] # "INIT")
          /\ UNCHANGED <<pdState, module, spc>>
  /\ UNCHANGED <<cache, wrote, counters, killed>>

AllReady(d) == \A m \in ModulesOf[d] : module[d][m] \in {"notify", "READY"}
ToFather(d, op) == <<Sample(d, NbClient[d] + 1, op)>>

\* The rest of deliver_packet for an INIT_MOD, without state_mutex: the test ...
Announces(d) == pdState[d] = "INIT" /\ AllReady(d)
TestReady(d) ==
  /\ spc[d] = "test"
  /\ spc' = [spc EXCEPT ![d] = IF Announces(d) THEN "announce" ELSE "loop"]
  /\ UNCHANGED <<cache, servers, wrote, pdState, module, counters, killed>>

\* ... and CLIENT_READY, then the state.
SendReady(d) ==
  /\ spc[d] = "announce"
  /\ Write(d, ToFather(d, "CLIENT_READY"))
  /\ pdState' = [pdState EXCEPT ![d] = "READY"]
  /\ spc' = [spc EXCEPT ![d] = "loop"]
  /\ UNCHANGED <<servers, module, counters, killed>>

\* The end of ldp_start_comp_server before its loop.
SendInit(d) ==
  /\ spc[d] = "joined"
  /\ Write(d, ToFather(d, "CLIENT_INIT"))
  /\ pdState' = [pdState EXCEPT ![d] = "INIT"]
  /\ spc' = [spc EXCEPT ![d] = "loop"]
  /\ UNCHANGED <<servers, module, counters, killed>>

-----------------------------------------------------------------------------
(* The modules of a domain.                                                *)

\* The entry point of INITIALIZE is over: READY.
Initialized(d, m) ==
  /\ module[d][m] = "INITIALIZE"
  /\ SlowInit => spc[d] \notin {"test", "announce"}
  /\ module' = [module EXCEPT ![d][m] = "notify"]
  /\ UNCHANGED <<spc, cache, servers, wrote, pdState, counters, killed>>

\* ldp_mod_init_notify, under state_mutex.
Notify(d, m) ==
  /\ module[d][m] = "notify"
  /\ module' = [module EXCEPT ![d][m] = "READY"]
  /\ IF pdState[d] = "INIT" /\ AllReady(d)
     THEN /\ Write(d, ToFather(d, "CLIENT_READY"))
          /\ pdState' = [pdState EXCEPT ![d] = "READY"]
     ELSE UNCHANGED <<cache, wrote, pdState>>
  /\ UNCHANGED <<spc, servers, counters, killed>>

Running(d) == pdState[d] = "RUNNING" /\ \A m \in ModulesOf[d] : module[d][m] = "RUNNING"

SendData(d) ==
  /\ Up(d) /\ Running(d)
  /\ LET data == Sample(d, DataInterface[d], "DATA") IN
       /\ Len(OnTopic(wrote[d], Routing[data.link].topic)) < MaxData
       /\ Write(d, <<data>>)
  /\ UNCHANGED <<spc, servers, pdState, module, counters, killed>>

\* A module kills the platform.
SendKill(d) ==
  /\ Up(d) /\ Running(d) /\ ~killed
  /\ Write(d, ToFather(d, "KILL"))
  /\ killed' = TRUE
  /\ UNCHANGED <<spc, servers, pdState, module, counters>>

MainServer == Join(Main) \/ (\E t \in Topic : Visit(Main, t)) \/ MainConsumes
DomainServer(d) ==
  \/ Join(d) \/ SendInit(d) \/ (\E t \in Topic : Visit(d, t)) \/ DomainConsumes(d)
  \/ TestReady(d) \/ SendReady(d)
Modules(d) == \E m \in ModulesOf[d] : Initialized(d, m) \/ Notify(d, m)

DdsNext ==
  \/ MainServer
  \/ \E d \in PD : DomainServer(d) \/ Modules(d) \/ SendData(d) \/ SendKill(d)

\* The servers loop and the threads of the modules run.
DdsSpec ==
  /\ DdsInit /\ [][DdsNext]_ddsVars
  /\ WF_ddsVars(MainServer)
  /\ \A d \in PD : WF_ddsVars(DomainServer(d)) /\ WF_ddsVars(Modules(d))

-----------------------------------------------------------------------------
(* Properties.                                                             *)

\* The links whose packets are for a port that a process reads.
LinksTo == [p \in Runtime |->
  {l \in DdsLink : \E i \in DOMAIN InfoPort[p] : ReadPort(p, i) = Routing[l].tport}]

\* Whatever else is on a topic, a process consumes what another wrote to it
\* there in order, once, with no gap, each on an interface that reads its
\* port: the tables, the filter and the history of the readers together.
DdsInOrder ==
  \A p, q \in Runtime :
    LET consumed == Among(got[p], {l \in DdsLink : l[1] = q})
        addressed == Among(wrote[q], LinksTo[p])
    IN /\ \A t \in Topic : IsPrefix(OnTopic(consumed, t), OnTopic(addressed, t))
       /\ \A i \in DOMAIN consumed :
            ReadPort(p, TakenOn[p][consumed[i].link]) = Routing[consumed[i].link].tport

\* The main process starts the modules when every domain is READY: the count
\* of CLIENT_READY it goes by is one of domains, whoever announced them.
DdsStartsWhenReady ==
  (\E i \in DOMAIN wrote[Main] : wrote[Main][i].op = "START_MOD")
    => \A d \in PD : pdState[d] # "INIT" /\ \A m \in ModulesOf[d] : module[d][m] # "INITIALIZE"

\* In whatever order the processes join, every domain comes to run all its
\* modules: no message of the start-up is lost on a reader that is not there yet.
DdsEveryoneRuns ==
  <>(\A d \in PD : /\ pdState[d] = "RUNNING" \/ spc[d] = "stopped"
                   /\ \A m \in ModulesOf[d] : module[d][m] = "RUNNING")

\* A KILL, of whatever domain, stops the servers of all of them.
DdsKillStops == killed ~> (\A p \in Runtime : spc[p] = "stopped")
=============================================================================
