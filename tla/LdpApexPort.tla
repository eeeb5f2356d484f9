---------------------------- MODULE LdpApexPort ----------------------------
(***************************************************************************)
(* Queuing ports between the main process and the protection domains of    *)
(* an ARINC 653 system (apex_port/): bounded queues, senders that wait for *)
(* room without limit, and servers that scan their ports in turn.          *)
(*                                                                         *)
(* Process 0 is the main process; its interfaces lead to the domains.      *)
(* Interface k of a domain leads to Peer[p][k].  Messages do not matter    *)
(* here: a queue is the number of messages in it.                          *)
(***************************************************************************)
EXTENDS Naturals, Sequences, FiniteSets

CONSTANTS
  Peer,     \* for each process, the process at the other end of each interface
  Depth,    \* MAX_NB_MESSAGE of a port
  MaxSends  \* messages sent by the modules of a domain

Process == DOMAIN Peer
PDomain == Process \ {0}

ASSUME PortAssumption ==
  /\ 0 \in Process /\ \A p \in Process : Peer[p] \in Seq(Process \ {p})
  /\ Depth \in Nat \ {0} /\ MaxSends \in Nat

VARIABLES
  misconfigured, \* the interfaces <<process, number>> whose ports cannot be used
  attached,      \* by process: its interfaces attached
  server,        \* by process: "attach", "scan", "stopped"
  at,            \* by process: the interface its loop is at
  received_message,
  queue,         \* by sender and receiver: messages in the port
  broadcast,     \* the domains that the main process has still to send to
  waiting,       \* by domain: the process that a module of it sends to
  sends          \* by domain: messages sent by its modules

portVars == <<misconfigured, attached, server, at, received_message, queue, broadcast,
              waiting, sends>>

Nobody == Cardinality(Process)

PortInit ==
  /\ misconfigured \in {{}} \cup {{<<p, Len(Peer[p])>>} : p \in Process}
  /\ attached = [p \in Process |-> {}] /\ server = [p \in Process |-> "attach"]
  /\ at = [p \in Process |-> 1] /\ received_message = [p \in Process |-> FALSE]
  /\ queue = [p \in Process |-> [r \in Process |-> 0]]
  /\ broadcast = <<>>
  /\ waiting = [p \in PDomain |-> Nobody] /\ sends = [p \in PDomain |-> 0]

-----------------------------------------------------------------------------
(* Attachment.                                                             *)

AttachedBefore(p) == 1..(at[p] - 1)

\* ldp_attach_interface_apex_port: the ports of an interface exist, have the
\* expected directions and sizes.
Usable(p, k) == <<p, k>> \notin misconfigured

\* A domain that starts sends CLIENT_INIT to the main process.
Starts(p) ==
  IF p = 0 THEN UNCHANGED queue
  ELSE queue[p][0] < Depth /\ queue' = [queue EXCEPT ![p][0] = @ + 1]

\* ldp_apex_attach_component_ports, ldp_apex_attach_father_ports: one interface
\* after the other; the first failure detaches those attached before it.
Attach(p) ==
  /\ server[p] = "attach"
  /\ \/ /\ Usable(p, at[p]) /\ at[p] < Len(Peer[p])
        /\ attached' = [attached EXCEPT ![p] = @ \cup {at[p]}]
        /\ at' = [at EXCEPT ![p] = @ + 1]
        /\ UNCHANGED <<server, queue>>
     \/ /\ Usable(p, at[p]) /\ at[p] = Len(Peer[p])
        /\ attached' = [attached EXCEPT ![p] = @ \cup {at[p]}]
        /\ server' = [server EXCEPT ![p] = "scan"]
        /\ at' = [at EXCEPT ![p] = 1]
        /\ Starts(p)
     \/ /\ ~Usable(p, at[p])
        /\ attached' = [attached EXCEPT ![p] = @ \ AttachedBefore(p)]
        /\ server' = [server EXCEPT ![p] = "stopped"]
        /\ UNCHANGED <<at, queue>>
  /\ UNCHANGED <<misconfigured, received_message, broadcast, waiting, sends>>

-----------------------------------------------------------------------------
(* Sending: ldp_IP_write waits for room, without limit.                    *)

\* A module of a domain begins to send to one of its interfaces.
ModuleSends(p) ==
  /\ server[p] = "scan" /\ waiting[p] = Nobody /\ sends[p] < MaxSends
  /\ sends' = [sends EXCEPT ![p] = @ + 1]
  /\ \E k \in attached[p] : waiting' = [waiting EXCEPT ![p] = Peer[p][k]]
  /\ UNCHANGED <<misconfigured, attached, server, at, received_message, queue, broadcast>>

Room(p, r) == queue[p][r] < Depth

ModuleSent(p) ==
  /\ waiting[p] # Nobody /\ Room(p, waiting[p])
  /\ queue' = [queue EXCEPT ![p][waiting[p]] = @ + 1]
  /\ waiting' = [waiting EXCEPT ![p] = Nobody]
  /\ UNCHANGED <<misconfigured, attached, server, at, received_message, broadcast, sends>>

\* The main process sends to the domains in turn, and does nothing else meanwhile.
MainSent ==
  /\ broadcast # <<>> /\ Room(0, Head(broadcast))
  /\ queue' = [queue EXCEPT ![0][Head(broadcast)] = @ + 1]
  /\ broadcast' = Tail(broadcast)
  /\ UNCHANGED <<misconfigured, attached, server, at, received_message, waiting, sends>>

-----------------------------------------------------------------------------
(* The loops of the servers.                                               *)

\* ldp_IP_read: a message that is there, without waiting.
Taken(from, p) ==
  queue[from][p] > 0 /\ queue' = [queue EXCEPT ![from][p] = @ - 1]

Scanning(p) == server[p] = "scan" /\ (p = 0 => broadcast = <<>>)

LastPort_ButOne(p) == Len(Peer[p]) - 1
LastPort(p) == Len(Peer[p])

\* One turn of the loop on the interfaces; a message to the main process may
\* make it send one to every domain.
Receive(p) ==
  /\ Scanning(p) /\ at[p] <= LastPort(p)
  /\ LET from == Peer[p][at[p]] IN
       \/ /\ Taken(from, p)
          /\ received_message' = [received_message EXCEPT ![p] = TRUE]
          /\ \/ UNCHANGED broadcast
             \/ p = 0 /\ broadcast' = Peer[0]
       \/ /\ queue[from][p] = 0
          /\ UNCHANGED <<queue, received_message, broadcast>>
  /\ at' = [at EXCEPT ![p] = @ + 1]
  /\ UNCHANGED <<misconfigured, attached, server, waiting, sends>>

\* The next scan, after an idle wait (TIMED_WAIT) if this one received nothing.
NextScan(p) ==
  /\ Scanning(p) /\ at[p] > LastPort(p)
  /\ at' = [at EXCEPT ![p] = 1]
  /\ received_message' = [received_message EXCEPT ![p] = FALSE]
  /\ UNCHANGED <<misconfigured, attached, server, queue, broadcast, waiting, sends>>

PortServer(p) == Attach(p) \/ Receive(p) \/ NextScan(p)
PortNext == MainSent \/ \E p \in Process : \/ PortServer(p)
                                           \/ p # 0 /\ (ModuleSends(p) \/ ModuleSent(p))

-----------------------------------------------------------------------------

PortTypeOK ==
  /\ \A p \in Process :
       /\ attached[p] \subseteq 1..Len(Peer[p]) /\ server[p] \in {"attach", "scan", "stopped"}
       /\ at[p] \in 1..(Len(Peer[p]) + 1) /\ received_message[p] \in BOOLEAN
       /\ \A r \in Process : queue[p][r] \in 0..Depth
  /\ \A p \in PDomain : waiting[p] \in Process \cup {Nobody} /\ sends[p] \in 0..MaxSends

\* A server runs with all its interfaces attached or stops with none: a port is
\* not left attached by a start that failed (ldp_apex_attach_component_ports,
\* ldp_apex_attach_father_ports).
AttachedAllOrNone ==
  \A p \in Process :
    /\ server[p] = "scan" => attached[p] = 1..Len(Peer[p])
    /\ server[p] = "stopped" => attached[p] = {}

\* When every server starts, all that is sent is received and nobody waits for
\* ever for room: neither the main process in the middle of a broadcast nor a
\* domain whose modules send to each other and to the main process.
Quiet == /\ broadcast = <<>> /\ \A p \in PDomain : waiting[p] = Nobody
         /\ \A p, r \in Process : queue[p][r] = 0
PortsServed == misconfigured = {} => []<>Quiet
=============================================================================
