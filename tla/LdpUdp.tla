------------------------------- MODULE LdpUdp -------------------------------
(***************************************************************************)
(* Messages over a UDP interface: cut into packets by ldp_UDP_write, put   *)
(* together again by ldp_UDP_read in a buffer for each sending module, and *)
(* consumed by the server of a protection domain (ldp_core_udp.c,          *)
(* udp/ldp_udp_comp_server.c).                                             *)
(*                                                                         *)
(* A packet is [module, id, seq, total].  The network loses packets, and   *)
(* may deliver them out of order; packets are not duplicated and modules   *)
(* do not restart their numbering.                                         *)
(***************************************************************************)
EXTENDS Naturals, Sequences, SequencesExt, FiniteSetsExt

CONSTANTS
  Module,     \* the sending modules: numbers above 0, which means no module
  Buffers,    \* the most msg_buffer_count of an interface; at least one buffer
  Packets,    \* packets of each message of a module, by msg_id
  MaxLost,    \* packets lost in a behaviour
  MaxInFlight \* packets in the network

ASSUME UdpAssumption ==
  /\ Module \subseteq Nat \ {0} /\ IsFiniteSet(Module) /\ Buffers \in Nat \ {0}
  /\ Packets \in Seq(Nat \ {0}) /\ MaxLost \in Nat /\ MaxInFlight \in Nat

Id == DOMAIN Packets
Chunk == UNION {1..Packets[i] : i \in Id}
Stale == 0   \* the content of a chunk not yet written

VARIABLES
  ordered,      \* whether the network keeps packets in order
  msg_id, sent_count,   \* by module: the message being written, packets written of it
  network,      \* packets on their way
  lost,         \* packets lost
  read_msgs,    \* the buffers
  udpConsumed   \* messages consumed: <<module, id of the content of each chunk>>

udpVars == <<ordered, msg_id, sent_count, network, lost, read_msgs, udpConsumed>>

\* generate_buffer
EmptyBuffer == [module_id |-> 0, read_msg_ID |-> 0, recieved_packets |-> 0,
                msg_packet_number |-> 0, is_free |-> TRUE,
                read_msg |-> [c \in Chunk |-> Stale]]

UdpInit ==
  /\ ordered \in BOOLEAN
  /\ msg_id = [m \in Module |-> 1] /\ sent_count = [m \in Module |-> 0]
  /\ network = <<>> /\ lost = {} /\ udpConsumed = <<>>
  /\ \E n \in 1..Buffers : read_msgs = [b \in 1..n |-> EmptyBuffer]

-----------------------------------------------------------------------------

Packet(m) == [module |-> m, id |-> msg_id[m], seq |-> sent_count[m] + 1,
              total |-> Packets[msg_id[m]]]

\* One turn of the loop of ldp_UDP_write; after the last packet, the next message.
UDPWrite(m) ==
  /\ msg_id[m] \in Id /\ Len(network) < MaxInFlight
  /\ network' = Append(network, Packet(m))
  /\ IF sent_count[m] + 1 = Packets[msg_id[m]]
     THEN /\ msg_id' = [msg_id EXCEPT ![m] = @ + 1]
          /\ sent_count' = [sent_count EXCEPT ![m] = 0]
     ELSE /\ sent_count' = [sent_count EXCEPT ![m] = @ + 1]
          /\ UNCHANGED msg_id
  /\ UNCHANGED <<ordered, lost, read_msgs, udpConsumed>>

Lose ==
  /\ Cardinality(lost) < MaxLost
  /\ \E k \in DOMAIN network :
       /\ lost' = lost \cup {network[k]}
       /\ network' = RemoveAt(network, k)
  /\ UNCHANGED <<ordered, msg_id, sent_count, read_msgs, udpConsumed>>

-----------------------------------------------------------------------------

\* pick_msg_buffer: the buffer of the module, else the first one never used.
Owned(b, m) == read_msgs[b].module_id = m
NeverUsed(b) == read_msgs[b].is_free /\ read_msgs[b].module_id = 0
Candidates(m) ==
  IF \E b \in DOMAIN read_msgs : Owned(b, m)
  THEN {b \in DOMAIN read_msgs : Owned(b, m)} ELSE {b \in DOMAIN read_msgs : NeverUsed(b)}

\* insert_msg_into_buffer: cases 1 and 3 override the message in the buffer,
\* case 2 completes it, and a packet of an earlier message is ignored.
Overrides_Never(buf, id) == buf.is_free
Overrides(buf, id) == buf.is_free \/ buf.read_msg_ID < id

Inserted(buf, p) ==
  CASE Overrides(buf, p.id) ->
         [buf EXCEPT !.module_id = p.module, !.read_msg_ID = p.id, !.is_free = FALSE,
                     !.recieved_packets = 1, !.msg_packet_number = p.total,
                     !.read_msg[p.seq] = p.id]
    [] ~Overrides(buf, p.id) /\ buf.read_msg_ID = p.id ->
         [buf EXCEPT !.recieved_packets = @ + 1, !.read_msg[p.seq] = p.id]
    [] OTHER -> buf

\* get_first_read_message
Complete(buf) == buf.recieved_packets = buf.msg_packet_number /\ ~buf.is_free

\* The loop of the server consumes the message that a packet completed.
Consumption(buf) ==
  IF Complete(buf)
  THEN Append(udpConsumed, <<buf.module_id, [c \in 1..buf.msg_packet_number |-> buf.read_msg[c]]>>)
  ELSE udpConsumed

\* ldp_UDP_read
UDPRead ==
  \E k \in DOMAIN network :
    /\ ordered => k = 1
    /\ LET p == network[k] IN
         \/ /\ Candidates(p.module) # {}
            /\ LET b == Min(Candidates(p.module))
                   buf == Inserted(read_msgs[b], p) IN
                 /\ read_msgs' = [read_msgs EXCEPT ![b] =
                                    [buf EXCEPT !.is_free = @ \/ Complete(buf)]]
                 /\ udpConsumed' = Consumption(buf)
         \/ /\ Candidates(p.module) = {}   \* LDP_ERROR: no buffer for this module
            /\ UNCHANGED <<read_msgs, udpConsumed>>
    /\ network' = RemoveAt(network, k)
    /\ UNCHANGED <<ordered, msg_id, sent_count, lost>>

UdpNext == Lose \/ UDPRead \/ \E m \in Module : UDPWrite(m)

-----------------------------------------------------------------------------

UdpTypeOK ==
  /\ ordered \in BOOLEAN /\ Cardinality(lost) <= MaxLost
  /\ \A m \in Module : msg_id[m] \in 1..(Len(Packets) + 1) /\ sent_count[m] \in Nat
  /\ \A b \in DOMAIN read_msgs :
       /\ read_msgs[b].module_id \in Module \cup {0} /\ read_msgs[b].is_free \in BOOLEAN
       /\ read_msgs[b].recieved_packets \in 0..read_msgs[b].msg_packet_number
       /\ \A c \in Chunk : read_msgs[b].read_msg[c] \in Id \cup {Stale}

\* The message consumed at place k is message i of module m, whole.
WholeMessage(m, i) == <<m, [c \in 1..Packets[i] |-> i]>>
IsMessage(k, m, i) == udpConsumed[k] = WholeMessage(m, i)

\* A message consumed is made of its own packets only, and none is consumed
\* twice; if the network keeps the order, the messages of a module are consumed
\* in theirs (insert_msg_into_buffer, get_first_read_message).
UdpWhole ==
  /\ \A k \in DOMAIN udpConsumed : \E m \in Module, i \in Id : IsMessage(k, m, i)
  /\ \A j, k \in DOMAIN udpConsumed : \A m \in Module, i, l \in Id :
       j < k /\ IsMessage(j, m, i) /\ IsMessage(k, m, l) => i # l /\ (ordered => i < l)

\* In a network that keeps the order, a message is consumed unless a packet of
\* it is lost: what an incomplete message left in the buffer does no harm to the
\* next one.  This needs a buffer for each module (pick_msg_buffer).
Touched(m, i) == \E p \in lost \cup ToSet(network) : p.module = m /\ p.id = i
UdpArrives ==
  ordered /\ Cardinality(Module) <= Len(read_msgs) =>
    \A m \in Module : \A i \in 1..(msg_id[m] - 1) :
      Touched(m, i) \/ \E k \in DOMAIN udpConsumed : IsMessage(k, m, i)
=============================================================================
