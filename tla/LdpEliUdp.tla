----------------------------- MODULE LdpEliUdp -----------------------------
(***************************************************************************)
(* ELI messages between platforms as UDP datagrams: cut into fragments by  *)
(* ldp_ELI_udp_msg_fragment_and_send, put together again in a channel of   *)
(* the link by ldp_ELI_udp_msg_defragment (eli/ldp_ELI_udp.c), and given   *)
(* to the protection domain (ldp_ELI_UDP_PD_read_msg).                     *)
(*                                                                         *)
(* A byte of a message is <<sender, message, position>>; the first ones     *)
(* are the ELI header, with the size of the message.  A sender, a module    *)
(* of the other platform, uses the channel of its mod_id.  Every caller in  *)
(* the repository starts each message with the same channel_counter         *)
(* ("restarted"); the interface of the function would let it go on from a   *)
(* message to the next ("continued").  The network keeps datagrams in       *)
(* order and may lose some.                                                 *)
(***************************************************************************)
EXTENDS Integers, Sequences, SequencesExt, FiniteSetsExt

CONSTANTS
  Sender,        \* the modules of the other platform: their mod_id
  ChannelNum,    \* the most channel_num of a link
  Sizes,         \* by sender: sizes of the messages that it sends
  FragmentSize,  \* LDP_ELI_UDP_MSG_MAXSIZE - LDP_ELI_UDP_HEADER_SIZE
  BufferSize,    \* buffer_size of the channels
  FirstCounter,  \* channel_counter given for each message
  MaxDatagrams,  \* datagrams in the network
  LostWhen       \* for each use of the counter: datagrams lost in a behaviour

ASSUME EliAssumption ==
  /\ ChannelNum \in Nat \ {0} /\ FragmentSize \in Nat \ {0} /\ FirstCounter \in Nat
  /\ BufferSize \in Nat /\ IsFiniteSet(Sender)
  /\ \A s \in Sender : Sizes[s] \in Seq(1..BufferSize)
  /\ \A use \in DOMAIN LostWhen : use \in {"restarted", "continued"} /\ LostWhen[use] \in Nat

VARIABLES
  counting,   \* "restarted" or "continued"
  sent,       \* by sender: messages begun
  toSend,     \* by sender: datagrams of its message still to send
  counter,    \* by sender: the counter that it gives
  datagrams, lostDatagrams,
  channels,   \* the channels of the receiving link
  received    \* contents of the messages given to the domain

eliVars == <<counting, sent, toSend, counter, datagrams, lostDatagrams, channels, received>>

\* ldp_initialized_PF_link
EliInit ==
  /\ counting \in DOMAIN LostWhen
  /\ sent = [s \in Sender |-> 0] /\ toSend = [s \in Sender |-> <<>>]
  /\ counter = [s \in Sender |-> FirstCounter]
  /\ datagrams = <<>> /\ lostDatagrams = {} /\ received = <<>>
  /\ \E n \in 1..ChannelNum :
       channels = [c \in 1..n |-> [is_used |-> FALSE, id |-> 0, counter |-> 0, buffer |-> <<>>]]

-----------------------------------------------------------------------------
(* Sending.                                                                *)

\* ldp_ELI_udp_compute_fragment
NumberFragment(size) ==
  IF size < FragmentSize THEN 1
  ELSE size \div FragmentSize + (IF size % FragmentSize = 0 THEN 0 ELSE 1)

MsgPart(k, n) ==
  CASE n = 1 -> "FULL" [] n > 1 /\ k = 1 -> "BEGIN" [] n > 1 /\ k = n -> "END" [] OTHER -> "MIDDLE"

MessageBytes(s, i) == [k \in 1..Sizes[s][i] |-> <<s, i, k>>]

\* Fragment k of n, with its header.
Datagram(s, i, k, n) ==
  [msg_part |-> MsgPart(k, n), id |-> s, counter |-> (counter[s] + k) % 65536,
   payload |-> SubSeq(MessageBytes(s, i), (k - 1) * FragmentSize + 1,
                      IF k = n THEN Sizes[s][i] ELSE k * FragmentSize)]

FragmentMessage(s) ==
  /\ toSend[s] = <<>> /\ sent[s] < Len(Sizes[s])
  /\ LET i == sent[s] + 1
         n == NumberFragment(Sizes[s][i]) IN
       /\ sent' = [sent EXCEPT ![s] = i]
       /\ toSend' = [toSend EXCEPT ![s] = [k \in 1..n |-> Datagram(s, i, k, n)]]
       /\ counter' = IF counting = "continued" THEN [counter EXCEPT ![s] = @ + n] ELSE counter
  /\ UNCHANGED <<counting, datagrams, lostDatagrams, channels, received>>

SendDatagram(s) ==
  /\ toSend[s] # <<>> /\ Len(datagrams) < MaxDatagrams
  /\ datagrams' = Append(datagrams, Head(toSend[s]))
  /\ toSend' = [toSend EXCEPT ![s] = Tail(@)]
  /\ UNCHANGED <<counting, sent, counter, lostDatagrams, channels, received>>

LoseDatagram ==
  /\ datagrams # <<>> /\ Cardinality(lostDatagrams) < LostWhen[counting]
  /\ lostDatagrams' = lostDatagrams \cup {Head(datagrams).payload[1]}
  /\ datagrams' = Tail(datagrams)
  /\ UNCHANGED <<counting, sent, toSend, counter, channels, received>>

-----------------------------------------------------------------------------
(* Receiving.                                                              *)

\* The channel in use for this sender, else the first free one, set anew (its
\* buffer keeps what it held); there may be none.
InUse(d) == {c \in DOMAIN channels : channels[c].is_used /\ channels[c].id = d.id}
Chosen(d) == IF InUse(d) # {} THEN InUse(d) ELSE {c \in DOMAIN channels : ~channels[c].is_used}
Found(c, d) ==
  IF InUse(d) # {} THEN channels[c]
  ELSE [channels[c] EXCEPT !.is_used = TRUE, !.id = d.id, !.counter = 0]

Fits(ch, d) == Len(ch.buffer) + Len(d.payload) <= BufferSize

\* update_channel_buffer
Updated(ch, d) ==
  IF Fits(ch, d) THEN [ch EXCEPT !.buffer = @ \o d.payload, !.counter = d.counter]
  ELSE [ch EXCEPT !.buffer = <<>>]

StartsMessage(d) == d.msg_part \in {"FULL", "BEGIN"}

\* A message starts at the beginning of the buffer.
Rewound(ch, d) == IF StartsMessage(d) THEN [ch EXCEPT !.buffer = <<>>] ELSE ch

Follows_Any(ch, d) == TRUE
Follows(ch, d) == ch.counter = d.counter - 1

\* The size in the header is that of what was received.
HasItsSize(content) == LET b == content[1] IN b[3] = 1 /\ Len(content) = Sizes[b[1]][b[2]]

\* ldp_ELI_udp_msg_defragment: a datagram is added to the message in its channel,
\* unless it is not the next one or does not fit.
Defragment(ch, d) ==
  LET lostPacket == ~StartsMessage(d) /\ ~Follows(ch, d) IN
    [channel |-> IF lostPacket THEN ch ELSE Updated(ch, d),
     complete |-> d.msg_part \in {"FULL", "END"} /\ ~lostPacket /\ Fits(ch, d)]

\* ldp_ELI_UDP_PD_read_msg: a complete message is given to the domain and its
\* channel is free again, one of another size keeps it.  Without a channel the
\* datagram is dropped.
PDReadMsg ==
  /\ datagrams # <<>>
  /\ datagrams' = Tail(datagrams)
  /\ LET d == Head(datagrams) IN
       \/ Chosen(d) = {} /\ UNCHANGED <<channels, received>>
       \/ /\ Chosen(d) # {}
          /\ LET c == Min(Chosen(d))
                 r == Defragment(Rewound(Found(c, d), d), d)
                 given == r.complete /\ HasItsSize(r.channel.buffer) IN
               /\ channels' = [channels EXCEPT ![c] = [r.channel EXCEPT !.is_used = ~given]]
               /\ received' = IF given THEN Append(received, r.channel.buffer) ELSE received
  /\ UNCHANGED <<counting, sent, toSend, counter, lostDatagrams>>

EliNext == PDReadMsg \/ LoseDatagram \/ \E s \in Sender : FragmentMessage(s) \/ SendDatagram(s)

-----------------------------------------------------------------------------

EliTypeOK ==
  /\ counting \in DOMAIN LostWhen
  /\ \A s \in Sender : sent[s] \in 0..Len(Sizes[s])
  /\ \A c \in DOMAIN channels :
       /\ channels[c].is_used \in BOOLEAN /\ channels[c].id \in Sender \cup {0}
       /\ channels[c].counter \in 0..65535 /\ Len(channels[c].buffer) <= BufferSize

\* A message given to a domain is one that was sent, whole, and none is given
\* twice: the channel_counter is there to detect missing packets.
EliWhole ==
  /\ \A k \in DOMAIN received :
       \E s \in Sender : \E i \in 1..sent[s] : received[k] = MessageBytes(s, i)
  /\ \A j, k \in DOMAIN received : j # k => received[j] # received[k]

\* With a channel for each sender, a message is given unless one of its own
\* datagrams is lost: neither what an incomplete one left in the channel nor the
\* channels of the others spoil it.
EliArrives ==
  Cardinality(Sender) <= Len(channels) =>
    \A s \in Sender : \A i \in 1..sent[s] :
      \/ \E b \in lostDatagrams : b[1] = s /\ b[2] = i
      \/ toSend[s] # <<>> \/ \E k \in DOMAIN datagrams : datagrams[k].id = s
      \/ Contains(received, MessageBytes(s, i))
=============================================================================
