---------------------------- MODULE LdpTcpStream ----------------------------
(***************************************************************************)
(* Messages over a TCP connection: ldp_IP_write, whose sends may be        *)
(* partial, and the reading loop of a protection domain, which cuts the    *)
(* stream into messages again (ldp_tcp.c, TCP_read_and_parse_buffer).      *)
(*                                                                         *)
(* A byte is <<message, position>>: the first Header positions are the     *)
(* header, from which the size of the message is known.  The read buffer   *)
(* keeps what earlier reads left in it.                                    *)
(***************************************************************************)
EXTENDS Naturals, Sequences, FiniteSetsExt

CONSTANTS
  Writer,     \* the threads that write on the connection
  Payload,    \* param_size of each message, by number
  Header,     \* LDP_HEADER_TCP_SIZE
  BufSize,    \* bytes of the read buffer
  NoByte,     \* content of the buffer before the first read
  CutsMessage, \* whether a message may be cut: its peer disappears, or the 30 s
               \* of the client's socket pass, in the middle of its bytes
  OneWriter    \* whether, when a send may be partial, one thread writes at a time

Message == DOMAIN Payload

ASSUME StreamAssumption ==
  /\ Writer # {} /\ Payload \in [Message -> Nat] /\ Header \in Nat \ {0}
  /\ BufSize \in Nat /\ \A m \in Message : Header + Payload[m] <= BufSize
  /\ CutsMessage \in BOOLEAN /\ OneWriter \in BOOLEAN

VARIABLES
  tcpPartial,  \* whether a send may take a part of the bytes
  todo,        \* messages not yet written
  writing,     \* by each writer: the bytes it has still to send
  written,     \* messages whose bytes began to be sent, in that order
  stream,      \* bytes in the connection
  peer,        \* "open" or "closed"
  rpc,         \* the reader: "poll", "header", "body", "consume", "closed"
  buffer, offset, bytes_read,
  delivered    \* messages consumed

tcpVars == <<tcpPartial, todo, writing, written, stream, peer, rpc, buffer, offset,
             bytes_read, delivered>>

Size(m) == Header + Payload[m]
Bytes(m) == [k \in 1..Size(m) |-> <<m, k>>]

TcpInit ==
  /\ tcpPartial \in BOOLEAN
  /\ todo = Message /\ written = <<>> /\ writing = [w \in Writer |-> <<>>]
  /\ stream = <<>> /\ peer = "open" /\ delivered = <<>>
  /\ rpc = "poll" /\ buffer = [i \in 0..(BufSize - 1) |-> NoByte]
  /\ offset = 0 /\ bytes_read = 0

-----------------------------------------------------------------------------
(* ldp_IP_write has no mutex, and is called by every thread that sends.    *)

Alone(w) == \A v \in Writer \ {w} : writing[v] = <<>>

IPWrite(w) ==
  /\ peer = "open" /\ writing[w] = <<>> /\ (OneWriter /\ tcpPartial => Alone(w))
  /\ \E m \in todo :
       /\ todo' = todo \ {m}
       /\ writing' = [writing EXCEPT ![w] = Bytes(m)]
  /\ UNCHANGED <<tcpPartial, written, stream, peer, rpc, buffer, offset, bytes_read, delivered>>

Rest_All(s, n) == <<>>
Rest(s, n) == SubSeq(s, n + 1, Len(s))

\* One call of apr_socket_send: all the bytes, or the first few.
SocketSend(w) ==
  /\ peer = "open" /\ writing[w] # <<>>
  /\ \E n \in 1..Len(writing[w]) :
       /\ n < Len(writing[w]) => tcpPartial
       /\ stream' = stream \o SubSeq(writing[w], 1, n)
       /\ writing' = [writing EXCEPT ![w] = Rest(@, n)]
  /\ written' = LET b == Head(writing[w]) IN
                  IF b[2] = 1 THEN Append(written, b[1]) ELSE written
  /\ UNCHANGED <<tcpPartial, todo, peer, rpc, buffer, offset, bytes_read, delivered>>

\* apr_socket_send fails, as when the timeout of a client's socket passes: the
\* rest of the message is not sent, and the connection goes on.
SendFails(w) ==
  /\ peer = "open" /\ writing[w] # <<>>
  /\ CutsMessage \/ Head(writing[w])[2] = 1
  /\ writing' = [writing EXCEPT ![w] = <<>>]
  /\ UNCHANGED <<tcpPartial, todo, written, stream, peer, rpc, buffer, offset, bytes_read,
                 delivered>>

\* The peer closes the connection, or disappears.
PeerCloses ==
  /\ peer = "open" /\ peer' = "closed"
  /\ CutsMessage \/ \A w \in Writer : writing[w] = <<>>
  /\ todo' = {} /\ writing' = [w \in Writer |-> <<>>]
  /\ UNCHANGED <<tcpPartial, written, stream, rpc, buffer, offset, bytes_read, delivered>>

-----------------------------------------------------------------------------
(* The reader.                                                             *)

\* recv: the first n bytes of the stream into the buffer, from a position on.
Received(at, n) ==
  [i \in DOMAIN buffer |-> IF i \in at..(at + n - 1) THEN stream[i - at + 1] ELSE buffer[i]]

Poll ==
  /\ rpc = "poll"
  /\ \/ /\ stream # <<>>
        /\ \E n \in 1..Min({Len(stream), BufSize}) :
             /\ buffer' = Received(0, n)
             /\ bytes_read' = n
             /\ stream' = Rest(stream, n)
        /\ offset' = 0 /\ rpc' = "header"
     \/ /\ stream = <<>> /\ peer = "closed"
        /\ rpc' = "closed"
        /\ UNCHANGED <<buffer, offset, bytes_read, stream>>
  /\ UNCHANGED <<tcpPartial, todo, writing, written, peer, delivered>>

Remaining == bytes_read - offset

\* The partial message moved to the beginning of the buffer.
Moved == [i \in DOMAIN buffer |-> IF i < Remaining THEN buffer[offset + i] ELSE buffer[i]]

\* ldp_IP_read_exactly: n bytes, or those there are when the stream ends or the
\* timeout of a client's socket passes.
Exactly(n) == Min({n, Len(stream)})
CanRead(n) == Len(stream) >= n \/ peer = "closed" \/ CutsMessage

\* ldp_complete_msg: nothing when the buffer holds n bytes of the message, else
\* the move and the bytes that miss; an error is not told from success.
CompleteMsg(n, next) ==
  \/ /\ Remaining >= n
     /\ rpc' = next
     /\ UNCHANGED <<buffer, offset, bytes_read, stream>>
  \/ LET missing == n - Remaining
         got == Exactly(missing) IN
     /\ Remaining < n
     /\ CanRead(missing)
     /\ buffer' = [i \in DOMAIN buffer |->
                     IF i \in Remaining..(Remaining + got - 1)
                     THEN stream[i - Remaining + 1] ELSE Moved[i]]
     /\ stream' = Rest(stream, got)
     /\ offset' = 0 /\ bytes_read' = n
     /\ rpc' = next

\* The message whose header begins at offset, if there is one.
HeaderAt(m) == \A k \in 1..Header : buffer[offset + k - 1] = <<m, k>>

ReadHeader ==
  /\ rpc = "header"
  /\ CompleteMsg(Header, "body")
  /\ UNCHANGED <<tcpPartial, todo, writing, written, peer, delivered>>

\* A header that is not one ends the process (assert): no step.
ReadBody ==
  /\ rpc = "body"
  /\ \E m \in Message : HeaderAt(m) /\ CompleteMsg(Size(m), "consume")
  /\ UNCHANGED <<tcpPartial, todo, writing, written, peer, delivered>>

\* What is consumed: the message, or one whose bytes are not its own.
Torn == 0
Consumed(m) ==
  IF \A k \in 1..Size(m) : buffer[offset + k - 1] = <<m, k>> THEN m ELSE Torn

Step_HeaderOnly(m) == Header
Step(m) == Payload[m] + Header

Consume ==
  /\ rpc = "consume"
  /\ \E m \in Message :
       /\ HeaderAt(m)
       /\ delivered' = Append(delivered, Consumed(m))
       /\ offset' = offset + Step(m)
       /\ rpc' = IF offset' < bytes_read THEN "header" ELSE "poll"
  /\ UNCHANGED <<tcpPartial, todo, writing, written, stream, peer, buffer, bytes_read>>

-----------------------------------------------------------------------------

Reader == Poll \/ ReadHeader \/ ReadBody \/ Consume
TcpNext == PeerCloses \/ Reader \/ \E w \in Writer : IPWrite(w) \/ SocketSend(w) \/ SendFails(w)

TcpTypeOK ==
  /\ tcpPartial \in BOOLEAN /\ todo \subseteq Message /\ written \in Seq(Message)
  /\ peer \in {"open", "closed"}
  /\ rpc \in {"poll", "header", "body", "consume", "closed"}
  /\ offset \in 0..BufSize /\ bytes_read \in 0..BufSize
  /\ delivered \in Seq(Message \cup {Torn})

\* The connection is an ordered channel: whatever the sizes of the sends and
\* the reads, the messages consumed are those written, whole, once and in order
\* (ldp_complete_msg, TCP_read_and_parse_buffer), if none is cut and partial
\* sends have one writer at a time.
Channel == INSTANCE OrderedChannel
ImplementsChannel == Channel!Spec

\* Every message written is consumed in the end, and no header is misread; a
\* reader does not stay blocked on bytes that will not come.
StreamDelivered == []<>(Len(delivered) = Len(written))
=============================================================================
