--------------------------- MODULE MCLinksProofs ---------------------------
(***************************************************************************)
(* Proofs about the links: a TCP connection is an ordered channel, for any *)
(* sizes of the messages, of the buffer, of the sends and of the reads; the *)
(* state of every link stays well formed, whoever dies and whatever is     *)
(* lost; messages in datagrams are delivered whole, and arrive unless a    *)
(* part of theirs is lost.                                                 *)
(***************************************************************************)
EXTENDS MCLinks, FiniteSetTheorems, SequenceTheorems, WellFoundedInduction, TLAPS

(* The bytes on their way to the reader: what is left in its buffer, then  *)
(* what is in the connection.                                              *)
FlowLen == Remaining + Len(stream)
Flow == [i \in 1..FlowLen |->
           IF i <= Remaining THEN buffer[offset + i - 1] ELSE stream[i - Remaining]]

(* Where the messages begin in all the bytes that are ever sent, the end   *)
(* of the last one included.                                               *)
Layout(begins) ==
  /\ begins \in [1..(Len(written) + 1) -> Nat]
  /\ \A k \in 1..Len(written) : begins[k + 1] = begins[k] + Size(written[k])
  /\ \A j, k \in 1..(Len(written) + 1) : j <= k => begins[j] <= begins[k]

(* The flow is, byte for byte, the messages written and not yet consumed.  *)
Base(begins) == begins[Len(delivered) + 1]
Carries(begins) ==
  \A k \in (Len(delivered) + 1)..Len(written) : \A p \in 1..Size(written[k]) :
    LET i == begins[k] + p - Base(begins) IN i <= FlowLen => Flow[i] = <<written[k], p>>

(* What is missing from the end of the flow is what the writer of the last *)
(* message has still to send.                                              *)
Unsent(w) == writing[w] = <<>> \/ \E m \in Message : writing[w] = Bytes(m)
LastBytes(m, r) == [k \in 1..r |-> <<m, Size(m) - r + k>>]

Missing(r) ==
  \/ r = 0 /\ \A w \in Writer : Unsent(w)
  \/ /\ tcpPartial /\ written # <<>> /\ r \in 1..(Size(Last(written)) - 1)
     /\ \E w \in Writer : /\ writing[w] = LastBytes(Last(written), r)
                          /\ \A v \in Writer \ {w} : writing[v] = <<>>

(* What was written and not consumed is the flow and what is missing.      *)
Balances(begins, r) ==
  /\ Layout(begins) /\ Carries(begins) /\ Missing(r)
  /\ FlowLen + r = begins[Len(written) + 1] - Base(begins)

(* With partial sends and one writer, one thread has a message begun at a   *)
(* time.                                                                   *)
OneSends == tcpPartial => \A v, w \in Writer : writing[v] # <<>> /\ writing[w] # <<>> => v = w

(* What the reader has in its buffer at each of its steps.                 *)
ReaderAt ==
  /\ offset <= bytes_read
  /\ rpc \in {"poll", "closed"} => Remaining = 0
  /\ rpc = "header" => Remaining > 0
  /\ rpc = "body" => Remaining >= Header
  /\ rpc = "consume" => Len(delivered) < Len(written)
                        /\ Remaining >= Size(written[Len(delivered) + 1])

(* The types of the variables of a connection.                             *)
StreamTypes ==
  /\ TcpTypeOK
  /\ writing \in [Writer -> Seq(Message \X Nat)] /\ stream \in Seq(Message \X Nat)
  /\ DOMAIN buffer = 0..(BufSize - 1)
  /\ delivered \in Seq(Message) /\ Len(delivered) <= Len(written)

(* The invariant of a connection.                                          *)
StreamInv ==
  /\ StreamTypes /\ ReaderAt /\ OneSends
  /\ peer = "closed" => \A w \in Writer : writing[w] = <<>>
  /\ \E begins, r : Balances(begins, r)
-----------------------------------------------------------------------------
(* The smaller of two numbers.                                             *)
LEMMA LeastOfTwo ==
  ASSUME NEW a \in Nat, NEW b \in Nat
  PROVE  Min({a, b}) = IF a <= b THEN a ELSE b
<1> DEFINE m == IF a <= b THEN a ELSE b
<1>1. m \in {a, b} /\ \A y \in {a, b} : m <= y
  OBVIOUS
<1>2. \A x \in {a, b} : (\A y \in {a, b} : x <= y) => x = m
  OBVIOUS
<1>3. QED
  BY <1>1, <1>2 DEF Min

(* What is left of a sequence without its first n elements.                *)
LEMMA RestOf ==
  ASSUME NEW S, NEW s \in Seq(S), NEW n \in 0..Len(s)
  PROVE  /\ Rest(s, n) \in Seq(S) /\ Len(Rest(s, n)) = Len(s) - n
         /\ \A i \in 1..(Len(s) - n) : Rest(s, n)[i] = s[n + i]
<1>1. Len(s) \in Nat /\ \A i \in n + 1..Len(s) : s[i] \in S
  OBVIOUS
<1>2. /\ Rest(s, n) \in Seq(S)
      /\ Len(Rest(s, n)) = IF n + 1 <= Len(s) THEN Len(s) - (n + 1) + 1 ELSE 0
      /\ \A i \in 1..(Len(s) - (n + 1) + 1) : Rest(s, n)[i] = s[(n + 1) + i - 1]
  BY <1>1, SubSeqProperties DEF Rest
<1>3. QED
  BY <1>1, <1>2

(* What the invariant says of the numbers that the reader works with.      *)
LEMMA StreamNumbers ==
  ASSUME StreamTypes, offset <= bytes_read
  PROVE  /\ Len(stream) \in Nat /\ offset \in Nat /\ bytes_read \in Nat /\ BufSize \in Nat
         /\ bytes_read <= BufSize /\ Remaining \in Nat /\ FlowLen \in Nat /\ Header \in Nat \ {0}
         /\ \A m \in Message : Size(m) \in Nat /\ Size(m) >= Header /\ Size(m) <= BufSize
BY StreamAssumption DEF StreamTypes, TcpTypeOK, Remaining, FlowLen, Size, Message

(* A read into the empty buffer leaves the flow as it is.                  *)
LEMMA PollKeepsFlow ==
  ASSUME StreamTypes, offset <= bytes_read, Remaining = 0,
         NEW n \in 1..Min({Len(stream), BufSize}), buffer' = Received(0, n), bytes_read' = n,
         stream' = Rest(stream, n), offset' = 0
  PROVE  /\ FlowLen' = FlowLen /\ Flow' = Flow /\ n <= BufSize
         /\ stream' \in Seq(Message \X Nat) /\ DOMAIN buffer' = DOMAIN buffer
<1>1. /\ n \in Nat /\ n > 0 /\ n <= Len(stream) /\ n <= BufSize /\ Len(stream) \in Nat
      /\ BufSize \in Nat
  BY StreamNumbers, LeastOfTwo
<1>2. /\ stream' \in Seq(Message \X Nat) /\ Len(stream') = Len(stream) - n
      /\ \A i \in 1..(Len(stream) - n) : stream'[i] = stream[n + i]
  <2>1. stream \in Seq(Message \X Nat) /\ n \in 0..Len(stream)
    BY <1>1 DEF StreamTypes
  <2>2. QED
    BY <2>1, RestOf
<1>3. FlowLen = Len(stream) /\ FlowLen' = Len(stream) /\ Remaining' = n
  BY <1>1, <1>2 DEF FlowLen, Remaining
<1>4. DOMAIN buffer' = DOMAIN buffer
  BY DEF Received
<1>5. ASSUME NEW i \in 1..Len(stream)
      PROVE  stream[i] = (IF i <= n THEN buffer'[0 + i - 1] ELSE stream'[i - n])
  <2>1. CASE i <= n
    <3>1. i - 1 \in DOMAIN buffer /\ i - 1 \in 0..(0 + n - 1) /\ 0 + i - 1 = i - 1
      BY <1>1, <2>1 DEF StreamTypes
    <3>2. buffer'[i - 1] = stream[i - 1 - 0 + 1]
      BY <3>1 DEF Received
    <3>3. QED
      BY <1>1, <2>1, <3>1, <3>2
  <2>2. CASE i > n
    BY <1>1, <1>2, <2>2
  <2>3. QED
    BY <1>1, <2>1, <2>2
<1>6. Flow' = Flow
  BY <1>1, <1>3, <1>5 DEF Flow
<1>7. QED
  BY <1>1, <1>2, <1>3, <1>4, <1>6

(* So does ldp_complete_msg when the bytes that miss come, and the buffer  *)
(* holds n bytes of the message then.                                      *)
LEMMA CompleteKeepsFlow ==
  ASSUME ~CutsMessage, StreamTypes, offset <= bytes_read, NEW n \in 1..BufSize, NEW next, CompleteMsg(n, next),
         FlowLen >= n \/ peer = "open"
  PROVE  /\ FlowLen' = FlowLen /\ Flow' = Flow /\ rpc' = next
         /\ stream' \in Seq(Message \X Nat) /\ DOMAIN buffer' = DOMAIN buffer
         /\ offset' \in 0..BufSize /\ bytes_read' \in 0..BufSize /\ offset' <= bytes_read'
         /\ Remaining' >= n
<1> DEFINE r == Remaining
           missing == n - r
<1>1. /\ n \in Nat /\ r \in Nat /\ Len(stream) \in Nat /\ BufSize \in Nat
      /\ FlowLen = r + Len(stream)
      /\ offset \in 0..BufSize /\ bytes_read \in 0..BufSize /\ bytes_read = offset + r
  BY StreamNumbers DEF FlowLen, Remaining
<1>2. CASE r >= n /\ rpc' = next /\ UNCHANGED <<buffer, offset, bytes_read, stream>>
  BY <1>1, <1>2 DEF Flow, FlowLen, Remaining, StreamTypes
<1>3. CASE /\ r < n /\ CanRead(missing) /\ rpc' = next
           /\ buffer' = [i \in DOMAIN buffer |->
                           IF i \in r..(r + Exactly(missing) - 1)
                           THEN stream[i - r + 1] ELSE Moved[i]]
           /\ stream' = Rest(stream, Exactly(missing))
           /\ offset' = 0 /\ bytes_read' = n
  <2>1. missing \in Nat /\ missing > 0 /\ missing <= Len(stream)
    BY <1>1, <1>3 DEF CanRead
  <2>2. Exactly(missing) = missing
    BY <1>1, <2>1, LeastOfTwo DEF Exactly
  <2>3. /\ stream' \in Seq(Message \X Nat) /\ Len(stream') = Len(stream) - missing
        /\ \A i \in 1..(Len(stream) - missing) : stream'[i] = stream[missing + i]
    <3>1. stream \in Seq(Message \X Nat) /\ missing \in 0..Len(stream)
      BY <1>1, <2>1 DEF StreamTypes
    <3>2. stream' = Rest(stream, missing)
      BY <1>3, <2>2
    <3>3. QED
      BY <3>1, <3>2, RestOf
  <2>4. FlowLen' = r + Len(stream) /\ Remaining' = n
    BY <1>1, <1>3, <2>3 DEF FlowLen, Remaining
  <2>5. DOMAIN buffer' = DOMAIN buffer /\ DOMAIN buffer = 0..(BufSize - 1)
    BY <1>3 DEF StreamTypes
  <2>6. ASSUME NEW i \in 1..FlowLen
        PROVE  (IF i <= r THEN buffer[offset + i - 1] ELSE stream[i - r]) =
               (IF i <= n THEN buffer'[0 + i - 1] ELSE stream'[i - n])
    <3>1. CASE i <= r
      <4>1. i - 1 \in DOMAIN buffer /\ i - 1 \notin r..(r + missing - 1) /\ i - 1 < r
        BY <1>1, <1>3, <2>5, <3>1
      <4>2. buffer'[i - 1] = Moved[i - 1]
        BY <1>3, <2>2, <4>1
      <4>3. Moved[i - 1] = buffer[offset + (i - 1)]
        BY <4>1 DEF Moved
      <4>4. i <= n /\ offset + (i - 1) = offset + i - 1 /\ 0 + i - 1 = i - 1
        BY <1>1, <1>3, <3>1
      <4>5. QED
        BY <3>1, <4>2, <4>3, <4>4
    <3>2. CASE i > r /\ i <= n
      <4>1. i - 1 \in DOMAIN buffer /\ i - 1 \in r..(r + missing - 1)
        BY <1>1, <1>3, <2>5, <3>2
      <4>2. buffer'[i - 1] = stream[(i - 1) - r + 1]
        BY <1>3, <2>2, <4>1
      <4>3. (i - 1) - r + 1 = i - r /\ 0 + i - 1 = i - 1 /\ ~(i <= r)
        BY <1>1, <3>2
      <4>4. QED
        BY <3>2, <4>2, <4>3
    <3>3. CASE i > n
      <4>1. i - n \in 1..(Len(stream) - missing) /\ missing + (i - n) = i - r
        BY <1>1, <1>3, <3>3
      <4>2. stream'[i - n] = stream[i - r]
        BY <2>3, <4>1
      <4>3. ~(i <= r) /\ ~(i <= n)
        BY <1>1, <1>3, <3>3
      <4>4. QED
        BY <4>2, <4>3
    <3>4. QED
      BY <1>1, <3>1, <3>2, <3>3
  <2>7. Flow' = Flow
    BY <1>1, <1>3, <2>4, <2>6 DEF Flow
  <2>8. QED
    BY <1>1, <1>3, <2>3, <2>4, <2>5, <2>7
<1>4. QED
  BY <1>2, <1>3 DEF CompleteMsg
-----------------------------------------------------------------------------
(* Bytes in the flow are of a message written and not consumed, the first  *)
(* of them in its place; all its bytes are there when none is missing.     *)
LEMMA FirstMessage ==
  ASSUME StreamTypes, offset <= bytes_read, NEW begins, NEW r, Balances(begins, r), FlowLen > 0
  PROVE  /\ Len(delivered) < Len(written) /\ written[Len(delivered) + 1] \in Message
         /\ begins[Len(delivered) + 2] - Base(begins) = Size(written[Len(delivered) + 1])
         /\ \A p \in 1..Size(written[Len(delivered) + 1]) :
              p <= FlowLen => Flow[p] = <<written[Len(delivered) + 1], p>>
         /\ r = 0 => FlowLen >= Size(written[Len(delivered) + 1])
<1> DEFINE D == Len(delivered)
           W == Len(written)
           m == written[D + 1]
<1>1. D \in Nat /\ W \in Nat /\ D <= W /\ written \in Seq(Message) /\ FlowLen \in Nat
  BY StreamNumbers DEF StreamTypes, TcpTypeOK
<1>2. /\ begins \in [1..(W + 1) -> Nat]
      /\ \A k \in 1..W : begins[k + 1] = begins[k] + Size(written[k])
      /\ \A j, k \in 1..(W + 1) : j <= k => begins[j] <= begins[k]
      /\ FlowLen + r = begins[W + 1] - begins[D + 1]
  BY DEF Balances, Layout, Base
<1>3. r \in Nat
  <2>1. CASE r = 0
    BY <2>1
  <2>2. CASE r \in 1..(Size(Last(written)) - 1) /\ written # <<>>
    BY <2>2
  <2>3. QED
    BY <2>1, <2>2 DEF Balances, Missing
<1>4. begins[W + 1] \in Nat /\ begins[D + 1] \in Nat /\ D + 1 \in 1..(W + 1)
  BY <1>1, <1>2
<1>5. D < W
  BY <1>1, <1>2, <1>3, <1>4
<1>6. D + 1 \in 1..W /\ D + 2 \in 1..(W + 1) /\ D + 1 + 1 = D + 2 /\ m \in Message
  BY <1>1, <1>5
<1>7. Size(m) \in Nat
  BY <1>6, StreamNumbers
<1>8. begins[D + 2] = begins[D + 1] + Size(m) /\ begins[D + 2] \in Nat
      /\ begins[D + 2] <= begins[W + 1]
  BY <1>1, <1>2, <1>6
<1>9. ASSUME NEW p \in 1..Size(m), p <= FlowLen
      PROVE  Flow[p] = <<m, p>>
  <2>1. D + 1 \in (D + 1)..W /\ begins[D + 1] + p - Base(begins) = p
    BY <1>1, <1>4, <1>6, <1>7 DEF Base
  <2>2. QED
    BY <1>9, <2>1 DEF Balances, Carries
<1>10. QED
  BY <1>1, <1>2, <1>3, <1>4, <1>5, <1>6, <1>7, <1>8, <1>9 DEF Base

(* A header read is the one of the first message not consumed, and the     *)
(* bytes in the buffer are this message's.                                 *)
LEMMA HeaderIsFirst ==
  ASSUME StreamTypes, offset <= bytes_read, NEW begins, NEW r, Balances(begins, r),
         Remaining >= Header, NEW m \in Message, HeaderAt(m)
  PROVE  /\ m = written[Len(delivered) + 1] /\ FlowLen > 0
         /\ \A k \in 1..Size(m) : k <= Remaining => buffer[offset + k - 1] = <<m, k>>
<1> DEFINE f == written[Len(delivered) + 1]
<1>1. /\ Remaining \in Nat /\ Header \in Nat \ {0} /\ FlowLen \in Nat /\ Len(stream) \in Nat
      /\ FlowLen = Remaining + Len(stream)
  BY StreamNumbers DEF FlowLen
<1>2. FlowLen > 0
  BY <1>1
<1>3. /\ f \in Message /\ \A p \in 1..Size(f) : p <= FlowLen => Flow[p] = <<f, p>>
  BY <1>2, FirstMessage
<1>4. Size(f) \in Nat /\ Size(f) >= Header
  BY <1>3, StreamNumbers
<1>5. ASSUME NEW k \in 1..Size(f), k <= Remaining
      PROVE  buffer[offset + k - 1] = <<f, k>>
  <2>1. k \in 1..FlowLen
    BY <1>1, <1>4, <1>5
  <2>2. Flow[k] = buffer[offset + k - 1]
    BY <1>5, <2>1 DEF Flow
  <2>3. QED
    BY <1>1, <1>3, <2>1, <2>2
<1>6. 1 \in 1..Size(f) /\ 1 <= Remaining /\ 1 \in 1..Header
  BY <1>1, <1>4
<1>7. <<m, 1>> = <<f, 1>>
  BY <1>5, <1>6 DEF HeaderAt
<1>8. QED
  BY <1>2, <1>5, <1>7

(* A step that keeps the flow and the messages keeps what fits.            *)
LEMMA BalancesKept ==
  ASSUME NEW begins, NEW r, Balances(begins, r),
         UNCHANGED <<tcpPartial, writing, written, delivered>>,
         FlowLen' = FlowLen, Flow' = Flow
  PROVE  Balances(begins, r)'
BY DEF Balances, Layout, Carries, Base, Missing, Unsent

(* When the peer is gone, nothing is missing.                              *)
LEMMA ClosedMissesNothing ==
  ASSUME StreamInv, peer = "closed", NEW r, Missing(r)
  PROVE  r = 0
<1>1. SUFFICES ASSUME r \in 1..(Size(Last(written)) - 1), NEW w \in Writer,
                      writing[w] = LastBytes(Last(written), r)
               PROVE  FALSE
  BY DEF Missing
<1>2. writing[w] = <<>>
  BY DEF StreamInv
<1>3. r \in Nat /\ 1 \in 1..r
  BY <1>1
<1>4. DOMAIN writing[w] = 1..r
  BY <1>1 DEF LastBytes
<1>5. DOMAIN writing[w] = {}
  BY <1>2
<1>6. QED
  BY <1>3, <1>4, <1>5
-----------------------------------------------------------------------------
(* The steps of the reader that move bytes keep the invariant.             *)
LEMMA PollKeeps ==
  ASSUME StreamInv, Poll
  PROVE  StreamInv' /\ UNCHANGED <<written, delivered>>
<1>1. StreamTypes /\ ReaderAt /\ OneSends /\ rpc = "poll" /\ offset <= bytes_read
  BY DEF StreamInv, Poll, ReaderAt
<1>2. Remaining = 0
  BY <1>1 DEF ReaderAt
<1>3. UNCHANGED <<tcpPartial, todo, writing, written, peer, delivered>>
  BY DEF Poll
<1>4. PICK begins, r : Balances(begins, r)
  BY DEF StreamInv
<1>5. /\ FlowLen' = FlowLen /\ Flow' = Flow /\ stream' \in Seq(Message \X Nat)
      /\ DOMAIN buffer' = DOMAIN buffer
      /\ offset' \in 0..BufSize /\ bytes_read' \in 0..BufSize /\ offset' <= bytes_read'
      /\ \/ rpc' = "header" /\ Remaining' > 0
         \/ rpc' = "closed" /\ Remaining' = 0
  <2>1. CASE /\ stream # <<>>
             /\ \E n \in 1..Min({Len(stream), BufSize}) :
                  /\ buffer' = Received(0, n)
                  /\ bytes_read' = n
                  /\ stream' = Rest(stream, n)
             /\ offset' = 0 /\ rpc' = "header"
    <3>1. PICK n \in 1..Min({Len(stream), BufSize}) :
            /\ buffer' = Received(0, n) /\ bytes_read' = n /\ stream' = Rest(stream, n)
      BY <2>1
    <3>2. /\ FlowLen' = FlowLen /\ Flow' = Flow /\ n <= BufSize
          /\ stream' \in Seq(Message \X Nat) /\ DOMAIN buffer' = DOMAIN buffer
      BY <1>1, <1>2, <2>1, <3>1, PollKeepsFlow
    <3>3. BufSize \in Nat /\ Len(stream) \in Nat
      BY <1>1, StreamNumbers
    <3>4. n \in Nat /\ n > 0
      BY <3>3, LeastOfTwo
    <3>5. Remaining' = n
      BY <2>1, <3>1, <3>4 DEF Remaining
    <3>6. QED
      BY <2>1, <3>1, <3>2, <3>3, <3>4, <3>5
  <2>2. CASE rpc' = "closed" /\ UNCHANGED <<buffer, offset, bytes_read, stream>>
    <3>1. offset' \in 0..BufSize /\ bytes_read' \in 0..BufSize /\ offset' <= bytes_read'
      BY <1>1, <2>2 DEF StreamTypes, TcpTypeOK
    <3>2. FlowLen' = FlowLen /\ Flow' = Flow /\ Remaining' = 0
      BY <1>2, <2>2 DEF FlowLen, Flow, Remaining
    <3>3. stream' \in Seq(Message \X Nat) /\ DOMAIN buffer' = DOMAIN buffer
      BY <1>1, <2>2 DEF StreamTypes
    <3>4. QED
      BY <2>2, <3>1, <3>2, <3>3
  <2>3. QED
    BY <2>1, <2>2 DEF Poll
<1>6. Balances(begins, r)'
  BY <1>3, <1>4, <1>5, BalancesKept
<1>7. StreamTypes'
  BY <1>1, <1>3, <1>5 DEF StreamTypes, TcpTypeOK
<1>8. ReaderAt' /\ OneSends'
  BY <1>1, <1>3, <1>5 DEF ReaderAt, OneSends
<1>9. (peer = "closed" => \A w \in Writer : writing[w] = <<>>)'
  BY <1>3 DEF StreamInv
<1>10. QED
  BY <1>3, <1>6, <1>7, <1>8, <1>9 DEF StreamInv

(* Cutting a header and cutting a body only check what the buffer holds: the *)
(* flow, and what is missing from it, stay as they were.                   *)
LEMMA ReadKeeps ==
  ASSUME ~CutsMessage, StreamInv, ReadHeader \/ ReadBody
  PROVE  StreamInv' /\ UNCHANGED <<written, delivered>>
<1>1. StreamTypes /\ ReaderAt /\ OneSends /\ offset <= bytes_read
  BY DEF StreamInv, ReaderAt
<1>2. UNCHANGED <<tcpPartial, todo, writing, written, peer, delivered>>
  BY DEF ReadHeader, ReadBody
<1>3. PICK begins, r : Balances(begins, r)
  BY DEF StreamInv
<1>4. /\ Remaining \in Nat /\ FlowLen \in Nat /\ FlowLen >= Remaining /\ BufSize \in Nat
      /\ Header \in Nat \ {0} /\ \A m \in Message : Size(m) \in Nat /\ Size(m) >= Header
                                                    /\ Size(m) <= BufSize
  BY <1>1, StreamNumbers DEF FlowLen
<1>5. peer \in {"open", "closed"}
  BY <1>1 DEF StreamTypes, TcpTypeOK
<1>6. peer = "closed" => r = 0
  BY <1>3, ClosedMissesNothing DEF Balances
<1> DEFINE f == written[Len(delivered) + 1]
<1>7. FlowLen > 0 => /\ Len(delivered) < Len(written) /\ f \in Message
                     /\ (r = 0 => FlowLen >= Size(f))
  BY <1>1, <1>3, FirstMessage
<1>8. \E n \in 1..BufSize : \E next \in {"body", "consume"} :
        /\ CompleteMsg(n, next) /\ (FlowLen >= n \/ peer = "open")
        /\ next = "body" => n = Header
        /\ next = "consume" => n = Size(f) /\ Len(delivered) < Len(written)
  <2>1. CASE ReadHeader
    <3>1. Remaining > 0 /\ CompleteMsg(Header, "body")
      BY <1>1, <2>1 DEF ReadHeader, ReaderAt
    <3>2. Header \in 1..BufSize /\ (FlowLen >= Header \/ peer = "open")
      BY <1>4, <1>5, <1>6, <1>7, <3>1
    <3>3. QED
      BY <3>1, <3>2
  <2>2. CASE ReadBody
    <3>1. PICK m \in Message : HeaderAt(m) /\ CompleteMsg(Size(m), "consume")
      BY <2>2 DEF ReadBody
    <3>2. Remaining >= Header
      BY <1>1, <2>2 DEF ReadBody, ReaderAt
    <3>3. m = f /\ FlowLen > 0
      BY <1>1, <1>3, <3>1, <3>2, HeaderIsFirst
    <3>4. Size(m) \in 1..BufSize /\ (FlowLen >= Size(m) \/ peer = "open")
      BY <1>4, <1>5, <1>6, <1>7, <3>3
    <3>5. QED
      BY <1>7, <3>1, <3>3, <3>4
  <2>3. QED
    BY <2>1, <2>2
<1>9. PICK n \in 1..BufSize, next \in {"body", "consume"} :
        /\ CompleteMsg(n, next) /\ (FlowLen >= n \/ peer = "open")
        /\ next = "body" => n = Header
        /\ next = "consume" => n = Size(f) /\ Len(delivered) < Len(written)
  BY <1>8
<1>10. /\ FlowLen' = FlowLen /\ Flow' = Flow /\ rpc' = next
       /\ stream' \in Seq(Message \X Nat) /\ DOMAIN buffer' = DOMAIN buffer
       /\ offset' \in 0..BufSize /\ bytes_read' \in 0..BufSize /\ offset' <= bytes_read'
       /\ Remaining' >= n
  BY <1>1, <1>9, CompleteKeepsFlow
<1>11. Balances(begins, r)'
  BY <1>2, <1>3, <1>10, BalancesKept
<1>12. StreamTypes'
  BY <1>1, <1>2, <1>10 DEF StreamTypes, TcpTypeOK
<1>13. ReaderAt'
  <2>1. /\ Len(delivered)' = Len(delivered) /\ Len(written)' = Len(written)
        /\ (written[Len(delivered) + 1])' = f
    BY <1>2
  <2>2. CASE next = "body"
    BY <1>9, <1>10, <2>2 DEF ReaderAt
  <2>3. CASE next = "consume"
    <3>1. Size(f)' = Size(f)
      BY <2>1 DEF Size
    <3>2. QED
      BY <1>9, <1>10, <2>1, <2>3, <3>1 DEF ReaderAt
  <2>4. QED
    BY <2>2, <2>3
<1>14. OneSends' /\ (peer = "closed" => \A w \in Writer : writing[w] = <<>>)'
  BY <1>1, <1>2 DEF OneSends, StreamInv
<1>15. QED
  BY <1>2, <1>11, <1>12, <1>13, <1>14 DEF StreamInv
-----------------------------------------------------------------------------
(* The message consumed is the first not yet delivered, with its bytes.    *)
LEMMA ConsumeKeeps ==
  ASSUME StreamInv, Consume
  PROVE  StreamInv' /\ Channel!Deliver
<1> DEFINE D == Len(delivered)
           W == Len(written)
           f == written[D + 1]
<1>1. StreamTypes /\ ReaderAt /\ OneSends /\ offset <= bytes_read
  BY DEF StreamInv, ReaderAt
<1>2. UNCHANGED <<tcpPartial, todo, writing, written, stream, peer, buffer, bytes_read>>
  BY DEF Consume
<1>3. PICK m \in Message : /\ HeaderAt(m)
                           /\ delivered' = Append(delivered, Consumed(m))
                           /\ offset' = offset + Step(m)
                           /\ rpc' = IF offset' < bytes_read THEN "header" ELSE "poll"
  BY DEF Consume
<1>4. PICK begins, r : Balances(begins, r)
  BY DEF StreamInv
<1>5. D < W /\ Remaining >= Size(f)
  BY <1>1 DEF ReaderAt, Consume
<1>6. /\ Remaining \in Nat /\ Len(stream) \in Nat /\ FlowLen \in Nat /\ BufSize \in Nat
      /\ FlowLen = Remaining + Len(stream) /\ Header \in Nat \ {0}
      /\ offset \in Nat /\ bytes_read \in Nat /\ bytes_read <= BufSize
      /\ \A k \in Message : Size(k) \in Nat /\ Size(k) >= Header
  BY <1>1, StreamNumbers DEF FlowLen
<1>7. D \in Nat /\ W \in Nat /\ written \in Seq(Message) /\ delivered \in Seq(Message)
  BY <1>1 DEF StreamTypes, TcpTypeOK
<1>8. f \in Message /\ Size(f) \in Nat /\ Size(f) >= Header
  BY <1>5, <1>6, <1>7
<1>9. /\ m = f /\ FlowLen > 0
      /\ \A k \in 1..Size(m) : k <= Remaining => buffer[offset + k - 1] = <<m, k>>
  <2>1. Remaining >= Header
    BY <1>5, <1>6, <1>8
  <2>2. QED
    BY <1>1, <1>3, <1>4, <2>1, HeaderIsFirst
<1>10. Consumed(m) = m
  <2>1. \A k \in 1..Size(m) : k <= Remaining
    BY <1>5, <1>6, <1>8, <1>9
  <2>2. QED
    BY <1>9, <2>1 DEF Consumed
<1>11. delivered' = Append(delivered, m)
  BY <1>3, <1>10
<1>12. Len(delivered') = D + 1 /\ delivered' \in Seq(Message)
  BY <1>7, <1>11
<1>13. PICK g, a, c, e : /\ g = Size(m) /\ a = begins[D + 1] /\ c = begins[D + 2]
                         /\ e = begins[W + 1]
  OBVIOUS
<1>14. g \in Nat /\ g >= Header /\ g > 0 /\ g <= Remaining
  BY <1>5, <1>6, <1>9, <1>13
<1>15. offset' = offset + g
  <2>1. Payload[m] \in Nat
    BY StreamAssumption DEF Message
  <2>2. Step(m) = g
    BY <1>6, <1>13, <2>1 DEF Step, Size
  <2>3. QED
    BY <1>3, <2>2
<1>16. Remaining' = Remaining - g /\ offset' \in Nat /\ offset' <= bytes_read
  <2>1. Remaining = bytes_read - offset /\ Remaining' = bytes_read - offset'
    BY <1>2 DEF Remaining
  <2>2. QED
    BY <1>6, <1>14, <1>15, <2>1
<1>17. FlowLen' = FlowLen - g
  <2>1. FlowLen' = Remaining' + Len(stream)
    BY <1>2 DEF FlowLen
  <2>2. QED
    BY <1>6, <1>14, <1>16, <2>1
<1>18. \A i \in 1..FlowLen' : Flow'[i] = Flow[i + g]
  <2>1. SUFFICES ASSUME NEW i \in 1..FlowLen'
                 PROVE  Flow'[i] = Flow[i + g]
    OBVIOUS
  <2>2. Flow'[i] = IF i <= Remaining' THEN buffer[offset' + i - 1] ELSE stream[i - Remaining']
    BY <1>2 DEF Flow
  <2>3. i + g \in 1..FlowLen
    BY <1>6, <1>14, <1>17
  <2>4. Flow[i + g] = IF i + g <= Remaining THEN buffer[offset + (i + g) - 1]
                                            ELSE stream[(i + g) - Remaining]
    BY <2>3 DEF Flow
  <2>5. /\ (i <= Remaining') <=> (i + g <= Remaining)
        /\ offset' + i - 1 = offset + (i + g) - 1
        /\ i - Remaining' = (i + g) - Remaining
    <3>1. i \in Int /\ Remaining \in Int /\ offset \in Int /\ g \in Int
      BY <1>6, <1>14
    <3>2. QED
      BY ONLY <1>15, <1>16, <3>1
  <2>6. QED
    BY <2>2, <2>4, <2>5
<1>19. c - a = g /\ a \in Nat /\ c \in Nat /\ e \in Nat /\ FlowLen + r = e - a
  <2>1. begins[D + 2] - begins[D + 1] = Size(m)
    BY <1>1, <1>4, <1>9, FirstMessage DEF Base
  <2>2. begins \in [1..(W + 1) -> Nat] /\ D + 1 \in 1..(W + 1) /\ D + 2 \in 1..(W + 1)
        /\ W + 1 \in 1..(W + 1)
    BY <1>4, <1>5, <1>7 DEF Balances, Layout
  <2>3. FlowLen + r = begins[W + 1] - begins[D + 1]
    BY <1>4 DEF Balances, Base
  <2>4. QED
    BY <1>13, <2>1, <2>2, <2>3
<1>20. Base(begins)' = c /\ Base(begins) = a
  BY <1>7, <1>12, <1>13 DEF Base
<1>21. Balances(begins, r)'
  <2>1. Layout(begins)' /\ Missing(r)'
    BY <1>2, <1>4 DEF Balances, Layout, Missing, Unsent, Size
  <2>2. FlowLen' + r = begins[Len(written') + 1] - Base(begins)'
    <3>1. r \in Int
      BY <1>4, <1>6, <1>8 DEF Balances, Missing
    <3>2. FlowLen \in Int
      BY <1>6
    <3>3. FlowLen' + r = e - c
      BY ONLY <1>14, <1>17, <1>19, <3>1, <3>2
    <3>4. QED
      BY <1>2, <1>13, <1>20, <3>3
  <2>3. Carries(begins)'
    <3>1. ASSUME NEW k \in (D + 2)..W, NEW p \in 1..Size(written[k]),
                 begins[k] + p - c <= FlowLen'
          PROVE  Flow'[begins[k] + p - c] = <<written[k], p>>
      <4>1. PICK x, i : x = begins[k] /\ i = x + p - c
        OBVIOUS
      <4>2. /\ k \in (D + 1)..W /\ k \in 1..W /\ k \in 1..(W + 1) /\ D + 2 \in 1..(W + 1)
            /\ D + 2 <= k /\ written[k] \in Message
        BY <1>7
      <4>3. x \in Nat /\ c <= x
        BY <1>4, <1>13, <4>1, <4>2 DEF Balances, Layout
      <4>4. p \in Nat /\ p >= 1
        BY <1>6, <4>2
      <4>5. i = x + p - c /\ i <= FlowLen'
        BY <3>1, <4>1
      <4>6. FlowLen \in Int
        BY <1>6
      <4>7. /\ i >= 1 /\ i \in 1..FlowLen' /\ i + g = x + p - a /\ x + p - a <= FlowLen
        BY ONLY <1>14, <1>17, <1>19, <4>3, <4>4, <4>5, <4>6
      <4>8. Flow[x + p - a] = <<written[k], p>>
        <5>1. begins[k] + p - Base(begins) = x + p - a
          BY <1>20, <4>1
        <5>2. QED
          BY <1>4, <4>2, <4>7, <5>1 DEF Balances, Carries
      <4>9. QED
        BY <1>18, <4>1, <4>7, <4>8
    <3>2. Len(delivered') + 1 = D + 2 /\ written' = written /\ Base(begins)' = c
      BY <1>2, <1>7, <1>12, <1>20
    <3>3. SUFFICES ASSUME NEW k \in (Len(delivered') + 1)..Len(written'),
                          NEW p \in 1..Size(written[k])',
                          (begins[k] + p - Base(begins) <= FlowLen)'
                   PROVE  (Flow[begins[k] + p - Base(begins)] = <<written[k], p>>)'
      BY DEF Carries
    <3>4. Size(written[k])' = Size(written[k])
      BY <3>2 DEF Size
    <3>5. k \in (D + 2)..W /\ p \in 1..Size(written[k]) /\ begins[k] + p - c <= FlowLen'
      BY <3>2, <3>3, <3>4
    <3>6. QED
      BY <3>1, <3>2, <3>5
  <2>4. QED
    BY <2>1, <2>2, <2>3 DEF Balances
<1>22. StreamTypes'
  <2>1. offset' \in 0..BufSize /\ rpc' \in {"header", "poll"}
    BY <1>3, <1>6, <1>16
  <2>2. delivered' \in Seq(Message \cup {Torn})
    BY <1>12
  <2>3. Len(delivered') <= Len(written')
    BY <1>2, <1>5, <1>7, <1>12
  <2>4. QED
    BY <1>1, <1>2, <1>12, <2>1, <2>2, <2>3 DEF StreamTypes, TcpTypeOK
<1>23. ReaderAt'
  BY <1>2, <1>3, <1>6, <1>16 DEF ReaderAt, Remaining
<1>24. OneSends' /\ (peer = "closed" => \A w \in Writer : writing[w] = <<>>)'
  BY <1>1, <1>2 DEF OneSends, StreamInv
<1>25. Channel!Deliver
  BY <1>2, <1>5, <1>9, <1>11 DEF Channel!Deliver
<1>26. QED
  BY <1>21, <1>22, <1>23, <1>24, <1>25 DEF StreamInv
-----------------------------------------------------------------------------
(* The last bytes of a message, and those that a send leaves of them.      *)
LEMMA LastOf ==
  ASSUME StreamTypes, offset <= bytes_read, NEW m \in Message, NEW q \in 0..Size(m)
  PROVE  /\ LastBytes(m, q) \in Seq(Message \X Nat) /\ Len(LastBytes(m, q)) = q
         /\ q > 0 => LastBytes(m, q) # <<>> /\ Head(LastBytes(m, q)) = <<m, Size(m) - q + 1>>
<1>1. Size(m) \in Nat /\ q \in Nat /\ q <= Size(m)
  BY StreamNumbers
<1>2. \A k \in 1..q : <<m, Size(m) - q + k>> \in Message \X Nat
  BY <1>1
<1>3. LastBytes(m, q) \in Seq(Message \X Nat) /\ Len(LastBytes(m, q)) = q
  BY <1>1, <1>2 DEF LastBytes
<1>4. ASSUME q > 0 PROVE LastBytes(m, q) # <<>> /\ Head(LastBytes(m, q)) = <<m, Size(m) - q + 1>>
  <2>1. LastBytes(m, q)[1] = <<m, Size(m) - q + 1>>
    BY <1>1, <1>4 DEF LastBytes
  <2>2. LastBytes(m, q) # <<>>
    BY <1>1, <1>3, <1>4
  <2>3. QED
    BY <1>3, <2>1, <2>2
<1>5. QED
  BY <1>3, <1>4

(* What is left of the last bytes of a message after n of them are the last *)
(* bytes of the message, n fewer.                                          *)
LEMMA RestOfLast ==
  ASSUME StreamTypes, offset <= bytes_read, NEW m \in Message, NEW q \in 0..Size(m), NEW n \in 0..q
  PROVE  Rest(LastBytes(m, q), n) = LastBytes(m, q - n)
<1>1. Size(m) \in Nat /\ q \in Nat /\ q <= Size(m) /\ n \in Nat /\ n <= q /\ q - n \in 0..Size(m)
  BY StreamNumbers
<1>2. LastBytes(m, q) \in Seq(Message \X Nat) /\ Len(LastBytes(m, q)) = q
  BY LastOf
<1>3. n \in 0..Len(LastBytes(m, q))
  BY <1>2
<1>4. /\ Rest(LastBytes(m, q), n) \in Seq(Message \X Nat) /\ Len(Rest(LastBytes(m, q), n)) = q - n
      /\ \A i \in 1..(q - n) : Rest(LastBytes(m, q), n)[i] = LastBytes(m, q)[n + i]
  BY <1>2, <1>3, RestOf
<1>5. LastBytes(m, q - n) \in Seq(Message \X Nat) /\ Len(LastBytes(m, q - n)) = q - n
  BY <1>1, LastOf
<1>6. ASSUME NEW i \in 1..(q - n)
      PROVE  Rest(LastBytes(m, q), n)[i] = LastBytes(m, q - n)[i]
  <2>1. Rest(LastBytes(m, q), n)[i] = <<m, Size(m) - q + (n + i)>>
    <3>1. n + i \in 1..q
      BY <1>1
    <3>2. LastBytes(m, q)[n + i] = <<m, Size(m) - q + (n + i)>>
      BY <3>1 DEF LastBytes
    <3>3. QED
      BY <1>4, <3>2
  <2>2. LastBytes(m, q - n)[i] = <<m, Size(m) - (q - n) + i>>
    BY DEF LastBytes
  <2>3. Size(m) - q + (n + i) = Size(m) - (q - n) + i
    BY <1>1
  <2>4. QED
    BY <2>1, <2>2, <2>3
<1>7. QED
  BY <1>4, <1>5, <1>6, SeqEqual

(* A message that is not begun is all its last bytes.                      *)
LEMMA UnsentIsLast ==
  ASSUME StreamTypes, offset <= bytes_read, NEW w \in Writer, Unsent(w)
  PROVE  writing[w] = <<>> \/ \E m \in Message : writing[w] = LastBytes(m, Size(m))
<1>1. ASSUME NEW m \in Message PROVE Bytes(m) = LastBytes(m, Size(m))
  <2>1. Size(m) \in Nat
    BY StreamNumbers
  <2>2. \A k \in 1..Size(m) : Size(m) - Size(m) + k = k
    BY <2>1
  <2>3. QED
    BY <2>2 DEF Bytes, LastBytes
<1>2. QED
  BY <1>1 DEF Unsent

(* A send adds its bytes at the end of the flow.                           *)
LEMMA SendGrowsFlow ==
  ASSUME StreamTypes, offset <= bytes_read, NEW s \in Seq(Message \X Nat), NEW n \in 1..Len(s),
         stream' = stream \o SubSeq(s, 1, n), UNCHANGED <<buffer, offset, bytes_read>>
  PROVE  /\ FlowLen' = FlowLen + n /\ stream' \in Seq(Message \X Nat)
         /\ \A i \in 1..FlowLen : Flow'[i] = Flow[i]
         /\ \A i \in 1..FlowLen' : i > FlowLen => Flow'[i] = s[i - FlowLen]
<1>1. /\ Remaining \in Nat /\ Len(stream) \in Nat /\ FlowLen \in Nat
      /\ FlowLen = Remaining + Len(stream)
      /\ Remaining' = Remaining /\ stream \in Seq(Message \X Nat) /\ n \in Nat /\ n <= Len(s)
  BY StreamNumbers DEF FlowLen, Remaining, StreamTypes
<1>2. /\ SubSeq(s, 1, n) \in Seq(Message \X Nat) /\ Len(SubSeq(s, 1, n)) = n
      /\ \A i \in 1..n : SubSeq(s, 1, n)[i] = s[i]
  <2>1. \A i \in 1..n : s[i] \in Message \X Nat
    BY <1>1
  <2>2. /\ SubSeq(s, 1, n) \in Seq(Message \X Nat)
        /\ Len(SubSeq(s, 1, n)) = IF 1 <= n THEN n - 1 + 1 ELSE 0
        /\ \A i \in 1..(n - 1 + 1) : SubSeq(s, 1, n)[i] = s[1 + i - 1]
    BY <1>1, <2>1, SubSeqProperties
  <2>3. QED
    BY <1>1, <2>2
<1>3. /\ stream' \in Seq(Message \X Nat) /\ Len(stream') = Len(stream) + n
      /\ \A i \in 1..Len(stream) : stream'[i] = stream[i]
      /\ \A i \in 1..n : stream'[Len(stream) + i] = s[i]
  BY <1>1, <1>2, ConcatProperties
<1>4. FlowLen' = FlowLen + n
  BY <1>1, <1>3 DEF FlowLen
<1>5. \A i \in 1..FlowLen' :
        Flow'[i] = IF i <= Remaining THEN buffer[offset + i - 1] ELSE stream'[i - Remaining]
  BY <1>1 DEF Flow
<1>6. ASSUME NEW i \in 1..FlowLen PROVE Flow'[i] = Flow[i]
  <2>1. i \in 1..FlowLen'
    BY <1>1, <1>4
  <2>2. i > Remaining => i - Remaining \in 1..Len(stream)
    BY <1>1
  <2>3. QED
    BY <1>1, <1>3, <1>5, <2>1, <2>2 DEF Flow
<1>7. ASSUME NEW i \in 1..FlowLen', i > FlowLen PROVE Flow'[i] = s[i - FlowLen]
  <2>1. /\ ~(i <= Remaining) /\ i - FlowLen \in 1..n
        /\ Len(stream) + (i - FlowLen) = i - Remaining
    BY <1>1, <1>4, <1>7
  <2>2. QED
    BY <1>3, <1>5, <2>1
<1>8. QED
  BY <1>3, <1>4, <1>6, <1>7
-----------------------------------------------------------------------------
(* A thread begins to write: its message is not begun.                     *)
LEMMA WriteKeeps ==
  ASSUME OneWriter, StreamInv, NEW w \in Writer, IPWrite(w)
  PROVE  StreamInv' /\ UNCHANGED <<written, delivered>>
<1>1. StreamTypes /\ ReaderAt /\ OneSends /\ offset <= bytes_read
  BY DEF StreamInv, ReaderAt
<1>2. /\ UNCHANGED <<tcpPartial, written, stream, peer, rpc, buffer, offset, bytes_read, delivered>>
      /\ peer = "open" /\ writing[w] = <<>> /\ (tcpPartial => Alone(w)) /\ todo' \subseteq Message
  BY <1>1 DEF IPWrite, StreamTypes, TcpTypeOK
<1>3. PICK m \in Message : writing' = [writing EXCEPT ![w] = Bytes(m)]
  BY <1>1 DEF IPWrite, StreamTypes, TcpTypeOK
<1>4. writing \in [Writer -> Seq(Message \X Nat)]
  BY <1>1 DEF StreamTypes
<1>5. writing' \in [Writer -> Seq(Message \X Nat)]
  <2>1. Size(m) \in Nat
    BY <1>1, StreamNumbers
  <2>2. Bytes(m) \in Seq(Message \X Nat)
    <3>1. \A k \in 1..Size(m) : <<m, k>> \in Message \X Nat
      BY <2>1
    <3>2. QED
      BY <2>1, <3>1 DEF Bytes
  <2>3. QED
    BY <1>3, <1>4, <2>2
<1>6. writing'[w] = Bytes(m) /\ \A v \in Writer \ {w} : writing'[v] = writing[v]
  BY <1>3, <1>4
<1>7. PICK begins, r : Balances(begins, r)
  BY DEF StreamInv
<1>8. FlowLen' = FlowLen /\ Flow' = Flow
  BY <1>2 DEF FlowLen, Flow, Remaining
<1>9. Missing(r)'
  <2>1. CASE r = 0 /\ \A v \in Writer : Unsent(v)
    <3>1. \A v \in Writer : Unsent(v)'
      <4>1. \A k \in Message : Bytes(k)' = Bytes(k)
        BY DEF Bytes, Size
      <4>2. QED
        BY <1>6, <2>1, <4>1 DEF Unsent
    <3>2. QED
      BY <2>1, <3>1 DEF Missing
  <2>2. CASE /\ tcpPartial /\ written # <<>> /\ r \in 1..(Size(Last(written)) - 1)
             /\ \E v \in Writer : writing[v] = LastBytes(Last(written), r)
    <3>1. PICK v \in Writer : writing[v] = LastBytes(Last(written), r)
      BY <2>2
    <3>2. v = w \/ writing[v] = <<>>
      BY <1>2, <2>2 DEF Alone
    <3>3. DOMAIN LastBytes(Last(written), r) = 1..r /\ 1 \in 1..r
      BY <2>2 DEF LastBytes
    <3>4. FALSE
      <4>1. writing[v] = <<>>
        BY <1>2, <3>2
      <4>2. DOMAIN writing[v] = {}
        BY <4>1
      <4>3. DOMAIN writing[v] = 1..r
        BY <3>1, <3>3
      <4>4. QED
        BY <3>3, <4>2, <4>3
    <3>5. QED
      BY <3>4
  <2>3. QED
    BY <1>7, <2>1, <2>2 DEF Balances, Missing
<1>10. Balances(begins, r)'
  BY <1>2, <1>7, <1>8, <1>9 DEF Balances, Layout, Carries, Base, Size
<1>11. StreamTypes' /\ ReaderAt'
  BY <1>1, <1>2, <1>5 DEF StreamTypes, TcpTypeOK, ReaderAt, Remaining, Size
<1>12. OneSends' /\ (peer = "closed" => \A v \in Writer : writing[v] = <<>>)'
  BY <1>1, <1>2, <1>6 DEF OneSends, Alone
<1>13. QED
  BY <1>2, <1>10, <1>11, <1>12 DEF StreamInv

(* The peer closes: with no message cut, nothing was missing.              *)
LEMMA CloseKeeps ==
  ASSUME ~CutsMessage, StreamInv, PeerCloses
  PROVE  StreamInv' /\ UNCHANGED <<written, delivered>>
<1>1. StreamTypes /\ ReaderAt /\ OneSends
  BY DEF StreamInv
<1>2. /\ UNCHANGED <<tcpPartial, written, stream, rpc, buffer, offset, bytes_read, delivered>>
      /\ peer' = "closed" /\ todo' = {} /\ writing' = [w \in Writer |-> <<>>]
      /\ \A w \in Writer : writing[w] = <<>>
  BY DEF PeerCloses
<1>3. writing' = writing
  BY <1>1, <1>2 DEF StreamTypes
<1>4. PICK begins, r : Balances(begins, r)
  BY DEF StreamInv
<1>5. Balances(begins, r)'
  <2>1. FlowLen' = FlowLen /\ Flow' = Flow
    BY <1>2 DEF FlowLen, Flow, Remaining
  <2>2. QED
    BY <1>2, <1>3, <1>4, <2>1, BalancesKept
<1>6. StreamTypes' /\ ReaderAt'
  BY <1>1, <1>2, <1>3 DEF StreamTypes, TcpTypeOK, ReaderAt, Remaining, Size
<1>7. OneSends' /\ \A w \in Writer : writing'[w] = <<>>
  BY <1>1, <1>2, <1>3 DEF OneSends
<1>8. QED
  BY <1>2, <1>5, <1>6, <1>7 DEF StreamInv
(* A send that fails before the first byte of its message: the message is  *)
(* not written at all.                                                     *)
LEMMA FailKeeps ==
  ASSUME ~CutsMessage, StreamInv, NEW w \in Writer, SendFails(w)
  PROVE  StreamInv' /\ UNCHANGED <<written, delivered>>
<1>1. StreamTypes /\ ReaderAt /\ OneSends /\ offset <= bytes_read
  BY DEF StreamInv, ReaderAt
<1>2. /\ UNCHANGED <<tcpPartial, todo, written, stream, peer, rpc, buffer, offset, bytes_read,
                     delivered>>
      /\ peer = "open" /\ writing[w] # <<>> /\ Head(writing[w])[2] = 1
      /\ writing' = [writing EXCEPT ![w] = <<>>]
  BY DEF SendFails
<1>3. writing \in [Writer -> Seq(Message \X Nat)]
  BY <1>1 DEF StreamTypes
<1>4. /\ writing'[w] = <<>> /\ \A v \in Writer \ {w} : writing'[v] = writing[v]
      /\ writing' \in [Writer -> Seq(Message \X Nat)]
  BY <1>2, <1>3
<1>5. PICK begins, r : Balances(begins, r)
  BY DEF StreamInv
<1>6. r = 0 /\ \A v \in Writer : Unsent(v)
  <2>1. ASSUME tcpPartial, written # <<>>, r \in 1..(Size(Last(written)) - 1),
               NEW u \in Writer, writing[u] = LastBytes(Last(written), r),
               \A v \in Writer \ {u} : writing[v] = <<>>
        PROVE  FALSE
    <3>1. u = w
      BY <1>2, <2>1
    <3>2. PICK m \in Message : m = Last(written)
      BY <1>1, <2>1 DEF StreamTypes, TcpTypeOK, Last
    <3>3. Size(m) \in Nat /\ r \in 0..Size(m) /\ r > 0 /\ r < Size(m)
      BY <1>1, <2>1, <3>2, StreamNumbers
    <3>4. Head(writing[w]) = <<m, Size(m) - r + 1>>
      BY <1>1, <2>1, <3>1, <3>2, <3>3, LastOf
    <3>5. Size(m) - r + 1 = 1
      BY <1>2, <3>4
    <3>6. QED
      BY <3>3, <3>5
  <2>2. QED
    BY <1>5, <2>1 DEF Balances, Missing
<1>7. Missing(r)'
  <2>1. \A k \in Message : Bytes(k)' = Bytes(k)
    BY DEF Bytes, Size
  <2>2. \A v \in Writer : Unsent(v)'
    BY <1>4, <1>6, <2>1 DEF Unsent
  <2>3. QED
    BY <1>6, <2>2 DEF Missing
<1>8. Balances(begins, r)'
  <2>1. FlowLen' = FlowLen /\ Flow' = Flow
    BY <1>2 DEF FlowLen, Flow, Remaining
  <2>2. QED
    BY <1>2, <1>5, <1>7, <2>1 DEF Balances, Layout, Carries, Base, Size
<1>9. StreamTypes' /\ ReaderAt'
  BY <1>1, <1>2, <1>4 DEF StreamTypes, TcpTypeOK, ReaderAt, Remaining, Size
<1>10. OneSends' /\ (peer = "closed" => \A v \in Writer : writing[v] = <<>>)'
  BY <1>1, <1>2, <1>4 DEF OneSends
<1>11. QED
  BY <1>2, <1>8, <1>9, <1>10 DEF StreamInv
-----------------------------------------------------------------------------
(* A send of the first bytes of a message: it is the last one written.     *)
LEMMA SendBegins ==
  ASSUME StreamInv, NEW w \in Writer, SocketSend(w), NEW begins, Balances(begins, 0),
         \A v \in Writer : Unsent(v)
  PROVE  /\ \E b, r : Balances(b, r)'
         /\ \E m \in Message : written' = Append(written, m)
<1> DEFINE W == Len(written)
           D == Len(delivered)
<1>1. StreamTypes /\ OneSends /\ offset <= bytes_read
  BY DEF StreamInv, ReaderAt
<1>2. /\ UNCHANGED <<tcpPartial, todo, peer, rpc, buffer, offset, bytes_read, delivered>>
      /\ writing[w] # <<>>
  BY DEF SocketSend
<1>3. PICK n \in 1..Len(writing[w]) :
        /\ n < Len(writing[w]) => tcpPartial
        /\ stream' = stream \o SubSeq(writing[w], 1, n)
        /\ writing' = [writing EXCEPT ![w] = Rest(@, n)]
  BY DEF SocketSend
<1>4. PICK m \in Message : writing[w] = LastBytes(m, Size(m))
  BY <1>1, <1>2, UnsentIsLast
<1>5. /\ Size(m) \in Nat /\ Size(m) > 0 /\ FlowLen \in Nat
      /\ \A k \in Message : Size(k) \in Nat
  BY <1>1, StreamNumbers
<1>6. /\ writing[w] \in Seq(Message \X Nat) /\ Len(writing[w]) = Size(m)
      /\ Head(writing[w]) = <<m, 1>>
  <2>1. Size(m) \in 0..Size(m) /\ Size(m) - Size(m) + 1 = 1
    BY <1>5
  <2>2. QED
    BY <1>1, <1>4, <1>5, <2>1, LastOf
<1>7. written' = Append(written, m)
  <2>1. Head(writing[w])[1] = m /\ Head(writing[w])[2] = 1
    BY <1>6
  <2>2. QED
    BY <2>1 DEF SocketSend
<1>8. D \in Nat /\ W \in Nat /\ D <= W /\ written \in Seq(Message) /\ n \in Nat /\ n <= Size(m)
  BY <1>1, <1>6 DEF StreamTypes, TcpTypeOK
<1>9. /\ Len(written') = W + 1 /\ Last(written') = m /\ written' # <<>>
      /\ \A k \in 1..W : written'[k] = written[k]
      /\ written'[W + 1] = m
  BY <1>7, <1>8 DEF Last
<1>10. /\ begins \in [1..(W + 1) -> Nat]
       /\ \A k \in 1..W : begins[k + 1] = begins[k] + Size(written[k])
       /\ \A j, k \in 1..(W + 1) : j <= k => begins[j] <= begins[k]
       /\ FlowLen + 0 = begins[W + 1] - begins[D + 1]
  BY DEF Balances, Layout, Base
<1>11. PICK a, e, r, b : /\ a = begins[D + 1] /\ e = begins[W + 1] /\ r = Size(m) - n
                         /\ b = [k \in 1..(W + 2) |-> IF k <= W + 1 THEN begins[k] ELSE e + Size(m)]
  OBVIOUS
<1> HIDE DEF D, W
<1>12. /\ e \in Nat /\ a \in Nat /\ r \in Nat
       /\ D + 1 \in 1..(W + 1) /\ D + 1 \in 1..(W + 2) /\ W + 1 \in 1..(W + 1)
       /\ b[D + 1] = a /\ begins[D + 1] = a /\ b[W + 2] = e + Size(m)
       /\ \A k \in 1..(W + 1) : b[k] = begins[k] /\ begins[k] \in Nat
  <2>1. D + 1 \in 1..(W + 1) /\ D + 1 \in 1..(W + 2) /\ W + 1 \in 1..(W + 1) /\ W + 2 \in 1..(W + 2)
        /\ ~(W + 2 <= W + 1) /\ \A k \in 1..(W + 1) : k \in 1..(W + 2) /\ k <= W + 1
    BY <1>8
  <2>2. \A k \in 1..(W + 1) : b[k] = begins[k] /\ begins[k] \in Nat
    BY <1>10, <1>11, <2>1
  <2>3. b[W + 2] = e + Size(m)
    BY <1>11, <2>1
  <2>4. r \in Nat
    BY <1>5, <1>8, <1>11
  <2>5. QED
    BY <1>11, <2>1, <2>2, <2>3, <2>4
<1>13. FlowLen = e - a
  BY <1>5, <1>10, <1>11, <1>12
<1>14. Layout(b)'
  <2>1. \A k \in 1..(W + 2) : k \in 1..(W + 1) \/ k = W + 2
    BY <1>8
  <2>2. b \in [1..(W + 2) -> Nat]
    <3>1. \A k \in 1..(W + 2) : (IF k <= W + 1 THEN begins[k] ELSE e + Size(m)) \in Nat
      <4>1. e + Size(m) \in Nat
        BY <1>5, <1>12
      <4>2. \A k \in 1..(W + 2) : k <= W + 1 => k \in 1..(W + 1)
        BY <1>8
      <4>3. QED
        BY <1>12, <4>1, <4>2
    <3>2. QED
      BY <1>11, <3>1
  <2>3. ASSUME NEW k \in 1..(W + 1) PROVE b[k + 1] = b[k] + Size(written'[k])
    <3>1. CASE k \in 1..W
      BY <1>8, <1>9, <1>10, <1>11, <1>12, <3>1
    <3>2. CASE k = W + 1
      <4>1. k + 1 = W + 2 /\ b[W + 1] = e
        BY <1>8, <1>11, <1>12, <3>2
      <4>2. QED
        BY <1>9, <1>12, <3>2, <4>1
    <3>3. QED
      BY <1>8, <3>1, <3>2
  <2>4. ASSUME NEW j \in 1..(W + 2), NEW k \in 1..(W + 2), j <= k PROVE b[j] <= b[k]
    <3>1. CASE k \in 1..(W + 1)
      BY <1>8, <1>10, <1>11, <1>12, <2>4, <3>1
    <3>2. CASE k = W + 2 /\ j \in 1..(W + 1)
      <4>1. begins[j] <= e /\ begins[j] \in Nat
        BY <1>8, <1>10, <1>11, <1>12, <3>2
      <4>2. QED
        BY <1>5, <1>12, <3>2, <4>1
    <3>3. CASE k = W + 2 /\ j = W + 2
      BY <1>5, <1>12, <3>3
    <3>4. QED
      BY <2>1, <3>1, <3>2, <3>3
  <2>5. \A k \in Message : Size(k)' = Size(k)
    BY DEF Size
  <2>6. \A k \in 1..(W + 1) : k \in 1..W \/ k = W + 1
    BY <1>8
  <2>7. \A k \in 1..(W + 1) : written'[k] \in Message
    BY <1>8, <1>9, <2>6 DEF W
  <2>8. Len(written') + 1 = W + 2
    BY <1>8, <1>9
  <2>9. QED
    BY <1>9, <2>2, <2>3, <2>4, <2>5, <2>7, <2>8 DEF Layout
<1>15. /\ FlowLen' = FlowLen + n
       /\ \A i \in 1..FlowLen : Flow'[i] = Flow[i]
       /\ \A i \in 1..FlowLen' : i > FlowLen => Flow'[i] = LastBytes(m, Size(m))[i - FlowLen]
  BY <1>1, <1>2, <1>3, <1>4, <1>6, SendGrowsFlow
<1>16. Base(b)' = a /\ Base(begins) = a
  BY <1>2, <1>12 DEF Base, D
<1>17. Carries(b)'
  <2>1. ASSUME NEW k \in (D + 1)..(W + 1), NEW p \in 1..Size(written'[k]),
               b[k] + p - a <= FlowLen'
        PROVE  Flow'[b[k] + p - a] = <<written'[k], p>>
    <3>1. PICK x : x = begins[k]
      OBVIOUS
    <3>2. k \in 1..(W + 1) /\ D + 1 <= k /\ b[k] = x /\ x \in Nat /\ a <= x
      <4>1. k \in 1..(W + 1) /\ D + 1 <= k
        BY <1>8
      <4>2. b[k] = x /\ x \in Nat
        BY <1>12, <3>1, <4>1
      <4>3. begins[D + 1] <= begins[k]
        BY <1>10, <1>12, <4>1
      <4>4. QED
        BY <1>12, <3>1, <4>1, <4>2, <4>3
    <3>3. CASE k \in 1..W
      <4>1. /\ k \in (D + 1)..W /\ written'[k] = written[k] /\ written[k] \in Message
            /\ k + 1 \in 1..(W + 1) /\ k + 1 <= W + 1
        BY <1>8, <1>9, <3>2, <3>3 DEF W
      <4>2. x + Size(written[k]) <= e
        BY <1>10, <1>11, <1>12, <3>1, <3>3, <4>1
      <4>3. Size(written[k]) \in Nat /\ p \in 1..Size(written[k])
        BY <1>5, <2>1, <4>1
      <4>4. x + p - a \in 1..FlowLen /\ x + p - a <= FlowLen
        <5>1. x + p <= e /\ x + p - a >= 1
          BY <1>12, <3>2, <4>2, <4>3
        <5>2. QED
          <6>1. a \in Int /\ x \in Int /\ p \in Int /\ e \in Int /\ FlowLen \in Int
            BY <1>5, <1>12, <3>2, <4>3
          <6>2. QED
            BY ONLY <1>13, <5>1, <6>1
      <4>5. Flow[x + p - a] = <<written[k], p>>
        <5>1. begins[k] + p - Base(begins) = x + p - a
          BY <1>16, <3>1
        <5>2. k \in (Len(delivered) + 1)..Len(written)
          BY <4>1 DEF D, W
        <5>3. QED
          BY <4>3, <4>4, <5>1, <5>2 DEF Balances, Carries
      <4>6. QED
        BY <1>15, <3>2, <4>1, <4>4, <4>5
    <3>4. CASE k = W + 1
      <4>1. written'[k] = m /\ p \in 1..Size(m) /\ x = e
        BY <1>9, <1>11, <2>1, <3>1, <3>4
      <4>2. p \in Nat /\ p >= 1 /\ e + p - a <= FlowLen' /\ FlowLen' = FlowLen + n
        BY <1>5, <1>15, <2>1, <3>2, <4>1
      <4>3. PICK i : i = x + p - a
        OBVIOUS
      <4>4. i \in 1..FlowLen' /\ i > FlowLen /\ i - FlowLen = p
        <5>1. p \in Int /\ e \in Int /\ a \in Int /\ FlowLen \in Int /\ FlowLen >= 0
          BY <1>5, <1>12, <4>2
        <5>2. i = e + p - a /\ p >= 1 /\ e + p - a <= FlowLen' /\ FlowLen = e - a
          BY <1>13, <4>1, <4>2, <4>3
        <5>3. QED
          BY ONLY <5>1, <5>2
      <4>5. LastBytes(m, Size(m))[p] = <<m, Size(m) - Size(m) + p>>
        BY <4>1 DEF LastBytes
      <4>6. Size(m) - Size(m) + p = p
        BY <1>5, <4>2
      <4>7. Flow'[i] = LastBytes(m, Size(m))[p]
        BY <1>15, <4>4
      <4>8. QED
        BY <3>2, <4>1, <4>3, <4>5, <4>6, <4>7
    <3>5. QED
      BY <1>8, <3>2, <3>3, <3>4
  <2>2. Len(delivered') + 1 = D + 1 /\ Len(written') = W + 1
    BY <1>2, <1>9 DEF D
  <2>3. SUFFICES ASSUME NEW k \in (Len(delivered') + 1)..Len(written'),
                        NEW p \in 1..Size(written[k])',
                        (b[k] + p - Base(b) <= FlowLen)'
                 PROVE  (Flow[b[k] + p - Base(b)] = <<written[k], p>>)'
    BY DEF Carries
  <2>4. Size(written[k])' = Size(written'[k])
    BY DEF Size
  <2>5. k \in (D + 1)..(W + 1) /\ p \in 1..Size(written'[k]) /\ b[k] + p - a <= FlowLen'
    BY <1>16, <2>2, <2>3, <2>4
  <2>6. QED
    BY <1>16, <2>1, <2>5
<1>18. Missing(r)'
  <2>1. writing \in [Writer -> Seq(Message \X Nat)]
    BY <1>1 DEF StreamTypes
  <2>2. writing'[w] = LastBytes(m, r) /\ \A v \in Writer \ {w} : writing'[v] = writing[v]
    <3>1. Size(m) \in 0..Size(m) /\ n \in 0..Size(m)
      BY <1>5, <1>8
    <3>2. Rest(LastBytes(m, Size(m)), n) = LastBytes(m, r)
      BY <1>1, <1>11, <3>1, RestOfLast
    <3>3. QED
      BY <1>3, <1>4, <2>1, <3>2
  <2>3. LastBytes(m, r)' = LastBytes(m, r)
    BY DEF LastBytes, Size
  <2>4. CASE r = 0
    <3>1. LastBytes(m, 0) \in Seq(Message \X Nat) /\ Len(LastBytes(m, 0)) = 0
      BY <1>1, <1>5, LastOf
    <3>2. writing'[w] = <<>>
      BY <2>2, <2>4, <3>1
    <3>3. \A k \in Message : Bytes(k)' = Bytes(k)
      BY DEF Bytes, Size
    <3>4. \A v \in Writer : Unsent(v)'
      BY <2>2, <3>2, <3>3 DEF Unsent
    <3>5. QED
      BY <2>4, <3>4 DEF Missing
  <2>5. CASE r > 0
    <3>1. tcpPartial /\ r \in 1..(Size(m) - 1) /\ n < Len(writing[w])
      <4>1. n \in Int /\ Size(m) \in Int /\ n >= 1 /\ r = Size(m) - n
        BY <1>5, <1>6, <1>8, <1>11
      <4>2. r \in 1..(Size(m) - 1) /\ n < Size(m)
        BY ONLY <2>5, <4>1
      <4>3. QED
        BY <1>3, <1>6, <4>2
    <3>2. \A v \in Writer \ {w} : writing'[v] = <<>>
      BY <1>1, <1>2, <2>2, <3>1 DEF OneSends
    <3>3. Size(Last(written))' = Size(m)
      BY <1>9 DEF Size
    <3>4. LastBytes(Last(written), r)' = LastBytes(m, r)
      BY <1>9 DEF LastBytes, Size
    <3>5. QED
      BY <1>2, <1>9, <2>2, <3>1, <3>2, <3>3, <3>4 DEF Missing
  <2>6. QED
    BY <1>12, <2>4, <2>5
<1>19. (FlowLen + r = b[Len(written) + 1] - Base(b))'
  <2>1. Len(written') + 1 = W + 2
    BY <1>8, <1>9
  <2>2. FlowLen' + r = (e + Size(m)) - a
    <3>1. FlowLen' = FlowLen + n /\ FlowLen = e - a /\ r = Size(m) - n
      BY <1>5, <1>10, <1>11, <1>12, <1>15
    <3>2. /\ FlowLen \in Int /\ Size(m) \in Int /\ n \in Int /\ e \in Int
          /\ a \in Int
      BY <1>5, <1>8, <1>12
    <3>3. QED
      BY ONLY <3>1, <3>2
  <2>3. QED
    BY <1>12, <1>16, <2>1, <2>2
<1>20. Balances(b, r)'
  BY <1>14, <1>17, <1>18, <1>19 DEF Balances
<1>21. QED
  BY <1>7, <1>20
-----------------------------------------------------------------------------
(* A send of the bytes that a partial send left: the messages written are  *)
(* the same.                                                               *)
LEMMA SendContinues ==
  ASSUME StreamInv, NEW w \in Writer, SocketSend(w), NEW begins, NEW r, Balances(begins, r),
         r \in 1..(Size(Last(written)) - 1), written # <<>>, tcpPartial,
         writing[w] = LastBytes(Last(written), r), \A v \in Writer \ {w} : writing[v] = <<>>
  PROVE  (\E b, q : Balances(b, q)') /\ UNCHANGED written
<1> DEFINE W == Len(written)
           D == Len(delivered)
<1>1. StreamTypes /\ OneSends /\ offset <= bytes_read
  BY DEF StreamInv, ReaderAt
<1>2. UNCHANGED <<tcpPartial, todo, peer, rpc, buffer, offset, bytes_read, delivered>>
  BY DEF SocketSend
<1>3. PICK n \in 1..Len(writing[w]) :
        /\ stream' = stream \o SubSeq(writing[w], 1, n)
        /\ writing' = [writing EXCEPT ![w] = Rest(@, n)]
  BY DEF SocketSend
<1>4. PICK m : m = Last(written)
  OBVIOUS
<1>5. D \in Nat /\ W \in Nat /\ W > 0 /\ D <= W /\ written \in Seq(Message) /\ m = written[W]
      /\ m \in Message
  <2>1. D \in Nat /\ W \in Nat /\ W > 0 /\ D <= W /\ written \in Seq(Message)
    BY <1>1 DEF StreamTypes, TcpTypeOK
  <2>2. QED
    BY <1>4, <2>1 DEF Last
<1>6. /\ Size(m) \in Nat /\ r \in Nat /\ r >= 1 /\ r < Size(m) /\ r \in 0..Size(m)
      /\ FlowLen \in Nat /\ \A k \in Message : Size(k) \in Nat
  <2>1. Size(m) \in Nat /\ FlowLen \in Nat /\ \A k \in Message : Size(k) \in Nat
    BY <1>1, <1>5, StreamNumbers
  <2>2. r \in 1..(Size(m) - 1)
    BY <1>4
  <2>3. QED
    BY <2>1, <2>2
<1>7. /\ writing[w] = LastBytes(m, r)
      /\ writing[w] \in Seq(Message \X Nat) /\ Len(writing[w]) = r
      /\ Head(writing[w]) = <<m, Size(m) - r + 1>>
  <2>1. writing[w] = LastBytes(m, r)
    BY <1>4
  <2>2. /\ LastBytes(m, r) \in Seq(Message \X Nat) /\ Len(LastBytes(m, r)) = r
        /\ r > 0 => /\ LastBytes(m, r) # <<>>
                    /\ Head(LastBytes(m, r)) = <<m, Size(m) - r + 1>>
    BY <1>1, <1>5, <1>6, LastOf
  <2>3. QED
    BY <1>6, <2>1, <2>2
<1>8. written' = written
  <2>1. Head(writing[w])[2] # 1
    BY <1>6, <1>7
  <2>2. QED
    BY <2>1 DEF SocketSend
<1>9. n \in Nat /\ n >= 1 /\ n <= r
  BY <1>6, <1>7
<1>10. PICK a, e, q : a = begins[D + 1] /\ e = begins[W + 1] /\ q = r - n
  OBVIOUS
<1>11. /\ begins \in [1..(W + 1) -> Nat]
       /\ \A k \in 1..W : begins[k + 1] = begins[k] + Size(written[k])
       /\ \A j, k \in 1..(W + 1) : j <= k => begins[j] <= begins[k]
       /\ FlowLen + r = e - a
  BY <1>10 DEF Balances, Layout, Base
<1> HIDE DEF D, W
<1>12. a \in Nat /\ e \in Nat /\ q \in Nat /\ q < r
  <2>1. D + 1 \in 1..(W + 1) /\ W + 1 \in 1..(W + 1)
    BY <1>5
  <2>2. q \in Nat /\ q < r
    BY <1>6, <1>9, <1>10
  <2>3. QED
    BY <1>10, <1>11, <2>1, <2>2
<1>13. /\ FlowLen' = FlowLen + n
       /\ \A i \in 1..FlowLen : Flow'[i] = Flow[i]
       /\ \A i \in 1..FlowLen' : i > FlowLen => Flow'[i] = LastBytes(m, r)[i - FlowLen]
  <2>1. writing[w] \in Seq(Message \X Nat) /\ n \in 1..Len(writing[w])
    BY <1>7
  <2>2. /\ FlowLen' = FlowLen + n
        /\ \A i \in 1..FlowLen : Flow'[i] = Flow[i]
        /\ \A i \in 1..FlowLen' : i > FlowLen => Flow'[i] = writing[w][i - FlowLen]
    BY <1>1, <1>2, <1>3, <2>1, SendGrowsFlow
  <2>3. QED
    BY <1>7, <2>2
<1>14. Base(begins)' = a /\ Base(begins) = a
  BY <1>2, <1>10 DEF Base, D
<1>15. Layout(begins)'
  BY <1>8 DEF Balances, Layout, Size
<1>16. Carries(begins)'
  <2>1. ASSUME NEW k \in (D + 1)..W, NEW p \in 1..Size(written[k]), begins[k] + p - a <= FlowLen'
        PROVE  Flow'[begins[k] + p - a] = <<written[k], p>>
    <3>1. PICK x, i : x = begins[k] /\ i = x + p - a
      OBVIOUS
    <3>2. k \in 1..W /\ k \in 1..(W + 1) /\ k + 1 \in 1..(W + 1) /\ D + 1 <= k
          /\ D + 1 \in 1..(W + 1) /\ written[k] \in Message
      BY <1>5 DEF W
    <3>3. x \in Nat /\ a <= x
      BY <1>10, <1>11, <3>1, <3>2
    <3>4. Size(written[k]) \in Nat /\ p \in Nat /\ p >= 1 /\ p <= Size(written[k])
      BY <1>6, <2>1, <3>2
    <3>5. i >= 1 /\ i <= FlowLen' /\ i \in 1..FlowLen'
      <4>1. i = x + p - a /\ i <= FlowLen'
        BY <2>1, <3>1
      <4>2. x \in Int /\ p \in Int /\ a \in Int
        BY <1>12, <3>3, <3>4
      <4>3. FlowLen' = FlowLen + n /\ FlowLen \in Int /\ n \in Int
        BY <1>6, <1>9, <1>13
      <4>4. QED
        BY ONLY <3>3, <3>4, <4>1, <4>2, <4>3
    <3>6. CASE i <= FlowLen
      <4>1. Flow[i] = <<written[k], p>>
        <5>1. begins[k] + p - Base(begins) = i
          BY <1>14, <3>1
        <5>2. k \in (Len(delivered) + 1)..Len(written)
          BY <2>1 DEF D, W
        <5>3. QED
          BY <3>6, <5>1, <5>2 DEF Balances, Carries
      <4>2. i \in 1..FlowLen
        BY <1>6, <3>5, <3>6
      <4>3. QED
        BY <1>13, <3>1, <4>1, <4>2
    <3>7. CASE i > FlowLen
      <4>1. k = W
        <5>1. CASE k < W
          <6>1. k + 1 \in 1..W /\ k + 1 <= W /\ W \in 1..W /\ W \in 1..(W + 1)
            BY <1>5, <3>2, <5>1
          <6>2. PICK y, z : y = begins[k + 1] /\ z = begins[W]
            OBVIOUS
          <6>3. y = x + Size(written[k]) /\ y <= z /\ z \in Nat /\ y \in Nat
            BY <1>11, <3>1, <3>2, <6>1, <6>2
          <6>4. e = z + Size(m)
            BY <1>5, <1>10, <1>11, <6>1, <6>2
          <6>5. i = x + p - a /\ FlowLen + r = e - a
            BY <1>11, <3>1
          <6>6. x \in Int /\ a \in Int /\ e \in Int /\ FlowLen \in Int
            BY <1>6, <1>12, <3>3
          <6>7. FALSE
            BY ONLY <1>6, <3>4, <3>7, <6>3, <6>4, <6>5, <6>6
          <6>8. QED
            BY <6>7
        <5>2. QED
          BY <1>5, <3>2, <5>1
      <4>2. written[k] = m /\ e = x + Size(m)
        <5>1. W \in 1..W
          BY <1>5
        <5>2. QED
          BY <1>5, <1>10, <1>11, <3>1, <4>1, <5>1
      <4>3. PICK j : j = i - FlowLen
        OBVIOUS
      <4>4. j \in 1..r /\ Size(m) - r + j = p
        <5>1. i = x + p - a /\ FlowLen + r = e - a
          BY <1>11, <3>1
        <5>2. x \in Int /\ a \in Int /\ e \in Int /\ FlowLen \in Int /\ p \in Int /\ p <= Size(m)
          BY <1>6, <1>12, <3>3, <3>4, <4>2
        <5>3. e = x + Size(m) /\ Size(m) \in Int /\ r \in Int
          BY <1>6, <4>2
        <5>4. j = p - Size(m) + r /\ i \in Int
          BY ONLY <4>3, <5>1, <5>2, <5>3
        <5>5. j >= 1
          BY ONLY <3>7, <4>3, <5>2, <5>4
        <5>6. QED
          BY ONLY <5>2, <5>3, <5>4, <5>5
      <4>5. LastBytes(m, r)[j] = <<m, p>>
        BY <4>4 DEF LastBytes
      <4>6. Flow'[i] = LastBytes(m, r)[j]
        BY <1>13, <3>5, <3>7, <4>3
      <4>7. QED
        BY <3>1, <4>2, <4>5, <4>6
    <3>8. i \in Int /\ FlowLen \in Int
      BY <1>6, <3>5
    <3>9. QED
      BY <3>6, <3>7, <3>8
  <2>2. SUFFICES ASSUME NEW k \in (Len(delivered') + 1)..Len(written'),
                        NEW p \in 1..Size(written[k])',
                        (begins[k] + p - Base(begins) <= FlowLen)'
                 PROVE  (Flow[begins[k] + p - Base(begins)] = <<written[k], p>>)'
    BY DEF Carries
  <2>3. Size(written[k])' = Size(written[k])
    BY <1>8 DEF Size
  <2>4. Len(delivered') + 1 = D + 1 /\ Len(written') = W
    BY <1>2, <1>8 DEF D, W
  <2>5. k \in (D + 1)..W /\ p \in 1..Size(written[k]) /\ begins[k] + p - a <= FlowLen'
    BY <1>14, <2>2, <2>3, <2>4
  <2>6. QED
    BY <1>8, <1>14, <2>1, <2>5
<1>17. Missing(q)'
  <2>1. writing \in [Writer -> Seq(Message \X Nat)]
    BY <1>1 DEF StreamTypes
  <2>2. writing'[w] = LastBytes(m, q) /\ \A v \in Writer \ {w} : writing'[v] = <<>>
    <3>1. n \in 0..r
      BY <1>6, <1>9
    <3>2. Rest(LastBytes(m, r), n) = LastBytes(m, q)
      BY <1>1, <1>5, <1>6, <1>10, <3>1, RestOfLast
    <3>3. QED
      BY <1>3, <1>7, <2>1, <3>2
  <2>3. LastBytes(Last(written), q)' = LastBytes(m, q) /\ Size(Last(written))' = Size(m)
    BY <1>4, <1>8 DEF LastBytes, Size
  <2>4. CASE q = 0
    <3>1. 0 \in 0..Size(m)
      BY <1>6
    <3>2. LastBytes(m, 0) \in Seq(Message \X Nat) /\ Len(LastBytes(m, 0)) = 0
      BY <1>1, <1>5, <3>1, LastOf
    <3>3. writing'[w] = <<>>
      BY <2>2, <2>4, <3>2
    <3>4. \A v \in Writer : Unsent(v)'
      BY <2>2, <3>3 DEF Unsent
    <3>5. QED
      BY <2>4, <3>4 DEF Missing
  <2>5. CASE q > 0
    <3>1. q \in 1..(Size(m) - 1)
      BY <1>6, <1>12, <2>5
    <3>2. QED
      BY <1>2, <1>8, <2>2, <2>3, <3>1 DEF Missing
  <2>6. QED
    BY <1>12, <2>4, <2>5
<1>18. (FlowLen + q = begins[Len(written) + 1] - Base(begins))'
  <2>1. begins[Len(written') + 1] = e
    BY <1>8, <1>10 DEF W
  <2>2. FlowLen' + q = e - a
    <3>1. FlowLen' = FlowLen + n /\ FlowLen + r = e - a /\ q = r - n
      BY <1>10, <1>11, <1>13
    <3>2. FlowLen \in Int /\ n \in Int /\ e \in Int /\ a \in Int /\ r \in Int
      BY <1>6, <1>9, <1>12
    <3>3. QED
      BY ONLY <3>1, <3>2
  <2>3. QED
    BY <1>14, <2>1, <2>2
<1>19. Balances(begins, q)'
  BY <1>15, <1>16, <1>17, <1>18 DEF Balances
<1>20. QED
  BY <1>8, <1>19
-----------------------------------------------------------------------------
(* Each step keeps the invariant and is one of the channel.                *)
LEMMA SendKeeps ==
  ASSUME StreamInv, NEW w \in Writer, SocketSend(w)
  PROVE  StreamInv' /\ [Channel!Next]_<<written, delivered>>
<1>1. StreamTypes /\ ReaderAt /\ OneSends /\ offset <= bytes_read
  BY DEF StreamInv, ReaderAt
<1>2. /\ UNCHANGED <<tcpPartial, todo, peer, rpc, buffer, offset, bytes_read, delivered>>
      /\ writing[w] # <<>> /\ peer = "open"
  BY DEF SocketSend
<1>3. PICK n \in 1..Len(writing[w]) :
        /\ stream' = stream \o SubSeq(writing[w], 1, n)
        /\ writing' = [writing EXCEPT ![w] = Rest(@, n)]
  BY DEF SocketSend
<1>4. PICK begins, r : Balances(begins, r)
  BY DEF StreamInv
<1>5. /\ (\E b, q : Balances(b, q)')
      /\ written' = written \/ \E m \in Message : written' = Append(written, m)
  <2>1. CASE r = 0 /\ \A v \in Writer : Unsent(v)
    <3>1. Balances(begins, 0)
      BY <1>4, <2>1
    <3>2. QED
      BY <2>1, <3>1, SendBegins
  <2>2. CASE /\ tcpPartial /\ written # <<>> /\ r \in 1..(Size(Last(written)) - 1)
             /\ \E u \in Writer : /\ writing[u] = LastBytes(Last(written), r)
                                  /\ \A v \in Writer \ {u} : writing[v] = <<>>
    <3>1. writing[w] = LastBytes(Last(written), r) /\ \A v \in Writer \ {w} : writing[v] = <<>>
      BY <1>2, <2>2
    <3>2. (\E b, q : Balances(b, q)') /\ UNCHANGED written
      BY <1>4, <2>2, <3>1, SendContinues
    <3>3. QED
      BY <3>2
  <2>3. QED
    BY <1>4, <2>1, <2>2 DEF Balances, Missing
<1>6. writing[w] \in Seq(Message \X Nat) /\ writing \in [Writer -> Seq(Message \X Nat)]
  BY <1>1 DEF StreamTypes
<1>7. stream' \in Seq(Message \X Nat)
  BY <1>1, <1>2, <1>3, <1>6, SendGrowsFlow
<1>8. writing' \in [Writer -> Seq(Message \X Nat)]
  <2>1. n \in 0..Len(writing[w])
    BY <1>6
  <2>2. Rest(writing[w], n) \in Seq(Message \X Nat)
    BY <1>6, <2>1, RestOf
  <2>3. QED
    BY <1>3, <1>6, <2>2
<1>9. /\ written' \in Seq(Message) /\ Len(written) \in Nat /\ Len(written') \in Nat
      /\ Len(written) <= Len(written') /\ \A k \in 1..Len(written) : written'[k] = written[k]
  <2>1. written \in Seq(Message)
    BY <1>1 DEF StreamTypes, TcpTypeOK
  <2>2. CASE written' = written
    BY <2>1, <2>2
  <2>3. ASSUME NEW m \in Message, written' = Append(written, m)
        PROVE  <1>9!1
    BY <2>1, <2>3
  <2>4. QED
    BY <1>5, <2>2, <2>3
<1>10. /\ Len(delivered) \in Nat /\ Len(delivered) <= Len(written)
       /\ Len(delivered) < Len(written) => Len(delivered) + 1 \in 1..Len(written)
  BY <1>1, <1>9 DEF StreamTypes, TcpTypeOK
<1>11. StreamTypes'
  <2>1. TcpTypeOK'
    BY <1>1, <1>2, <1>9 DEF StreamTypes, TcpTypeOK
  <2>2. Len(delivered') <= Len(written') /\ delivered' \in Seq(Message)
    BY <1>1, <1>2, <1>9, <1>10 DEF StreamTypes
  <2>3. QED
    BY <1>1, <1>2, <1>7, <1>8, <2>1, <2>2 DEF StreamTypes
<1>12. ReaderAt'
  <2>1. Remaining' = Remaining
    BY <1>2 DEF Remaining
  <2>2. \A m \in Message : Size(m)' = Size(m)
    BY DEF Size
  <2>3. rpc = "consume" => Len(delivered') < Len(written')
                           /\ Remaining' >= Size(written'[Len(delivered') + 1])
    BY <1>1, <1>2, <1>9, <1>10, <2>1 DEF ReaderAt
  <2>4. QED
    BY <1>1, <1>2, <2>1, <2>3 DEF ReaderAt, Size
<1>13. OneSends'
  <2>1. \A v \in Writer : writing'[v] # <<>> => writing[v] # <<>>
    BY <1>2, <1>3, <1>6
  <2>2. QED
    BY <1>1, <1>2, <2>1 DEF OneSends
<1>14. peer' = "open"
  BY <1>2
<1>15. [Channel!Next]_<<written, delivered>>
  BY <1>2, <1>5 DEF Channel!Next, Channel!Write
<1>16. QED
  <2>1. (\E b, q : Balances(b, q))'
    BY <1>5
  <2>2. QED
    BY <1>11, <1>12, <1>13, <1>14, <1>15, <2>1 DEF StreamInv

(* Every step of the stream keeps the invariant, and is a step of an       *)
(* ordered channel or leaves it alone.                                     *)
LEMMA StreamNext ==
  ASSUME OneWriter, ~CutsMessage, StreamInv, TcpNext
  PROVE  StreamInv' /\ [Channel!Next]_<<written, delivered>>
<1>1. CASE PeerCloses
  BY <1>1, CloseKeeps
<1>2. CASE Poll
  BY <1>2, PollKeeps
<1>3. CASE ReadHeader \/ ReadBody
  BY <1>3, ReadKeeps
<1>4. CASE Consume
  BY <1>4, ConsumeKeeps DEF Channel!Next
<1>5. ASSUME NEW w \in Writer, IPWrite(w)
      PROVE  StreamInv' /\ [Channel!Next]_<<written, delivered>>
  BY <1>5, WriteKeeps
<1>6. ASSUME NEW w \in Writer, SocketSend(w)
      PROVE  StreamInv' /\ [Channel!Next]_<<written, delivered>>
  BY <1>6, SendKeeps
<1>7. ASSUME NEW w \in Writer, SendFails(w)
      PROVE  StreamInv' /\ [Channel!Next]_<<written, delivered>>
  BY <1>7, FailKeeps
<1>8. QED
  BY <1>1, <1>2, <1>3, <1>4, <1>5, <1>6, <1>7 DEF TcpNext, Reader

(* A step that leaves the variables of the stream alone keeps the invariant. *)
LEMMA StreamStutters ==
  ASSUME StreamInv, UNCHANGED tcpVars
  PROVE  StreamInv' /\ [Channel!Next]_<<written, delivered>>
<1>1. UNCHANGED <<tcpPartial, todo, writing, written, stream, peer, rpc, buffer, offset,
                  bytes_read, delivered>>
  BY DEF tcpVars
<1>2. PICK begins, r : Balances(begins, r)
  BY DEF StreamInv
<1>3. FlowLen' = FlowLen /\ Flow' = Flow
  BY <1>1 DEF FlowLen, Flow, Remaining
<1>4. Balances(begins, r)'
  BY <1>1, <1>2, <1>3, BalancesKept
<1>5. StreamTypes' /\ ReaderAt' /\ OneSends'
  BY <1>1 DEF StreamInv, StreamTypes, TcpTypeOK, ReaderAt, OneSends, Remaining, Size
<1>6. (peer = "closed" => \A w \in Writer : writing[w] = <<>>)'
  BY <1>1 DEF StreamInv
<1>7. QED
  BY <1>1, <1>4, <1>5, <1>6 DEF StreamInv

(* The stream starts with the invariant, as an empty ordered channel.      *)
LEMMA StreamInit ==
  ASSUME TcpInit
  PROVE  StreamInv /\ Channel!Init
<1>1. BufSize \in Nat
  BY StreamAssumption
<1>2. /\ Len(stream) = 0 /\ Remaining = 0 /\ FlowLen = 0 /\ Len(written) = 0 /\ Len(delivered) = 0
  BY DEF TcpInit, Remaining, FlowLen
<1>3. StreamTypes
  BY <1>1, <1>2 DEF TcpInit, StreamTypes, TcpTypeOK
<1>4. ReaderAt /\ OneSends /\ \A w \in Writer : Unsent(w) /\ writing[w] = <<>>
  BY <1>2 DEF TcpInit, ReaderAt, OneSends, Unsent
<1>5. PICK b : b = [k \in 1..1 |-> 0]
  OBVIOUS
<1>6. Balances(b, 0)
  <2>1. b \in [1..1 -> Nat] /\ b[1] = 0 /\ \A k \in 1..1 : k = 1
    BY <1>5
  <2>2. Layout(b)
    BY <1>2, <2>1 DEF Layout
  <2>3. Carries(b)
    BY <1>2 DEF Carries
  <2>4. Missing(0)
    BY <1>4 DEF Missing
  <2>5. FlowLen + 0 = b[Len(written) + 1] - Base(b)
    BY <1>2, <2>1 DEF Base
  <2>6. QED
    BY <2>2, <2>3, <2>4, <2>5 DEF Balances
<1>7. StreamInv
  BY <1>3, <1>4, <1>6 DEF StreamInv
<1>8. QED
  BY <1>7 DEF TcpInit, Channel!Init
-----------------------------------------------------------------------------
(* A TCP connection is an ordered channel: the messages consumed are those *)
(* written, whole, once and in order, whatever the sizes of the sends and  *)
(* of the reads (TCP_read_and_parse_buffer, ldp_complete_msg,              *)
(* ldp_IP_write), if one thread writes at a time when a send may be        *)
(* partial, which ldp_IP_write does not see to, and if neither the end of  *)
(* the peer nor the timeout of a socket cuts a message.                    *)
THEOREM ConnectionIsChannel == OneWriter /\ ~CutsMessage => (Spec => ImplementsChannel)
<1> SUFFICES ASSUME OneWriter, ~CutsMessage PROVE Spec => ImplementsChannel
  OBVIOUS
<1>1. Init => StreamInv /\ Channel!Init
  BY StreamInit DEF Init
<1>2. StreamInv /\ [Next]_vars => StreamInv' /\ [Channel!Next]_<<written, delivered>>
  <2>1. Next => TcpNext \/ UNCHANGED tcpVars
    BY DEF Next, Tcp, Connections, Udp, Port, Datagrams, Status, localVars
  <2>2. UNCHANGED vars => UNCHANGED tcpVars
    BY DEF vars, localVars
  <2>3. QED
    BY <2>1, <2>2, StreamNext, StreamStutters
<1>3. QED
  BY <1>1, <1>2, PTL DEF Spec, ImplementsChannel, Channel!Spec
-----------------------------------------------------------------------------
(* The other links.                                                        *)

(* The least element of a set of numbers.                                  *)
LEMMA MinIsLeast ==
  ASSUME NEW S \in SUBSET Nat, S # {}
  PROVE  Min(S) \in S /\ \A y \in S : Min(S) <= y
<1> DEFINE Below == {0 .. y : y \in S}
           R == StrictSubsetOrdering(Nat)
<1>1. Below \subseteq FiniteSubsetsOf(Nat) /\ Below # {}
  <2>1. \A y \in S : 0 .. y \in SUBSET Nat /\ IsFiniteSet(0 .. y)
    BY FS_Interval
  <2>2. QED
    BY <2>1 DEF FiniteSubsetsOf
<1>2. \E T \in Below : \A U \in Below : ~ (<<U, T>> \in R)
  <2> HIDE DEF Below, R
  <2>1. IsWellFoundedOn(StrictSubsetOrdering(Nat), FiniteSubsetsOf(Nat))
    BY FS_StrictSubsetOrderingWellFounded
  <2>2. QED
    BY <1>1, <2>1, WFMin DEF R
<1>3. PICK x \in S : \A y \in S : ~ (<<0 .. y, 0 .. x>> \in R)
  BY <1>2
<1>4. ASSUME NEW y \in S, y < x
      PROVE  FALSE
  <2>1. 0 .. y \subseteq 0 .. x
    BY <1>4
  <2>2. x \in 0 .. x /\ x \notin 0 .. y
    BY <1>4
  <2>3. 0 .. y \in SUBSET Nat /\ 0 .. x \in SUBSET Nat
    OBVIOUS
  <2>4. <<0 .. y, 0 .. x>> \in R
    BY <2>1, <2>2, <2>3 DEF StrictSubsetOrdering
  <2>5. QED
    BY <1>3, <2>4
<1>5. \A y \in S : x <= y
  BY <1>4
<1>6. QED
  BY <1>5 DEF Min

(* A sequence with one more element at its end.                            *)
LEMMA Grown ==
  ASSUME NEW S, NEW s \in Seq(S), NEW e \in S
  PROVE  /\ Append(s, e) \in Seq(S) /\ Len(s) \in Nat /\ Len(Append(s, e)) = Len(s) + 1
         /\ DOMAIN s = 1..Len(s) /\ DOMAIN Append(s, e) = 1..(Len(s) + 1)
         /\ \A k \in 1..Len(s) : Append(s, e)[k] = s[k]
         /\ Append(s, e)[Len(s) + 1] = e
         /\ ToSet(Append(s, e)) = ToSet(s) \cup {e}
<1>1. /\ Append(s, e) \in Seq(S) /\ Len(s) \in Nat /\ Len(Append(s, e)) = Len(s) + 1
      /\ DOMAIN s = 1..Len(s) /\ DOMAIN Append(s, e) = 1..(Len(s) + 1)
      /\ \A k \in 1..Len(s) : Append(s, e)[k] = s[k]
      /\ Append(s, e)[Len(s) + 1] = e
  OBVIOUS
<1> DEFINE r == Append(s, e)
<1> HIDE DEF r
<1>2. /\ Len(s) \in Nat /\ DOMAIN s = 1..Len(s) /\ DOMAIN r = 1..(Len(s) + 1)
      /\ \A k \in 1..Len(s) : r[k] = s[k]
      /\ r[Len(s) + 1] = e
  BY <1>1 DEF r
<1>3. \A k \in 1..(Len(s) + 1) : k \in 1..Len(s) \/ k = Len(s) + 1
  BY <1>2
<1>4. ToSet(r) \subseteq ToSet(s) \cup {e}
  BY <1>2, <1>3 DEF ToSet
<1>5. ToSet(s) \cup {e} \subseteq ToSet(r)
  <2>1. Len(s) + 1 \in DOMAIN r /\ \A k \in DOMAIN s : k \in DOMAIN r /\ r[k] = s[k]
    BY <1>2
  <2>2. QED
    BY <1>2, <2>1 DEF ToSet
<1>6. QED
  BY <1>1, <1>4, <1>5 DEF r

(* A sequence without its first element.                                   *)
LEMMA Shrunk ==
  ASSUME NEW S, NEW s \in Seq(S), s # <<>>
  PROVE  /\ Tail(s) \in Seq(S) /\ Len(s) \in Nat \ {0} /\ Len(Tail(s)) = Len(s) - 1
         /\ DOMAIN s = 1..Len(s) /\ DOMAIN Tail(s) = 1..(Len(s) - 1)
         /\ \A k \in 1..(Len(s) - 1) : Tail(s)[k] = s[k + 1] /\ k + 1 \in 1..Len(s)
         /\ Head(s) = s[1] /\ Head(s) \in S /\ 1 \in DOMAIN s
         /\ \A k \in 1..Len(s) : k = 1 \/ (k - 1 \in 1..(Len(s) - 1) /\ Tail(s)[k - 1] = s[k])
<1>1. /\ Tail(s) \in Seq(S) /\ Len(s) \in Nat \ {0} /\ Len(Tail(s)) = Len(s) - 1
      /\ DOMAIN s = 1..Len(s) /\ DOMAIN Tail(s) = 1..(Len(s) - 1)
      /\ \A k \in 1..(Len(s) - 1) : Tail(s)[k] = s[k + 1]
      /\ Head(s) = s[1] /\ Head(s) \in S
  OBVIOUS
<1>2. \A k \in 1..Len(s) : k = 1 \/ (k - 1 \in 1..(Len(s) - 1) /\ (k - 1) + 1 = k)
  BY <1>1
<1>3. QED
  BY <1>1, <1>2

(* What is said twice of a list, is said of one place.                     *)
LEMMA ListGrows ==
  ASSUME NEW S, NEW s \in Seq(S), NEW e \in S, IsInjective(s), e \notin ToSet(s)
  PROVE  IsInjective(Append(s, e))
<1> DEFINE r == Append(s, e)
<1>1. /\ Len(s) \in Nat /\ DOMAIN s = 1..Len(s) /\ DOMAIN r = 1..(Len(s) + 1)
      /\ \A k \in 1..Len(s) : r[k] = s[k]
      /\ r[Len(s) + 1] = e
  BY Grown
<1> HIDE DEF r
<1>2. ASSUME NEW a \in DOMAIN r, NEW b \in DOMAIN r, r[a] = r[b]
      PROVE  a = b
  <2>1. (a \in DOMAIN s \/ a = Len(s) + 1) /\ (b \in DOMAIN s \/ b = Len(s) + 1)
    BY <1>1
  <2>2. \A k \in DOMAIN s : r[k] = s[k] /\ s[k] # e
    BY <1>1 DEF ToSet
  <2>3. QED
    BY <1>1, <1>2, <2>1, <2>2 DEF IsInjective
<1>3. QED
  BY <1>2 DEF IsInjective, r

LEMMA ListShrinks ==
  ASSUME NEW S, NEW s \in Seq(S), s # <<>>, IsInjective(s)
  PROVE  /\ IsInjective(Tail(s)) /\ Head(s) \in ToSet(s)
         /\ ToSet(Tail(s)) = ToSet(s) \ {Head(s)}
<1> DEFINE r == Tail(s)
           h == Head(s)
<1>1. /\ Len(s) \in Nat \ {0} /\ DOMAIN s = 1..Len(s) /\ DOMAIN r = 1..(Len(s) - 1)
      /\ \A k \in 1..(Len(s) - 1) : r[k] = s[k + 1] /\ k + 1 \in 1..Len(s)
      /\ h = s[1] /\ 1 \in DOMAIN s
      /\ \A k \in 1..Len(s) : k = 1 \/ (k - 1 \in 1..(Len(s) - 1) /\ r[k - 1] = s[k])
  BY Shrunk
<1> HIDE DEF r, h
<1>2. ASSUME NEW a \in DOMAIN r, NEW b \in DOMAIN r, r[a] = r[b]
      PROVE  a = b
  <2>1. a + 1 = b + 1 /\ a \in Nat /\ b \in Nat
    BY <1>1, <1>2 DEF IsInjective
  <2>2. QED
    BY <2>1
<1>3. \A k \in DOMAIN r : r[k] # h /\ r[k] \in ToSet(s)
  <2> SUFFICES ASSUME NEW k \in DOMAIN r
               PROVE  r[k] # h /\ r[k] \in ToSet(s)
    OBVIOUS
  <2>1. k + 1 \in DOMAIN s /\ r[k] = s[k + 1] /\ k + 1 # 1
    BY <1>1
  <2>2. QED
    BY <1>1, <2>1 DEF IsInjective, ToSet
<1>4. ASSUME NEW k \in DOMAIN s, s[k] # h
      PROVE  s[k] \in ToSet(r)
  <2>1. k - 1 \in DOMAIN r /\ r[k - 1] = s[k]
    BY <1>1, <1>4
  <2>2. QED
    BY <2>1 DEF ToSet
<1>5. ToSet(r) = ToSet(s) \ {h}
  BY <1>3, <1>4 DEF ToSet
<1>6. IsInjective(r)
  BY <1>2 DEF IsInjective
<1>7. h \in ToSet(s)
  BY <1>1 DEF ToSet
<1>8. QED
  BY <1>5, <1>6, <1>7 DEF r, h

(* The list of a set.                                                      *)
LEMMA ListOfSet ==
  ASSUME NEW S, IsFiniteSet(S)
  PROVE  SetToSeq(S) \in Seq(S) /\ IsInjective(SetToSeq(S)) /\ ToSet(SetToSeq(S)) = S
<1> DEFINE n == Cardinality(S)
           g == SetToSeq(S)
<1>1. n \in Nat /\ ExistsBijection(1..n, S)
  BY FS_CardinalityType
<1>2. PICK f \in [1..n -> S] : IsInjective(f)
  BY <1>1 DEF ExistsBijection, Bijection, Injection
<1>3. g \in [1..n -> S] /\ IsInjective(g)
  BY <1>2 DEF SetToSeq
<1> HIDE DEF n, g
<1>4. g \in Injection(1..n, S)
  BY <1>3 DEF Injection
<1>5. IsFiniteSet(1..n) /\ Cardinality(1..n) = n
  BY <1>1, FS_Interval
<1>6. g \in Surjection(1..n, S)
  BY <1>4, <1>5, FS_Injection DEF n
<1>7. ToSet(g) = S
  BY <1>3, <1>6 DEF ToSet, Surjection
<1>8. g \in Seq(S)
  BY <1>1, <1>3
<1>9. QED
  BY <1>3, <1>7, <1>8 DEF g
-----------------------------------------------------------------------------
(* The connections that are made again.                                    *)

Fds == {"connection", "communication"}
LinkTypes ==
  /\ deaths \in 0..MaxDeaths /\ tries \in Nat
  /\ up \in [Interface -> BOOLEAN] /\ listening \in [Interface -> BOOLEAN]
  /\ watched \in [Interface -> SUBSET Fds] /\ ready \in [Interface -> Seq(Fds)]
  /\ backlog \in [Interface -> Seq(Socket)]
  /\ comm \in [Interface -> Socket] /\ mine \in [Interface -> Socket]
  /\ to_recon \in Seq(Interface)

(* The list has the interfaces that have no socket, once; a turn of the    *)
(* client's loop tries those that were there when it began.                *)
LinkInv ==
  /\ LinkTypes /\ tries <= Len(to_recon) /\ IsInjective(to_recon)
  /\ ToSet(to_recon) = {i \in Interface : mine[i] = "none"}

LEMMA LinkInvGives == LinkInv => LinkTypeOK /\ ListedOrConnected
<1> SUFFICES ASSUME LinkInv
             PROVE  LinkTypeOK /\ ListedOrConnected
  OBVIOUS
<1>1. LinkTypeOK
  BY DEF LinkInv, LinkTypes, LinkTypeOK, Fds
<1>2. ASSUME NEW i \in Interface
      PROVE  Cardinality({k \in DOMAIN to_recon : to_recon[k] = i}) = IF mine[i] = "none" THEN 1 ELSE 0
  <2> DEFINE K == {k \in DOMAIN to_recon : to_recon[k] = i}
  <2>1. CASE mine[i] = "none"
    <3>1. PICK k \in DOMAIN to_recon : to_recon[k] = i
      BY <2>1 DEF LinkInv, ToSet
    <3>2. K = {k}
      BY <3>1 DEF LinkInv, IsInjective
    <3>3. QED
      BY <2>1, <3>2, FS_Singleton
  <2>2. CASE mine[i] # "none"
    <3>1. K = {}
      BY <2>2 DEF LinkInv, ToSet
    <3>2. QED
      BY <2>2, <3>1, FS_EmptySet
  <2>3. QED
    BY <2>1, <2>2
<1>3. QED
  BY <1>1, <1>2 DEF ListedOrConnected

LEMMA LinkInitially == LinkInit => LinkInv
<1> SUFFICES ASSUME LinkInit
             PROVE  LinkInv
  OBVIOUS
<1>1. to_recon \in Seq(Interface) /\ IsInjective(to_recon) /\ ToSet(to_recon) = Interface
  BY ListOfSet, LinkAssumption DEF LinkInit
<1>2. LinkTypes
  BY <1>1, LinkAssumption DEF LinkInit, LinkTypes, Fds, Socket
<1>3. tries <= Len(to_recon)
  <2>1. Len(to_recon) \in Nat
    BY <1>1
  <2>2. QED
    BY <2>1 DEF LinkInit
<1>4. QED
  BY <1>1, <1>2, <1>3 DEF LinkInit, LinkInv

(* The events of a server are those of its descriptors.                    *)
LEMMA EventsTyped ==
  ASSUME LinkTypes, NEW i \in Interface
  PROVE  /\ \A fd \in Fds : Notified(i, fd) \in Seq(Fds)
         /\ Event(i) => Fd(i) \in Fds /\ \A again : Later(i, again) \in Seq(Fds)
<1>1. ready[i] \in Seq(Fds)
  BY DEF LinkTypes
<1>2. \A fd \in Fds : Notified(i, fd) \in Seq(Fds)
  BY <1>1 DEF Notified
<1>3. ASSUME Event(i)
      PROVE  Fd(i) \in Fds /\ \A again : Later(i, again) \in Seq(Fds)
  <2>1. Fd(i) \in Fds /\ Tail(ready[i]) \in Seq(Fds)
    BY <1>1, <1>3, Shrunk DEF Event, Fd
  <2>2. Append(Tail(ready[i]), Fd(i)) \in Seq(Fds)
    BY <2>1
  <2>3. QED
    BY <2>1, <2>2 DEF Later
<1>4. QED
  BY <1>2, <1>3

(* The steps of the client.                                                *)
LEMMA ClientKeeps ==
  ASSUME LinkInv, Client
  PROVE  LinkInv'
<1> USE DEF LinkInv
<1>1. Len(to_recon) \in Nat
  BY DEF LinkTypes
<1>2. CASE StartTurn
  <2>1. UNCHANGED <<deaths, up, listening, watched, ready, backlog, comm, mine, to_recon>>
        /\ tries' = Len(to_recon)
    BY <1>2 DEF StartTurn
  <2>2. LinkTypes'
    BY <1>1, <2>1 DEF LinkTypes
  <2>3. QED
    BY <1>1, <2>1, <2>2
<1>3. CASE TryConnect
  <2> DEFINE i == Head(to_recon)
  <2>1. to_recon # <<>> /\ tries \in Nat /\ tries > 0
    BY <1>1, <1>3 DEF TryConnect, LinkTypes
  <2>2. /\ Tail(to_recon) \in Seq(Interface) /\ i \in Interface
        /\ Len(Tail(to_recon)) = Len(to_recon) - 1
        /\ IsInjective(Tail(to_recon)) /\ i \in ToSet(to_recon)
        /\ ToSet(Tail(to_recon)) = ToSet(to_recon) \ {i}
    BY <2>1, Shrunk, ListShrinks DEF LinkTypes
  <2>3. mine[i] = "none"
    BY <2>2
  <2>4. tries' = tries - 1 /\ UNCHANGED <<deaths, up, listening, watched, comm>>
    BY <1>3 DEF TryConnect
  <2> HIDE DEF i
  <2>5. CASE Connects(i)
    <3>1. /\ mine' = [mine EXCEPT ![i] = "open"]
          /\ backlog' = [backlog EXCEPT ![i] = Append(@, "open")]
          /\ ready' = [ready EXCEPT ![i] = Notified(i, "connection")]
          /\ to_recon' = Tail(to_recon)
      BY <1>3, <2>5 DEF TryConnect, i
    <3>2. Notified(i, "connection") \in Seq(Fds) /\ Append(backlog[i], "open") \in Seq(Socket)
      BY <2>2, EventsTyped DEF Fds, LinkTypes, Socket
    <3>3. ready' \in [Interface -> Seq(Fds)] /\ backlog' \in [Interface -> Seq(Socket)]
          /\ mine' \in [Interface -> Socket]
      BY <3>1, <3>2 DEF LinkTypes, Socket
    <3>4. LinkTypes'
      BY <2>1, <2>2, <2>4, <3>1, <3>3 DEF LinkTypes
    <3>5. \A j \in Interface : mine'[j] = IF j = i THEN "open" ELSE mine[j]
      BY <3>1 DEF LinkTypes
    <3>6. ToSet(to_recon') = {j \in Interface : mine'[j] = "none"}
      BY <2>2, <3>1, <3>5
    <3>7. tries' <= Len(to_recon')
      BY <1>1, <2>1, <2>2, <2>4, <3>1
    <3>8. QED
      BY <2>2, <3>1, <3>4, <3>6, <3>7
  <2>6. CASE ~Connects(i)
    <3>1. UNCHANGED <<mine, backlog, ready>> /\ to_recon' = Append(Tail(to_recon), i)
      BY <1>3, <2>6 DEF TryConnect, i, AddLast
    <3>2. /\ to_recon' \in Seq(Interface) /\ Len(to_recon') = Len(to_recon)
          /\ ToSet(to_recon') = ToSet(to_recon)
      <4>1. PICK rest, x : rest = Tail(to_recon) /\ x = i
        OBVIOUS
      <4>2. /\ rest \in Seq(Interface) /\ Len(rest) = Len(to_recon) - 1
            /\ ToSet(rest) = ToSet(to_recon) \ {x} /\ to_recon' = Append(rest, x)
            /\ x \in Interface
        BY <2>2, <3>1, <4>1
      <4>3. /\ Append(rest, x) \in Seq(Interface) /\ Len(Append(rest, x)) = Len(rest) + 1
            /\ ToSet(Append(rest, x)) = ToSet(rest) \cup {x}
        BY <4>2, Grown
      <4>4. (ToSet(to_recon) \ {x}) \cup {x} = ToSet(to_recon)
        BY <2>2, <4>1
      <4>5. QED
        BY <1>1, <4>2, <4>3, <4>4
    <3>3. IsInjective(to_recon')
      BY <2>2, <3>1, ListGrows
    <3>4. LinkTypes'
      BY <2>1, <2>4, <3>1, <3>2 DEF LinkTypes
    <3>5. tries' <= Len(to_recon')
      BY <1>1, <2>1, <2>4, <3>2
    <3>6. QED
      BY <3>1, <3>2, <3>3, <3>4, <3>5
  <2>7. QED
    BY <2>5, <2>6
<1>4. CASE ClientReadsEnd
  <2>1. PICK i \in Interface : /\ mine[i] = "eof" /\ mine' = [mine EXCEPT ![i] = "none"]
                               /\ to_recon' = Append(to_recon, i)
    BY <1>4 DEF ClientReadsEnd, AddLast
  <2>2. UNCHANGED <<deaths, up, listening, watched, ready, backlog, comm, tries>> /\ tries = 0
    BY <1>4 DEF ClientReadsEnd
  <2>3. i \notin ToSet(to_recon)
    BY <2>1
  <2>4. /\ to_recon' \in Seq(Interface) /\ Len(to_recon') = Len(to_recon) + 1
        /\ ToSet(to_recon') = ToSet(to_recon) \cup {i}
    BY <2>1, Grown DEF LinkTypes
  <2>5. IsInjective(to_recon')
    BY <2>1, <2>3, ListGrows DEF LinkTypes
  <2>6. mine' \in [Interface -> Socket] /\ \A j \in Interface : mine'[j] = IF j = i THEN "none" ELSE mine[j]
    BY <2>1 DEF LinkTypes, Socket
  <2>7. LinkTypes'
    BY <2>2, <2>4, <2>6 DEF LinkTypes
  <2>8. tries' <= Len(to_recon')
    BY <1>1, <2>2, <2>4
  <2>9. ToSet(to_recon') = {j \in Interface : mine'[j] = "none"}
    BY <2>4, <2>6
  <2>10. QED
    BY <2>5, <2>7, <2>8, <2>9
<1>5. QED
  BY <1>2, <1>3, <1>4 DEF Client

(* The steps of a server leave the client's list alone.                    *)
LEMMA ServerKeeps ==
  ASSUME LinkInv, NEW i \in Interface, Server(i)
  PROVE  LinkInv'
<1> USE DEF LinkInv
<1>1. UNCHANGED <<deaths, mine, to_recon, tries>>
  BY DEF Server, Accept, ServerReadsEnd, ServerStarts
<1>2. CASE Accept(i)
  <2>1. /\ comm' = [comm EXCEPT ![i] = Head(backlog[i])]
        /\ backlog' = [backlog EXCEPT ![i] = Tail(@)]
        /\ watched' = [watched EXCEPT ![i] = @ \cup {"communication"}]
        /\ listening' = [listening EXCEPT ![i] = FALSE]
        /\ Event(i) /\ backlog[i] # <<>> /\ UNCHANGED up
    BY <1>2 DEF Accept
  <2>2. PICK again, rest : /\ rest = Later(i, again)
                           /\ ready' = [ready EXCEPT ![i] =
                                IF Head(backlog[i]) = "eof" THEN Append(rest, "communication") ELSE rest]
    BY <1>2 DEF Accept
  <2>3. rest \in Seq(Fds) /\ Append(rest, "communication") \in Seq(Fds)
    BY <2>1, <2>2, EventsTyped DEF Fds
  <2>4. Head(backlog[i]) \in Socket /\ Tail(backlog[i]) \in Seq(Socket)
    BY <2>1, Shrunk DEF LinkTypes
  <2>5. /\ comm' \in [Interface -> Socket] /\ backlog' \in [Interface -> Seq(Socket)]
        /\ listening' \in [Interface -> BOOLEAN] /\ ready' \in [Interface -> Seq(Fds)]
    BY <2>1, <2>2, <2>3, <2>4 DEF LinkTypes
  <2>6. watched' \in [Interface -> SUBSET Fds]
    BY <2>1 DEF LinkTypes, Fds
  <2>7. QED
    BY <1>1, <2>1, <2>5, <2>6 DEF LinkTypes
<1>3. CASE ServerReadsEnd(i)
  <2>1. /\ watched' = [watched EXCEPT ![i] = @ \ {Forgotten(i)}]
        /\ comm' = [comm EXCEPT ![i] = "none"]
        /\ listening' = [listening EXCEPT ![i] = TRUE]
        /\ ready' = [ready EXCEPT ![i] = Later(i, FALSE)]
        /\ Event(i) /\ UNCHANGED <<up, backlog>>
    BY <1>3 DEF ServerReadsEnd
  <2>2. Later(i, FALSE) \in Seq(Fds)
    BY <2>1, EventsTyped
  <2>3. /\ comm' \in [Interface -> Socket] /\ watched' \in [Interface -> SUBSET Fds]
        /\ listening' \in [Interface -> BOOLEAN] /\ ready' \in [Interface -> Seq(Fds)]
    BY <2>1, <2>2 DEF LinkTypes, Socket
  <2>4. QED
    BY <1>1, <2>1, <2>3 DEF LinkTypes
<1>4. CASE ServerStarts(i)
  <2>1. up' = [up EXCEPT ![i] = TRUE] /\ UNCHANGED <<listening, watched, ready, backlog, comm>>
    BY <1>4 DEF ServerStarts
  <2>2. QED
    BY <1>1, <2>1 DEF LinkTypes
<1>5. QED
  BY <1>2, <1>3, <1>4 DEF Server

(* The client dies with its sockets, and begins with all its interfaces.   *)
LEMMA ClientDiesKeeps ==
  ASSUME LinkInv, ClientDies
  PROVE  LinkInv'
<1> USE DEF LinkInv
<1>1. /\ deaths < MaxDeaths /\ deaths' = deaths + 1
      /\ comm' = [i \in Interface |-> Ended(comm[i])]
      /\ backlog' = [i \in Interface |-> [k \in DOMAIN backlog[i] |-> "eof"]]
      /\ ready' = [i \in Interface |->
                     IF comm[i] = "open" THEN Notified(i, "communication") ELSE ready[i]]
      /\ mine' = [i \in Interface |-> "none"]
      /\ to_recon' = SetToSeq(Interface) /\ tries' = 0
      /\ UNCHANGED <<up, listening, watched>>
  BY DEF ClientDies
<1>2. to_recon' \in Seq(Interface) /\ IsInjective(to_recon') /\ ToSet(to_recon') = Interface
  BY <1>1, ListOfSet, LinkAssumption
<1>3. \A i \in Interface : Notified(i, "communication") \in Seq(Fds)
  BY EventsTyped DEF Fds
<1>4. ready' \in [Interface -> Seq(Fds)]
  BY <1>1, <1>3 DEF LinkTypes
<1>5. ASSUME NEW i \in Interface
      PROVE  [k \in DOMAIN backlog[i] |-> "eof"] \in Seq(Socket)
  <2>1. backlog[i] \in Seq(Socket) /\ DOMAIN backlog[i] = 1..Len(backlog[i]) /\ Len(backlog[i]) \in Nat
    BY DEF LinkTypes
  <2>2. QED
    BY <2>1 DEF Socket
<1>6. backlog' \in [Interface -> Seq(Socket)]
  BY <1>1, <1>5
<1>7. comm' \in [Interface -> Socket] /\ mine' \in [Interface -> Socket]
  BY <1>1 DEF LinkTypes, Ended, Socket
<1>8. deaths' \in 0..MaxDeaths
  BY <1>1, LinkAssumption DEF LinkTypes
<1>9. LinkTypes'
  BY <1>1, <1>2, <1>4, <1>6, <1>7, <1>8 DEF LinkTypes
<1>10. ToSet(to_recon') = {i \in Interface : mine'[i] = "none"}
  BY <1>1, <1>2
<1>11. tries' <= Len(to_recon')
  BY <1>1, <1>2
<1>12. QED
  BY <1>2, <1>9, <1>10, <1>11

(* A server dies: the client finds the end of its socket, and keeps it     *)
(* until it reads.                                                         *)
LEMMA ServerDiesKeeps ==
  ASSUME LinkInv, NEW i \in Interface, ServerDies(i)
  PROVE  LinkInv'
<1> USE DEF LinkInv
<1>1. /\ deaths < MaxDeaths /\ deaths' = deaths + 1
      /\ up' = [up EXCEPT ![i] = FALSE]
      /\ mine' = [mine EXCEPT ![i] = Ended(@)]
      /\ comm' = [comm EXCEPT ![i] = "none"]
      /\ backlog' = [backlog EXCEPT ![i] = <<>>] /\ ready' = [ready EXCEPT ![i] = <<>>]
      /\ listening' = [listening EXCEPT ![i] = TRUE]
      /\ watched' = [watched EXCEPT ![i] = {"connection"}]
      /\ UNCHANGED <<to_recon, tries>>
  BY DEF ServerDies
<1>2. deaths' \in 0..MaxDeaths
  BY <1>1, LinkAssumption DEF LinkTypes
<1>3. Ended(mine[i]) \in Socket /\ (Ended(mine[i]) = "none" <=> mine[i] = "none")
  BY DEF LinkTypes, Ended, Socket
<1>4. mine' \in [Interface -> Socket] /\ \A j \in Interface : mine'[j] = "none" <=> mine[j] = "none"
  BY <1>1, <1>3 DEF LinkTypes
<1>5. <<>> \in Seq(Socket) /\ <<>> \in Seq(Fds) /\ "none" \in Socket /\ {"connection"} \in SUBSET Fds
  BY DEF Socket, Fds
<1>6. /\ up' \in [Interface -> BOOLEAN] /\ listening' \in [Interface -> BOOLEAN]
      /\ comm' \in [Interface -> Socket]
  BY <1>1, <1>5 DEF LinkTypes
<1>7. backlog' \in [Interface -> Seq(Socket)] /\ ready' \in [Interface -> Seq(Fds)]
      /\ watched' \in [Interface -> SUBSET Fds]
  BY <1>1, <1>5 DEF LinkTypes
<1>8. LinkTypes'
  BY <1>1, <1>2, <1>4, <1>6, <1>7 DEF LinkTypes
<1>9. QED
  BY <1>1, <1>4, <1>8

LEMMA LinkKept == LinkInv /\ [LinkNext]_linkVars => LinkInv'
<1>1. ASSUME LinkInv, UNCHANGED linkVars
      PROVE  LinkInv'
  BY <1>1 DEF linkVars, LinkInv, LinkTypes, ToSet, IsInjective
<1>2. QED
  BY <1>1, ClientKeeps, ServerKeeps, ClientDiesKeeps, ServerDiesKeeps DEF LinkNext
-----------------------------------------------------------------------------
(* The ports.                                                              *)

PortTypes ==
  /\ attached \in [Process -> SUBSET Nat] /\ server \in [Process -> {"attach", "scan", "stopped"}]
  /\ at \in [Process -> Nat] /\ received_message \in [Process -> BOOLEAN]
  /\ queue \in [Process -> [Process -> 0..Depth]] /\ broadcast \in Seq(Process)
  /\ waiting \in [PDomain -> Process \cup {Nobody}] /\ sends \in [PDomain -> 0..MaxSends]

(* A server that starts has attached the interfaces before the one that it *)
(* is at.                                                                  *)
PortInv ==
  /\ PortTypes
  /\ \A p \in Process :
       /\ at[p] \in 1..(Len(Peer[p]) + 1)
       /\ server[p] = "attach" => attached[p] = 1..(at[p] - 1)
       /\ server[p] = "scan" => attached[p] = 1..Len(Peer[p])
       /\ server[p] = "stopped" => attached[p] = {}

(* The process at the other end of an interface.                           *)
LEMMA PeersAre ==
  ASSUME NEW p \in Process
  PROVE  /\ Peer[p] \in Seq(Process) /\ Len(Peer[p]) \in Nat
         /\ \A k \in 1..Len(Peer[p]) : Peer[p][k] \in Process
<1>1. Peer[p] \in Seq(Process \ {p})
  BY PortAssumption
<1>2. /\ Len(Peer[p]) \in Nat /\ DOMAIN Peer[p] = 1..Len(Peer[p])
      /\ \A k \in 1..Len(Peer[p]) : Peer[p][k] \in Process \ {p}
  BY <1>1
<1>3. Peer[p] \in Seq(Process)
  BY <1>1
<1>4. QED
  BY <1>2, <1>3

LEMMA PortInvGives == PortInv => PortTypeOK /\ AttachedAllOrNone
<1> SUFFICES ASSUME PortInv
             PROVE  PortTypeOK /\ AttachedAllOrNone
  OBVIOUS
<1>1. \A p \in Process : Len(Peer[p]) \in Nat
  BY PortAssumption
<1>2. AttachedAllOrNone
  BY DEF PortInv, AttachedAllOrNone
<1>3. ASSUME NEW p \in Process
      PROVE  attached[p] \subseteq 1..Len(Peer[p])
  <2>1. server[p] \in {"attach", "scan", "stopped"} /\ at[p] \in Nat /\ at[p] <= Len(Peer[p]) + 1
    BY <1>1 DEF PortInv, PortTypes
  <2>2. 1..(at[p] - 1) \subseteq 1..Len(Peer[p])
    BY <1>1, <2>1
  <2>3. QED
    BY <2>1, <2>2 DEF PortInv
<1>4. PortTypeOK
  BY <1>3 DEF PortInv, PortTypes, PortTypeOK
<1>5. QED
  BY <1>2, <1>4

LEMMA PortInitially == PortInit => PortInv
<1> SUFFICES ASSUME PortInit
             PROVE  PortInv
  OBVIOUS
<1>1. /\ attached = [p \in Process |-> {}] /\ server = [p \in Process |-> "attach"]
      /\ at = [p \in Process |-> 1] /\ received_message = [p \in Process |-> FALSE]
      /\ queue = [p \in Process |-> [r \in Process |-> 0]]
      /\ broadcast = <<>>
      /\ waiting = [p \in PDomain |-> Nobody] /\ sends = [p \in PDomain |-> 0]
  BY DEF PortInit
<1>2. Depth \in Nat /\ MaxSends \in Nat /\ \A p \in Process : Len(Peer[p]) \in Nat
  BY PortAssumption
<1>3. PortTypes
  BY <1>1, <1>2 DEF PortTypes
<1>4. ASSUME NEW p \in Process
      PROVE  at[p] \in 1..(Len(Peer[p]) + 1) /\ attached[p] = 1..(at[p] - 1) /\ server[p] = "attach"
  BY <1>1, <1>2
<1>5. QED
  BY <1>3, <1>4 DEF PortInv

(* A server attaches its next interface, or detaches those before it.      *)
LEMMA AttachKeeps ==
  ASSUME PortInv, NEW p \in Process, Attach(p)
  PROVE  PortInv'
<1> DEFINE l == Len(Peer[p])
           a == at[p]
<1>1. l \in Nat /\ a \in 1..(l + 1) /\ server[p] = "attach" /\ attached[p] = 1..(a - 1)
  BY PortAssumption DEF Attach, PortInv
<1>2. UNCHANGED <<received_message, broadcast, waiting, sends>>
  BY DEF Attach
<1> HIDE DEF l, a
<1>3. CASE Usable(p, a) /\ a < l
  <2>1. /\ attached' = [attached EXCEPT ![p] = @ \cup {a}] /\ at' = [at EXCEPT ![p] = @ + 1]
        /\ UNCHANGED <<server, queue>>
    BY <1>1, <1>3 DEF Attach, a, l
  <2>2. attached[p] \cup {a} = 1..((a + 1) - 1) /\ a + 1 \in 1..(l + 1) /\ a \in Nat
    BY <1>1, <1>3
  <2>3. /\ attached' \in [Process -> SUBSET Nat] /\ at' \in [Process -> Nat]
        /\ attached'[p] = 1..(at'[p] - 1) /\ at'[p] \in 1..(l + 1)
        /\ \A q \in Process \ {p} : attached'[q] = attached[q] /\ at'[q] = at[q]
    BY <2>1, <2>2 DEF PortInv, PortTypes, a
  <2>4. PortTypes'
    BY <1>2, <2>1, <2>3 DEF PortInv, PortTypes
  <2>5. QED
    BY <1>1, <2>1, <2>3, <2>4 DEF PortInv, l
<1>4. CASE Usable(p, a) /\ a = l
  <2>1. /\ attached' = [attached EXCEPT ![p] = @ \cup {a}] /\ at' = [at EXCEPT ![p] = 1]
        /\ server' = [server EXCEPT ![p] = "scan"] /\ Starts(p)
    BY <1>1, <1>4 DEF Attach, a, l
  <2>2. attached[p] \cup {a} = 1..l /\ 1 \in 1..(l + 1) /\ a \in Nat
    BY <1>1, <1>4
  <2>3. /\ attached' \in [Process -> SUBSET Nat] /\ at' \in [Process -> Nat]
        /\ server' \in [Process -> {"attach", "scan", "stopped"}]
        /\ attached'[p] = 1..l /\ at'[p] \in 1..(l + 1) /\ server'[p] = "scan"
        /\ \A q \in Process \ {p} :
             attached'[q] = attached[q] /\ at'[q] = at[q] /\ server'[q] = server[q]
    BY <2>1, <2>2 DEF PortInv, PortTypes, a
  <2>4. queue' \in [Process -> [Process -> 0..Depth]]
    <3>1. CASE p = 0
      BY <2>1, <3>1 DEF Starts, PortInv, PortTypes
    <3>2. CASE p # 0
      <4>1. queue[p][0] < Depth /\ queue' = [queue EXCEPT ![p][0] = @ + 1] /\ 0 \in Process
            /\ Depth \in Nat
        BY <2>1, <3>2, PortAssumption DEF Starts
      <4>2. queue[p][0] + 1 \in 0..Depth
        BY <4>1 DEF PortInv, PortTypes
      <4>3. QED
        BY <4>1, <4>2 DEF PortInv, PortTypes
    <3>3. QED
      BY <3>1, <3>2
  <2>5. PortTypes'
    BY <1>2, <2>3, <2>4 DEF PortInv, PortTypes
  <2>6. QED
    BY <2>3, <2>5 DEF PortInv, l
<1>5. CASE ~Usable(p, a)
  <2>1. /\ attached' = [attached EXCEPT ![p] = @ \ AttachedBefore(p)]
        /\ server' = [server EXCEPT ![p] = "stopped"]
        /\ UNCHANGED <<at, queue>>
    BY <1>5 DEF Attach, a
  <2>2. attached[p] \ AttachedBefore(p) = {}
    BY <1>1 DEF AttachedBefore, a
  <2>3. /\ attached' \in [Process -> SUBSET Nat]
        /\ server' \in [Process -> {"attach", "scan", "stopped"}]
        /\ attached'[p] = {} /\ server'[p] = "stopped"
        /\ \A q \in Process \ {p} : attached'[q] = attached[q] /\ server'[q] = server[q]
    BY <2>1, <2>2 DEF PortInv, PortTypes
  <2>4. PortTypes'
    BY <1>2, <2>1, <2>3 DEF PortInv, PortTypes
  <2>5. QED
    BY <2>1, <2>3, <2>4 DEF PortInv
<1>6. QED
  BY <1>3, <1>4, <1>5 DEF Attach, a, l

(* The loop of a server, and what is sent.                                 *)
LEMMA ScanKeeps ==
  ASSUME PortInv, NEW p \in Process, Receive(p) \/ NextScan(p)
  PROVE  PortInv'
<1> DEFINE l == Len(Peer[p])
<1>1. UNCHANGED <<attached, server, waiting, sends>> /\ l \in Nat /\ at[p] \in 1..(l + 1)
  BY PortAssumption DEF Receive, NextScan, PortInv
<1> HIDE DEF l
<1>2. CASE Receive(p)
  <2>1. at' = [at EXCEPT ![p] = @ + 1] /\ at[p] <= l
    BY <1>2 DEF Receive, LastPort, l
  <2>2. at[p] + 1 \in 1..(l + 1)
    BY <1>1, <2>1
  <2>3. /\ at' \in [Process -> Nat] /\ at'[p] \in 1..(l + 1)
        /\ \A q \in Process \ {p} : at'[q] = at[q]
    BY <2>1, <2>2 DEF PortInv, PortTypes
  <2> DEFINE from == Peer[p][at[p]]
  <2>4. from \in Process
    BY <1>1, <2>1, PeersAre DEF l
  <2> HIDE DEF from
  <2>5. /\ queue' \in [Process -> [Process -> 0..Depth]]
        /\ received_message' \in [Process -> BOOLEAN] /\ broadcast' \in Seq(Process)
    <3>1. CASE Taken(from, p)
      <4>1. queue[from][p] > 0 /\ queue' = [queue EXCEPT ![from][p] = @ - 1]
        BY <3>1 DEF Taken
      <4>2. queue[from][p] - 1 \in 0..Depth
        BY <2>4, <4>1, PortAssumption DEF PortInv, PortTypes
      <4>3. queue' \in [Process -> [Process -> 0..Depth]]
        BY <2>4, <4>1, <4>2 DEF PortInv, PortTypes
      <4>4. ~(queue[from][p] = 0)
        BY <4>1
      <4>5. /\ received_message' = [received_message EXCEPT ![p] = TRUE]
            /\ broadcast' = broadcast \/ broadcast' = Peer[0]
        BY <1>2, <4>4 DEF Receive, from
      <4>6. Peer[0] \in Seq(Process)
        BY PeersAre, PortAssumption
      <4>7. QED
        BY <4>3, <4>5, <4>6 DEF PortInv, PortTypes
    <3>2. CASE ~Taken(from, p)
      <4>1. UNCHANGED <<queue, received_message, broadcast>>
        BY <1>2, <3>2 DEF Receive, from
      <4>2. QED
        BY <4>1 DEF PortInv, PortTypes
    <3>3. QED
      BY <3>1, <3>2
  <2>6. PortTypes'
    BY <1>1, <2>3, <2>5 DEF PortInv, PortTypes
  <2>7. \A q \in Process : at'[q] \in 1..(Len(Peer[q]) + 1)
    BY <2>3 DEF PortInv, l
  <2>8. server[p] = "scan"
    BY <1>2 DEF Receive, Scanning
  <2>9. QED
    BY <1>1, <2>3, <2>6, <2>7, <2>8 DEF PortInv
<1>3. CASE NextScan(p)
  <2>1. /\ at' = [at EXCEPT ![p] = 1] /\ UNCHANGED <<queue, broadcast>>
        /\ received_message' = [received_message EXCEPT ![p] = FALSE]
        /\ server[p] = "scan"
    BY <1>3 DEF NextScan, Scanning
  <2>2. /\ at' \in [Process -> Nat] /\ at'[p] \in 1..(l + 1)
        /\ received_message' \in [Process -> BOOLEAN]
        /\ \A q \in Process \ {p} : at'[q] = at[q]
    BY <1>1, <2>1 DEF PortInv, PortTypes
  <2>3. PortTypes'
    BY <1>1, <2>1, <2>2 DEF PortInv, PortTypes
  <2>4. \A q \in Process : at'[q] \in 1..(Len(Peer[q]) + 1)
    BY <2>2 DEF PortInv, l
  <2>5. QED
    BY <1>1, <2>1, <2>2, <2>3, <2>4 DEF PortInv
<1>4. QED
  BY <1>2, <1>3

LEMMA SendersKeep ==
  ASSUME PortInv, MainSent \/ \E p \in PDomain : ModuleSends(p) \/ ModuleSent(p)
  PROVE  PortInv'
<1>1. UNCHANGED <<attached, server, at, received_message>>
  BY DEF MainSent, ModuleSends, ModuleSent
<1>2. Depth \in Nat /\ MaxSends \in Nat /\ 0 \in Process
  BY PortAssumption
<1>3. CASE MainSent
  <2> DEFINE r == Head(broadcast)
  <2>1. /\ broadcast # <<>> /\ queue[0][r] < Depth /\ UNCHANGED <<waiting, sends>>
        /\ queue' = [queue EXCEPT ![0][r] = @ + 1] /\ broadcast' = Tail(broadcast)
    BY <1>3 DEF MainSent, Room
  <2>2. r \in Process /\ Tail(broadcast) \in Seq(Process)
    BY <2>1, Shrunk DEF PortInv, PortTypes
  <2> HIDE DEF r
  <2>3. queue[0][r] + 1 \in 0..Depth
    <3>1. queue[0][r] \in 0..Depth /\ Depth \in Nat
      BY <1>2, <2>2, PortAssumption DEF PortInv, PortTypes
    <3>2. QED
      BY <2>1, <3>1
  <2>4. queue' \in [Process -> [Process -> 0..Depth]]
    BY <1>2, <2>1, <2>2, <2>3 DEF PortInv, PortTypes
  <2>5. PortTypes'
    BY <1>1, <2>1, <2>2, <2>4 DEF PortInv, PortTypes
  <2>6. QED
    BY <1>1, <2>5 DEF PortInv
<1>4. ASSUME NEW p \in PDomain, ModuleSends(p)
      PROVE  PortInv'
  <2>1. PICK k \in attached[p] : waiting' = [waiting EXCEPT ![p] = Peer[p][k]]
    BY <1>4 DEF ModuleSends
  <2>2. /\ sends[p] < MaxSends /\ sends' = [sends EXCEPT ![p] = @ + 1]
        /\ server[p] = "scan" /\ UNCHANGED <<queue, broadcast>> /\ p \in Process
    BY <1>4 DEF ModuleSends, PDomain
  <2>3. k \in 1..Len(Peer[p]) /\ Peer[p] \in Seq(Process)
    BY <2>1, <2>2, PeersAre DEF PortInv
  <2>4. Peer[p][k] \in Process
    BY <2>3
  <2>5. sends[p] + 1 \in 0..MaxSends
    BY <1>2, <2>2 DEF PortInv, PortTypes
  <2>6. waiting' \in [PDomain -> Process \cup {Nobody}] /\ sends' \in [PDomain -> 0..MaxSends]
    BY <2>1, <2>2, <2>4, <2>5 DEF PortInv, PortTypes
  <2>7. PortTypes'
    BY <1>1, <2>2, <2>6 DEF PortInv, PortTypes
  <2>8. QED
    BY <1>1, <2>7 DEF PortInv
<1>5. ASSUME NEW p \in PDomain, ModuleSent(p)
      PROVE  PortInv'
  <2> DEFINE r == waiting[p]
  <2>1. /\ r # Nobody /\ queue[p][r] < Depth /\ UNCHANGED <<broadcast, sends>>
        /\ queue' = [queue EXCEPT ![p][r] = @ + 1]
        /\ waiting' = [waiting EXCEPT ![p] = Nobody] /\ p \in Process
    BY <1>5 DEF ModuleSent, Room, PDomain
  <2>2. r \in Process
    BY <2>1 DEF PortInv, PortTypes
  <2> HIDE DEF r
  <2>3. queue[p][r] + 1 \in 0..Depth
    BY <1>2, <2>1, <2>2 DEF PortInv, PortTypes
  <2>4. queue' \in [Process -> [Process -> 0..Depth]]
    BY <2>1, <2>2, <2>3 DEF PortInv, PortTypes
  <2>5. waiting' \in [PDomain -> Process \cup {Nobody}]
    BY <2>1 DEF PortInv, PortTypes
  <2>6. PortTypes'
    BY <1>1, <2>1, <2>4, <2>5 DEF PortInv, PortTypes
  <2>7. QED
    BY <1>1, <2>6 DEF PortInv
<1>6. QED
  BY <1>3, <1>4, <1>5

LEMMA PortKept == PortInv /\ [PortNext]_portVars => PortInv'
<1>1. ASSUME PortInv, UNCHANGED portVars
      PROVE  PortInv'
  BY <1>1 DEF portVars, PortInv, PortTypes
<1>2. ASSUME PortInv, PortNext
      PROVE  PortInv'
  BY <1>2, AttachKeeps, ScanKeeps, SendersKeep DEF PortNext, PortServer, PDomain
<1>3. QED
  BY <1>1, <1>2
-----------------------------------------------------------------------------
(* What two platforms tell each other.                                     *)

Statuses == {"UP", "PULL"}
StatusInv ==
  /\ starts \in 0..MaxStarts /\ missed \in BOOLEAN
  /\ running \in [Platform -> BOOLEAN] /\ reading \in [Platform -> BOOLEAN]
  /\ state \in [Platform -> {"DOWN", "UP"}] /\ mng \in [Platform -> Seq(Statuses)]
  /\ pulled \in [Platform -> SUBSET Repository] /\ pushes \in [Platform -> [Repository -> Nat]]

LEMMA StatusInvGives == StatusInv => StatusTypeOK
<1> SUFFICES ASSUME StatusInv
             PROVE  StatusTypeOK
  OBVIOUS
<1>1. ASSUME NEW p \in Platform
      PROVE  ToSet(mng[p]) \subseteq Statuses
  <2>1. mng[p] \in Seq(Statuses) /\ \A k \in DOMAIN mng[p] : mng[p][k] \in Statuses
    BY DEF StatusInv
  <2>2. QED
    BY <2>1 DEF ToSet
<1>2. QED
  BY <1>1 DEF StatusInv, StatusTypeOK, Statuses

LEMMA StatusInitially == StatusInit => StatusInv
<1> SUFFICES ASSUME StatusInit
             PROVE  StatusInv
  OBVIOUS
<1>1. /\ starts = 0 /\ missed = FALSE /\ running = [p \in Platform |-> FALSE]
      /\ reading = [p \in Platform |-> FALSE] /\ state = [p \in Platform |-> "DOWN"]
      /\ mng = [p \in Platform |-> <<>>] /\ pulled = [p \in Platform |-> {}]
      /\ pushes = [p \in Platform |-> [r \in Repository |-> 0]]
  BY DEF StatusInit
<1>2. <<>> \in Seq(Statuses) /\ MaxStarts \in Nat
  BY StatusAssumption
<1>3. mng \in [Platform -> Seq(Statuses)] /\ starts \in 0..MaxStarts
  BY <1>1, <1>2
<1>4. pushes \in [Platform -> [Repository -> Nat]]
  BY <1>1
<1>5. /\ running \in [Platform -> BOOLEAN] /\ reading \in [Platform -> BOOLEAN]
      /\ state \in [Platform -> {"DOWN", "UP"}] /\ pulled \in [Platform -> SUBSET Repository]
  BY <1>1
<1>6. QED
  BY <1>1, <1>3, <1>4, <1>5 DEF StatusInv

LEMMA WorksKeeps ==
  ASSUME StatusInv, NEW p \in Platform, Works(p)
  PROVE  StatusInv'
<1> DEFINE o == Other(p)
<1>1. \A msgs \in Seq(Statuses), q \in Platform : SentTo(q, msgs) \in Seq(Statuses)
  BY DEF StatusInv, SentTo
<1>2. <<"UP">> \in Seq(Statuses) /\ Answer \in Seq(Statuses)
  BY DEF Statuses, Answer
<1>3. ASSUME NEW m, Heard(p, m)
      PROVE  Tail(mng[p]) \in Seq(Statuses)
  BY <1>3 DEF Heard, StatusInv
<1> HIDE DEF o
<1>4. CASE BindSockets(p)
  <2>1. /\ starts < MaxStarts /\ starts' = starts + 1 /\ reading' = [reading EXCEPT ![p] = TRUE]
        /\ UNCHANGED <<missed, running, state, mng, pulled, pushes>>
    BY <1>4 DEF BindSockets
  <2>2. starts' \in 0..MaxStarts
    BY <2>1, StatusAssumption DEF StatusInv
  <2>3. QED
    BY <2>1, <2>2 DEF StatusInv
<1>5. CASE StartupSequence(p)
  <2>1. /\ running' = [running EXCEPT ![p] = TRUE]
        /\ mng' = mng \/ mng' = [mng EXCEPT ![o] = SentTo(o, <<"UP">>)]
        /\ UNCHANGED <<starts, missed, reading, state, pulled, pushes>>
    BY <1>5 DEF StartupSequence, o
  <2>2. PICK x : x = SentTo(o, <<"UP">>)
    OBVIOUS
  <2>3. mng' \in [Platform -> Seq(Statuses)]
    <3>1. /\ mng \in [Platform -> Seq(Statuses)]
          /\ o \in Platform => x \in Seq(Statuses)
      BY <1>1, <1>2, <2>2 DEF StatusInv
    <3>2. mng' = mng \/ mng' = [mng EXCEPT ![o] = x]
      BY <2>1, <2>2
    <3>3. QED
      BY <3>1, <3>2
  <2>4. QED
    BY <2>1, <2>3 DEF StatusInv
<1>6. CASE ReceiveStatus(p)
  <2>1. /\ Heard(p, "UP") /\ UNCHANGED <<starts, missed, running, reading, pulled, pushes>>
        /\ \/ /\ state' = [state EXCEPT ![p] = "UP"]
              /\ mng' = [mng EXCEPT ![p] = Tail(@), ![o] = SentTo(o, Answer)]
           \/ mng' = [mng EXCEPT ![p] = Tail(@)] /\ UNCHANGED state
    BY <1>6 DEF ReceiveStatus, o
  <2>2. Tail(mng[p]) \in Seq(Statuses)
    BY <1>3, <2>1
  <2>3. /\ mng \in [Platform -> Seq(Statuses)] /\ state \in [Platform -> {"DOWN", "UP"}]
        /\ o \in Platform => SentTo(o, Answer) \in Seq(Statuses)
    BY <1>1, <1>2 DEF StatusInv
  <2>4. [mng EXCEPT ![p] = Tail(@)] \in [Platform -> Seq(Statuses)]
    BY <2>2, <2>3
  <2>5. [mng EXCEPT ![p] = Tail(@), ![o] = SentTo(o, Answer)] \in [Platform -> Seq(Statuses)]
    <3>1. PICK x : x = SentTo(o, Answer)
      OBVIOUS
    <3>2. o \in Platform => x \in Seq(Statuses)
      BY <2>3, <3>1
    <3>3. [mng EXCEPT ![p] = Tail(@), ![o] = x] = [[mng EXCEPT ![p] = Tail(@)] EXCEPT ![o] = x]
      OBVIOUS
    <3>4. [[mng EXCEPT ![p] = Tail(@)] EXCEPT ![o] = x] \in [Platform -> Seq(Statuses)]
      BY <2>4, <3>2
    <3>5. QED
      BY <3>1, <3>3, <3>4
  <2>6. mng' \in [Platform -> Seq(Statuses)]
    BY <2>1, <2>4, <2>5
  <2>7. state' \in [Platform -> {"DOWN", "UP"}]
    BY <2>1, <2>3
  <2>8. QED
    BY <2>1, <2>6, <2>7 DEF StatusInv
<1>7. CASE ReceivePull(p)
  <2>1. /\ Heard(p, "PULL") /\ mng' = [mng EXCEPT ![p] = Tail(@)]
        /\ pulled' = [pulled EXCEPT ![p] = Repository]
        /\ UNCHANGED <<starts, missed, running, reading, state, pushes>>
    BY <1>7 DEF ReceivePull
  <2>2. Tail(mng[p]) \in Seq(Statuses)
    BY <1>3, <2>1
  <2>3. QED
    BY <2>1, <2>2 DEF StatusInv
<1>8. CASE PushVD(p)
  <2>1. PICK r \in pulled[p] : /\ pulled' = [pulled EXCEPT ![p] = RemainingPulls(p, r)]
                               /\ pushes' = Pushed(p, r)
    BY <1>8 DEF PushVD
  <2>2. UNCHANGED <<starts, missed, running, reading, state, mng>> /\ r \in Repository
    BY <1>8, <2>1 DEF PushVD, StatusInv
  <2>3. pulled' \in [Platform -> SUBSET Repository]
    BY <2>1 DEF StatusInv, RemainingPulls
  <2>4. [pushes EXCEPT ![o][r] = @ + 1] \in [Platform -> [Repository -> Nat]]
    <3>1. pushes \in [Platform -> [Repository -> Nat]]
      BY DEF StatusInv
    <3>2. o \in Platform => [pushes[o] EXCEPT ![r] = @ + 1] \in [Repository -> Nat]
      BY <2>2, <3>1
    <3>3. PICK x : x = [pushes[o] EXCEPT ![r] = @ + 1]
      OBVIOUS
    <3>4. [pushes EXCEPT ![o] = x] \in [Platform -> [Repository -> Nat]]
      BY <3>1, <3>2, <3>3
    <3>5. QED
      BY <3>3, <3>4
  <2>5. pushes' \in [Platform -> [Repository -> Nat]]
    BY <2>1, <2>4 DEF StatusInv, Pushed, o
  <2>6. QED
    BY <2>2, <2>3, <2>5 DEF StatusInv
<1>9. QED
  BY <1>4, <1>5, <1>6, <1>7, <1>8 DEF Works

LEMMA StatusKept == StatusInv /\ [StatusNext]_statusVars => StatusInv'
<1>1. ASSUME StatusInv, UNCHANGED statusVars
      PROVE  StatusInv'
  BY <1>1 DEF statusVars, StatusInv
<1>2. ASSUME StatusInv, NEW p \in Platform, PlatformStops(p)
      PROVE  StatusInv'
  <2>1. /\ missed' \in BOOLEAN /\ UNCHANGED starts
        /\ running' = [running EXCEPT ![p] = FALSE] /\ reading' = [reading EXCEPT ![p] = FALSE]
        /\ state' = [state EXCEPT ![p] = "DOWN"] /\ mng' = [mng EXCEPT ![p] = <<>>]
        /\ pulled' = [pulled EXCEPT ![p] = {}]
        /\ pushes' = [pushes EXCEPT ![p] = [r \in Repository |-> 0]]
    BY <1>2 DEF PlatformStops, StatusInv
  <2>2. <<>> \in Seq(Statuses) /\ [r \in Repository |-> 0] \in [Repository -> Nat]
    OBVIOUS
  <2>3. /\ running' \in [Platform -> BOOLEAN] /\ reading' \in [Platform -> BOOLEAN]
        /\ state' \in [Platform -> {"DOWN", "UP"}] /\ mng' \in [Platform -> Seq(Statuses)]
    BY <1>2, <2>1, <2>2 DEF StatusInv
  <2>4. pulled' \in [Platform -> SUBSET Repository] /\ pushes' \in [Platform -> [Repository -> Nat]]
    BY <1>2, <2>1, <2>2 DEF StatusInv
  <2>5. QED
    BY <1>2, <2>1, <2>3, <2>4 DEF StatusInv
<1>3. ASSUME StatusInv, NEW p \in Platform, LoseStatus(p)
      PROVE  StatusInv'
  <2>1. /\ mng[p] # <<>> /\ mng' = [mng EXCEPT ![p] = Tail(@)] /\ missed' = TRUE
        /\ UNCHANGED <<starts, running, reading, state, pulled, pushes>>
    BY <1>3 DEF LoseStatus
  <2>2. Tail(mng[p]) \in Seq(Statuses)
    BY <1>3, <2>1, Shrunk DEF StatusInv
  <2>3. QED
    BY <1>3, <2>1, <2>2 DEF StatusInv
<1>4. QED
  BY <1>1, <1>2, <1>3, WorksKeeps DEF StatusNext
-----------------------------------------------------------------------------
(* Datagrams between domains.                                              *)

(* Where the k-th member was before the i-th was removed. *)
Before(k, i) == IF k < i THEN k ELSE k + 1

(* A sequence without its i-th member. *)
LEMMA Removed ==
  ASSUME NEW T, NEW s \in Seq(T), NEW i \in DOMAIN s
  PROVE  /\ RemoveAt(s, i) \in Seq(T) /\ DOMAIN RemoveAt(s, i) = 1..(Len(s) - 1)
         /\ DOMAIN s = 1..Len(s) /\ Len(s) \in Nat \ {0} /\ i \in 1..Len(s)
         /\ \A k \in 1..(Len(s) - 1) :
              Before(k, i) \in 1..Len(s) /\ Before(k, i) # i /\ RemoveAt(s, i)[k] = s[Before(k, i)]
         /\ \A j, k \in 1..(Len(s) - 1) : Before(j, i) = Before(k, i) => j = k
         /\ \A j \in 1..Len(s) : j # i => \E k \in 1..(Len(s) - 1) : Before(k, i) = j
<1> DEFINE l == Len(s)
           before == SubSeq(s, 1, i - 1)
           after == SubSeq(s, i + 1, l)
<1>1. l \in Nat \ {0} /\ DOMAIN s = 1..l /\ i \in 1..l /\ \A j \in 1..l : s[j] \in T
  OBVIOUS
<1>2. RemoveAt(s, i) = before \o after  BY DEF RemoveAt
<1>3. /\ before \in Seq(T) /\ Len(before) = i - 1
      /\ \A j \in 1..(i - 1) : before[j] = s[j]
  <2> HIDE DEF l
  <2>1. i - 1 \in Int /\ \A j \in 1..(i - 1) : s[j] \in T  BY <1>1
  <2>2. /\ before \in Seq(T) /\ Len(before) = IF 1 <= i - 1 THEN i - 1 - 1 + 1 ELSE 0
        /\ \A j \in 1 .. i - 1 - 1 + 1 : before[j] = s[1 + j - 1]
    BY <2>1, SubSeqProperties
  <2>3. i - 1 - 1 + 1 = i - 1 /\ (1 <= i - 1 \/ i - 1 = 0)  BY <1>1
  <2>4. \A j \in 1..(i - 1) : 1 + j - 1 = j  OBVIOUS
  <2> HIDE DEF before
  <2>5. \A j \in 1..(i - 1) : before[j] = s[j]  BY <2>2, <2>3, <2>4
  <2> QED  BY <2>2, <2>3, <2>5
<1>4. /\ after \in Seq(T) /\ Len(after) = l - i
      /\ \A j \in 1..(l - i) : after[j] = s[i + j]
  <2> HIDE DEF l
  <2>1. i + 1 \in Int /\ \A j \in (i + 1)..l : s[j] \in T  BY <1>1
  <2>2. /\ after \in Seq(T) /\ Len(after) = IF i + 1 <= l THEN l - (i + 1) + 1 ELSE 0
        /\ \A j \in 1 .. l - (i + 1) + 1 : after[j] = s[i + 1 + j - 1]
    BY <2>1, <1>1, SubSeqProperties
  <2>3. l - (i + 1) + 1 = l - i /\ (i + 1 <= l \/ l - i = 0)  BY <1>1
  <2>4. \A j \in 1..(l - i) : i + 1 + j - 1 = i + j  BY <1>1
  <2> HIDE DEF after
  <2>5. \A j \in 1..(l - i) : after[j] = s[i + j]  BY <2>2, <2>3, <2>4
  <2> QED  BY <2>2, <2>3, <2>5
<1> HIDE DEF l, before, after
<1>5. RemoveAt(s, i) \in Seq(T) /\ DOMAIN RemoveAt(s, i) = 1..(l - 1)
  BY <1>1, <1>2, <1>3, <1>4
<1>6. ASSUME NEW k \in 1..(l - 1)
      PROVE  Before(k, i) \in 1..l /\ Before(k, i) # i /\ RemoveAt(s, i)[k] = s[Before(k, i)]
  <2>1. CASE k < i
    BY <1>1, <1>2, <1>3, <1>4, <2>1 DEF Before
  <2>2. CASE ~(k < i)
    <3>1. k - (i - 1) \in 1..(l - i) /\ i + (k - (i - 1)) = k + 1
      BY <1>1, <2>2
    <3>2. RemoveAt(s, i)[k] = after[k - (i - 1)]
      BY <1>1, <1>2, <1>3, <1>4, <2>2
    <3>3. after[k - (i - 1)] = s[i + (k - (i - 1))]  BY <1>4, <3>1
    <3> QED  BY <1>1, <2>2, <3>1, <3>2, <3>3 DEF Before
  <2> QED  BY <2>1, <2>2
<1>7. \A j, k \in 1..(l - 1) : Before(j, i) = Before(k, i) => j = k  BY <1>1 DEF Before
<1>8. ASSUME NEW j \in 1..l, j # i  PROVE \E k \in 1..(l - 1) : Before(k, i) = j
  <2>1. CASE j < i
    <3>1. j \in 1..(l - 1) /\ Before(j, i) = j  BY <1>1, <2>1 DEF Before
    <3> QED  BY <3>1
  <2>2. CASE j > i
    <3>1. j - 1 \in 1..(l - 1) /\ Before(j - 1, i) = j  BY <1>1, <2>2 DEF Before
    <3> QED  BY <3>1
  <2> QED  BY <1>1, <1>8, <2>1, <2>2
<1> QED  BY <1>1, <1>5, <1>6, <1>7, <1>8 DEF l

PacketSet == [module : Module, id : Id, seq : Nat \ {0}, total : Nat]
ReadBuffer ==
  [module_id : Module \cup {0}, read_msg_ID : Id \cup {0}, recieved_packets : Nat,
   msg_packet_number : Nat, is_free : BOOLEAN, read_msg : [Chunk -> Id \cup {Stale}]]
Wholes == {WholeMessage(m, i) : m \in Module, i \in Id}

UdpTypes ==
  /\ ordered \in BOOLEAN /\ msg_id \in [Module -> 1..(Len(Packets) + 1)]
  /\ sent_count \in [Module -> Nat] /\ network \in Seq(PacketSet)
  /\ IsFiniteSet(lost) /\ Cardinality(lost) <= MaxLost
  /\ read_msgs \in Seq(ReadBuffer) /\ udpConsumed \in Seq(Wholes)

(* The packets in the network were sent, in the order in which they are.   *)
WasSent(m, i, c) == i < msg_id[m] \/ (i = msg_id[m] /\ c <= sent_count[m])
Earlier(p, q) == p.id < q.id \/ (p.id = q.id /\ p.seq < q.seq)
NetworkOK ==
  /\ \A m \in Module : msg_id[m] \in Id => sent_count[m] < Packets[msg_id[m]]
  /\ \A k \in DOMAIN network :
       /\ network[k].seq <= Packets[network[k].id] /\ network[k].total = Packets[network[k].id]
       /\ WasSent(network[k].module, network[k].id, network[k].seq)
  /\ \A j, k \in DOMAIN network :
       j < k /\ network[j].module = network[k].module => Earlier(network[j], network[k])

(* A packet that was sent and is no longer on its way.                     *)
Travels(m, i, c) ==
  \E k \in DOMAIN network : network[k].module = m /\ network[k].id = i /\ network[k].seq = c
Gone(m, i, c) == WasSent(m, i, c) /\ ~Travels(m, i, c)

(* A buffer in use counts packets of its message that are in it.           *)
Reading(buf) ==
  /\ buf.module_id \in Module /\ buf.read_msg_ID \in Id
  /\ buf.msg_packet_number = Packets[buf.read_msg_ID]
  /\ buf.recieved_packets \in 1..(buf.msg_packet_number - 1)
  /\ \E R \in SUBSET (1..buf.msg_packet_number) :
       /\ Cardinality(R) = buf.recieved_packets
       /\ \A c \in R : /\ buf.read_msg[c] = buf.read_msg_ID
                       /\ Gone(buf.module_id, buf.read_msg_ID, c)
BuffersOK ==
  /\ \A b \in DOMAIN read_msgs :
       /\ read_msgs[b].recieved_packets <= read_msgs[b].msg_packet_number
       /\ read_msgs[b].is_free \/ Reading(read_msgs[b])
  /\ \A b, c \in DOMAIN read_msgs :
       read_msgs[b].module_id = read_msgs[c].module_id /\ read_msgs[b].module_id # 0 => b = c

(* Of a message consumed, no packet is to come; if the network keeps the   *)
(* order, of those before it neither.                                      *)
AllGone(m, i) == \A c \in 1..Packets[i] : Gone(m, i, c)
ConsumedOK ==
  \A k \in DOMAIN udpConsumed : \A m \in Module, i, l \in Id :
    IsMessage(k, m, i) /\ (l = i \/ (ordered /\ l <= i)) => AllGone(m, l)

UdpInv == UdpTypes /\ NetworkOK /\ BuffersOK /\ ConsumedOK /\ UdpWhole

(* Where a message is, in a network that keeps the order: its first k - 1  *)
(* packets were read, and are in a buffer.                                 *)
LostOf(m, i) == \E p \in lost : p.module = m /\ p.id = i
IsConsumed(m, i) == \E k \in DOMAIN udpConsumed : IsMessage(k, m, i)
HasRead(m, i, r) ==
  \E b \in DOMAIN read_msgs : /\ read_msgs[b].module_id = m /\ ~read_msgs[b].is_free
                              /\ read_msgs[b].read_msg_ID = i /\ read_msgs[b].recieved_packets = r
ReadUpTo(m, i, k) ==
  /\ \A c \in 1..Packets[i] : Gone(m, i, c) <=> c < k
  /\ k = 1 \/ HasRead(m, i, k - 1)
Stage(m, i) == LostOf(m, i) \/ IsConsumed(m, i) \/ \E k \in 1..Packets[i] : ReadUpTo(m, i, k)

(* No packet to come is of an older message than the one in the buffer.    *)
Newest ==
  \A b \in DOMAIN read_msgs, k \in DOMAIN network :
    ~read_msgs[b].is_free /\ network[k].module = read_msgs[b].module_id =>
      read_msgs[b].read_msg_ID <= network[k].id

InOrder == ordered /\ Cardinality(Module) <= Len(read_msgs)
ArriveInv == InOrder => Newest /\ \A m \in Module, i \in Id : Stage(m, i)

LEMMA UdpConstants ==
  /\ Len(Packets) \in Nat /\ Id = 1..Len(Packets) /\ Id \subseteq Nat /\ 0 \notin Id
  /\ \A i \in Id : Packets[i] \in Nat \ {0} /\ \A c \in 1..Packets[i] : c \in Chunk
  /\ Module \subseteq Nat /\ 0 \notin Module /\ IsFiniteSet(Module)
<1>1. Packets \in Seq(Nat \ {0}) /\ Id = 1..Len(Packets) /\ Len(Packets) \in Nat
  BY UdpAssumption DEF Id
<1>2. \A i \in Id : Packets[i] \in Nat \ {0}
  BY <1>1
<1>3. QED
  BY <1>1, <1>2, UdpAssumption DEF Chunk

(* A message tells its module and its number.                              *)
LEMMA WholesDiffer ==
  ASSUME NEW m \in Module, NEW n \in Module, NEW i \in Id, NEW j \in Id,
         WholeMessage(m, i) = WholeMessage(n, j)
  PROVE  m = n /\ i = j
<1> DEFINE f == [c \in 1..Packets[i] |-> i]
           g == [c \in 1..Packets[j] |-> j]
<1>1. m = n /\ f = g
  BY DEF WholeMessage
<1>2. 1 \in 1..Packets[i] /\ 1 \in 1..Packets[j]
  BY UdpConstants
<1>3. f[1] = i /\ g[1] = j
  BY <1>2
<1> HIDE DEF f, g
<1>4. QED
  BY <1>1, <1>3

LEMMA UdpInvGives == UdpInv => UdpTypeOK /\ UdpWhole
<1> SUFFICES ASSUME UdpInv
             PROVE  UdpTypeOK
  BY DEF UdpInv
<1>1. UdpTypes /\ BuffersOK
  BY DEF UdpInv
<1>2. ASSUME NEW b \in DOMAIN read_msgs
      PROVE  read_msgs[b] \in ReadBuffer
  BY <1>1 DEF UdpTypes
<1>3. ASSUME NEW b \in DOMAIN read_msgs
      PROVE  /\ read_msgs[b].module_id \in Module \cup {0} /\ read_msgs[b].is_free \in BOOLEAN
             /\ read_msgs[b].recieved_packets \in 0..read_msgs[b].msg_packet_number
             /\ \A c \in Chunk : read_msgs[b].read_msg[c] \in Id \cup {Stale}
  BY <1>1, <1>2 DEF ReadBuffer, BuffersOK
<1>4. QED
  BY <1>1, <1>3 DEF UdpTypes, UdpTypeOK

(* When all its packets were sent, a message is lost, on its way or        *)
(* consumed.                                                               *)
LEMMA ArriveInvGives == UdpInv /\ ArriveInv => UdpArrives
<1> SUFFICES ASSUME UdpInv, ArriveInv, InOrder, NEW m \in Module, NEW i \in 1..(msg_id[m] - 1)
             PROVE  Touched(m, i) \/ IsConsumed(m, i)
  BY DEF UdpArrives, InOrder, IsConsumed
<1>1. msg_id[m] \in 1..(Len(Packets) + 1)
  BY DEF UdpInv, UdpTypes
<1>2. i \in Id /\ i < msg_id[m] /\ Packets[i] \in Nat
  BY <1>1, UdpConstants
<1>3. CASE LostOf(m, i)
  BY <1>3 DEF LostOf, Touched
<1>4. ASSUME NEW k \in 1..Packets[i], ReadUpTo(m, i, k)
      PROVE  Touched(m, i)
  <2>1. ~Gone(m, i, k) /\ WasSent(m, i, k)
    BY <1>2, <1>4 DEF ReadUpTo, WasSent
  <2>2. PICK j \in DOMAIN network : network[j].module = m /\ network[j].id = i
    BY <2>1 DEF Gone, Travels
  <2>3. QED
    BY <2>2 DEF Touched, ToSet
<1>5. Stage(m, i)
  BY <1>2 DEF ArriveInv
<1>6. QED
  BY <1>3, <1>4, <1>5 DEF Stage

LEMMA UdpInitially == UdpInit => UdpInv /\ ArriveInv
<1> SUFFICES ASSUME UdpInit
             PROVE  UdpInv /\ ArriveInv
  OBVIOUS
<1>1. PICK n \in 1..Buffers : read_msgs = [b \in 1..n |-> EmptyBuffer]
  BY DEF UdpInit
<1>2. /\ ordered \in BOOLEAN /\ network = <<>> /\ lost = {} /\ udpConsumed = <<>>
      /\ msg_id = [m \in Module |-> 1] /\ sent_count = [m \in Module |-> 0]
  BY DEF UdpInit
<1>3. EmptyBuffer \in ReadBuffer
  BY DEF EmptyBuffer, ReadBuffer, Stale
<1>4. n \in Nat /\ MaxLost \in Nat
  BY UdpAssumption
<1>5. UdpTypes
  <2>1. 1 \in 1..(Len(Packets) + 1)
    BY UdpConstants
  <2>2. read_msgs \in Seq(ReadBuffer)
    BY <1>1, <1>3, <1>4
  <2>3. IsFiniteSet(lost) /\ Cardinality(lost) <= MaxLost
    BY <1>2, <1>4, FS_EmptySet
  <2>4. QED
    BY <1>2, <2>1, <2>2, <2>3 DEF UdpTypes
<1>6. \A m \in Module, i \in Id : \A c \in 1..Packets[i] : ~Gone(m, i, c)
  BY <1>2, UdpConstants DEF Gone, WasSent
<1>7. NetworkOK
  BY <1>2, UdpConstants DEF NetworkOK
<1>8. BuffersOK
  BY <1>1 DEF BuffersOK, EmptyBuffer
<1>9. ConsumedOK /\ UdpWhole
  BY <1>2 DEF ConsumedOK, UdpWhole
<1>10. ASSUME NEW m \in Module, NEW i \in Id
       PROVE  Stage(m, i)
  <2>1. Packets[i] \in Nat \ {0}
    BY UdpConstants
  <2>2. ReadUpTo(m, i, 1)
    BY <1>6, <2>1 DEF ReadUpTo
  <2>3. QED
    BY <2>1, <2>2 DEF Stage
<1>11. Newest
  BY <1>2 DEF Newest
<1>12. QED
  BY <1>5, <1>7, <1>8, <1>9, <1>10, <1>11 DEF UdpInv, ArriveInv

(* A packet is written: nothing is gone that was not, and the packet is    *)
(* the last in the network.                                                *)
LEMMA WriteEffect ==
  ASSUME UdpInv, NEW m \in Module, UDPWrite(m)
  PROVE  /\ Packet(m) \in PacketSet /\ msg_id[m] \in Id /\ sent_count[m] \in Nat
         /\ Packet(m).module = m /\ Packet(m).id = msg_id[m] /\ Packet(m).seq = sent_count[m] + 1
         /\ Packet(m).total = Packets[msg_id[m]] /\ sent_count[m] + 1 <= Packets[msg_id[m]]
         /\ network' = Append(network, Packet(m))
         /\ UNCHANGED <<ordered, lost, read_msgs, udpConsumed>>
         /\ msg_id' \in [Module -> 1..(Len(Packets) + 1)] /\ sent_count' \in [Module -> Nat]
         /\ \A n \in Module : msg_id'[n] \in Id => sent_count'[n] < Packets[msg_id'[n]]
         /\ \A n \in Module, i \in Id : \A c \in 1..Packets[i] :
              WasSent(n, i, c)' <=> \/ WasSent(n, i, c)
                                    \/ n = m /\ i = msg_id[m] /\ c = sent_count[m] + 1
<1> DEFINE i == msg_id[m]
           s == sent_count[m]
<1>1. i \in Id /\ network' = Append(network, Packet(m)) /\ UNCHANGED <<ordered, lost, read_msgs, udpConsumed>>
  BY DEF UDPWrite
<1>2. s \in Nat /\ s + 1 <= Packets[i] /\ Packets[i] \in Nat \ {0} /\ i \in Nat /\ i \in 1..Len(Packets)
  BY <1>1, UdpConstants DEF UdpInv, UdpTypes, NetworkOK
<1>3. /\ Packet(m) \in PacketSet /\ Packet(m).module = m /\ Packet(m).id = i
      /\ Packet(m).seq = s + 1 /\ Packet(m).total = Packets[i]
  BY <1>1, <1>2 DEF Packet, PacketSet
<1>4. msg_id \in [Module -> 1..(Len(Packets) + 1)] /\ sent_count \in [Module -> Nat]
  BY DEF UdpInv, UdpTypes
<1>5. CASE s + 1 = Packets[i]
  <2>1. msg_id' = [msg_id EXCEPT ![m] = i + 1] /\ sent_count' = [sent_count EXCEPT ![m] = 0]
    BY <1>5 DEF UDPWrite
  <2>2. i + 1 \in 1..(Len(Packets) + 1)
    BY <1>2, UdpConstants
  <2>3. /\ msg_id' \in [Module -> 1..(Len(Packets) + 1)] /\ sent_count' \in [Module -> Nat]
        /\ msg_id'[m] = i + 1 /\ sent_count'[m] = 0
        /\ \A n \in Module \ {m} : msg_id'[n] = msg_id[n] /\ sent_count'[n] = sent_count[n]
    BY <1>4, <2>1, <2>2
  <2>4. \A n \in Module : msg_id'[n] \in Id => sent_count'[n] < Packets[msg_id'[n]]
    BY <2>3, UdpConstants DEF UdpInv, NetworkOK
  <2>5. ASSUME NEW l \in Id, NEW c \in 1..Packets[l]
        PROVE  WasSent(m, l, c)' <=> WasSent(m, l, c) \/ (l = i /\ c = s + 1)
    <3>1. WasSent(m, l, c)' <=> l < i + 1 \/ (l = i + 1 /\ c <= 0)
      BY <2>3 DEF WasSent
    <3>2. WasSent(m, l, c) <=> l < i \/ (l = i /\ c <= s)
      BY DEF WasSent
    <3>3. l \in Nat /\ c \in Nat /\ c >= 1 /\ c <= Packets[l]
      BY UdpConstants
    <3>4. QED
      BY <1>2, <1>5, <3>1, <3>2, <3>3
  <2>6. \A n \in Module \ {m} : \A l, c : WasSent(n, l, c)' <=> WasSent(n, l, c)
    BY <2>3 DEF WasSent
  <2>7. QED
    BY <1>1, <1>2, <1>3, <2>3, <2>4, <2>5, <2>6
<1>6. CASE s + 1 # Packets[i]
  <2>1. msg_id' = msg_id /\ sent_count' = [sent_count EXCEPT ![m] = s + 1]
    BY <1>6 DEF UDPWrite
  <2>2. /\ sent_count' \in [Module -> Nat] /\ sent_count'[m] = s + 1
        /\ \A n \in Module \ {m} : sent_count'[n] = sent_count[n]
    BY <1>2, <1>4, <2>1
  <2>3. ASSUME NEW n \in Module, msg_id'[n] \in Id
        PROVE  sent_count'[n] < Packets[msg_id'[n]]
    <3>1. CASE n = m
      BY <1>2, <1>6, <2>1, <2>2, <3>1
    <3>2. CASE n # m
      BY <2>1, <2>2, <2>3, <3>2 DEF UdpInv, NetworkOK
    <3>3. QED
      BY <3>1, <3>2
  <2>4. ASSUME NEW l \in Id, NEW c \in 1..Packets[l]
        PROVE  WasSent(m, l, c)' <=> WasSent(m, l, c) \/ (l = i /\ c = s + 1)
    <3>1. WasSent(m, l, c)' <=> l < i \/ (l = i /\ c <= s + 1)
      BY <2>1, <2>2 DEF WasSent
    <3>2. WasSent(m, l, c) <=> l < i \/ (l = i /\ c <= s)
      BY DEF WasSent
    <3>3. l \in Nat /\ c \in Nat
      BY UdpConstants
    <3>4. QED
      BY <1>2, <3>1, <3>2, <3>3
  <2>5. \A n \in Module \ {m} : \A l, c : WasSent(n, l, c)' <=> WasSent(n, l, c)
    BY <2>1, <2>2 DEF WasSent
  <2>6. QED
    BY <1>1, <1>2, <1>3, <1>4, <2>1, <2>2, <2>3, <2>4, <2>5
<1>7. QED
  BY <1>5, <1>6

(* What an unchanged Gone keeps of buffers and messages.                   *)
LEMMA ReadingStays ==
  ASSUME NEW buf \in ReadBuffer, Reading(buf),
         \A c \in 1..Packets[buf.read_msg_ID] :
           Gone(buf.module_id, buf.read_msg_ID, c) => Gone(buf.module_id, buf.read_msg_ID, c)'
  PROVE  Reading(buf)'
<1>1. PICK R \in SUBSET (1..buf.msg_packet_number) :
        /\ Cardinality(R) = buf.recieved_packets
        /\ \A c \in R : /\ buf.read_msg[c] = buf.read_msg_ID
                        /\ Gone(buf.module_id, buf.read_msg_ID, c)
  BY DEF Reading
<1>2. \A c \in R : Gone(buf.module_id, buf.read_msg_ID, c)'
  BY <1>1 DEF Reading
<1>3. QED
  BY <1>1, <1>2 DEF Reading

LEMMA WriteKeepsGone ==
  ASSUME UdpInv, NEW m \in Module, UDPWrite(m),
         NEW n \in Module, NEW i \in Id, NEW c \in 1..Packets[i]
  PROVE  Gone(n, i, c)' <=> Gone(n, i, c)
<1>1. /\ WasSent(n, i, c)' <=> \/ WasSent(n, i, c)
                               \/ n = m /\ i = msg_id[m] /\ c = sent_count[m] + 1
      /\ Packet(m) \in PacketSet /\ network' = Append(network, Packet(m))
      /\ Packet(m).module = m /\ Packet(m).id = msg_id[m] /\ Packet(m).seq = sent_count[m] + 1
      /\ msg_id[m] \in Nat /\ sent_count[m] \in Nat
  BY WriteEffect, UdpConstants
<1>2. /\ DOMAIN network' = 1..(Len(network) + 1) /\ Len(network) \in Nat
      /\ DOMAIN network = 1..Len(network)
      /\ \A k \in 1..Len(network) : network'[k] = network[k]
      /\ network'[Len(network) + 1] = Packet(m)
  BY <1>1, Grown DEF UdpInv, UdpTypes
<1>3. Travels(n, i, c)' <=> \/ Travels(n, i, c)
                            \/ n = m /\ i = msg_id[m] /\ c = sent_count[m] + 1
  <2>1. \A k \in DOMAIN network' : k \in DOMAIN network \/ k = Len(network) + 1
    BY <1>2
  <2>2. DOMAIN network \subseteq DOMAIN network' /\ Len(network) + 1 \in DOMAIN network'
    BY <1>2
  <2>3. QED
    BY <1>1, <1>2, <2>1, <2>2 DEF Travels
<1>4. ~(WasSent(m, msg_id[m], sent_count[m] + 1))
  BY <1>1 DEF WasSent
<1>5. QED
  BY <1>1, <1>3, <1>4 DEF Gone

LEMMA UdpWriteKeeps ==
  ASSUME UdpInv, ArriveInv, NEW m \in Module, UDPWrite(m)
  PROVE  UdpInv' /\ ArriveInv'
<1> DEFINE p == Packet(m)
           l == Len(network)
<1>1. /\ p \in PacketSet /\ msg_id[m] \in Id /\ sent_count[m] \in Nat
      /\ p.module = m /\ p.id = msg_id[m] /\ p.seq = sent_count[m] + 1
      /\ p.total = Packets[msg_id[m]] /\ sent_count[m] + 1 <= Packets[msg_id[m]]
      /\ network' = Append(network, p)
      /\ UNCHANGED <<ordered, lost, read_msgs, udpConsumed>>
      /\ msg_id' \in [Module -> 1..(Len(Packets) + 1)] /\ sent_count' \in [Module -> Nat]
      /\ \A n \in Module : msg_id'[n] \in Id => sent_count'[n] < Packets[msg_id'[n]]
  BY WriteEffect
<1>2. \A n \in Module, i \in Id : \A c \in 1..Packets[i] :
        /\ Gone(n, i, c)' <=> Gone(n, i, c)
        /\ WasSent(n, i, c) => WasSent(n, i, c)'
        /\ n = m /\ i = msg_id[m] /\ c = sent_count[m] + 1 => WasSent(n, i, c)'
  BY WriteKeepsGone, WriteEffect
<1>3. network \in Seq(PacketSet) /\ UdpTypes /\ NetworkOK /\ BuffersOK /\ ConsumedOK /\ UdpWhole
  BY DEF UdpInv, UdpTypes
<1> HIDE DEF p
<1>4. /\ network' \in Seq(PacketSet) /\ DOMAIN network' = 1..(l + 1) /\ l \in Nat
      /\ DOMAIN network = 1..l /\ \A k \in 1..l : network'[k] = network[k]
      /\ network'[l + 1] = p
  BY <1>1, <1>3, Grown
<1> HIDE DEF l
<1>5. \A k \in DOMAIN network : network[k] \in PacketSet
  BY <1>3
<1>6. \A k \in 1..(l + 1) : k \in 1..l \/ k = l + 1
  BY <1>4
<1>7. UdpTypes'
  BY <1>1, <1>3, <1>4 DEF UdpTypes
<1>8. ASSUME NEW k \in DOMAIN network'
      PROVE  /\ network'[k].seq <= Packets[network'[k].id]
             /\ network'[k].total = Packets[network'[k].id]
             /\ \A n, i, c : n = network'[k].module /\ i = network'[k].id /\ c = network'[k].seq =>
                  WasSent(n, i, c)'
  <2>1. CASE k \in 1..l
    <3>1. /\ network'[k] = network[k] /\ network[k] \in PacketSet /\ k \in DOMAIN network
          /\ network[k].seq <= Packets[network[k].id] /\ network[k].total = Packets[network[k].id]
          /\ WasSent(network[k].module, network[k].id, network[k].seq)
      BY <1>3, <1>4, <1>5, <2>1 DEF NetworkOK
    <3>2. /\ network[k].module \in Module /\ network[k].id \in Id
          /\ network[k].seq \in 1..Packets[network[k].id]
      BY <3>1, UdpConstants DEF PacketSet
    <3>3. QED
      BY <1>2, <3>1, <3>2
  <2>2. CASE k = l + 1
    <3>1. sent_count[m] + 1 \in 1..Packets[msg_id[m]]
      BY <1>1, UdpConstants
    <3>2. \A n, i, c : n = m /\ i = msg_id[m] /\ c = sent_count[m] + 1 => WasSent(n, i, c)'
      BY <1>1, <1>2, <3>1
    <3>3. network'[k] = p
      BY <1>4, <2>2
    <3>4. QED
      BY <1>1, <3>2, <3>3
  <2>3. QED
    BY <1>4, <1>6, <2>1, <2>2
<1>9. ASSUME NEW j \in DOMAIN network', NEW k \in DOMAIN network',
             j < k, network'[j].module = network'[k].module
      PROVE  Earlier(network'[j], network'[k])
  <2>1. j \in 1..l
    BY <1>4, <1>9
  <2>2. CASE k \in 1..l
    BY <1>3, <1>4, <1>9, <2>1, <2>2 DEF NetworkOK
  <2>3. CASE k = l + 1
    <3>1. /\ network'[j] = network[j] /\ network[j] \in PacketSet /\ network[j].module = m
          /\ WasSent(network[j].module, network[j].id, network[j].seq)
      BY <1>1, <1>3, <1>4, <1>5, <1>9, <2>1, <2>3 DEF NetworkOK
    <3>2. network[j].id < msg_id[m] \/ (network[j].id = msg_id[m] /\ network[j].seq <= sent_count[m])
      BY <3>1 DEF WasSent
    <3>3. network[j].seq \in Nat
      BY <3>1 DEF PacketSet
    <3>4. Earlier(network[j], p)
      BY <1>1, <3>2, <3>3 DEF Earlier
    <3>5. QED
      BY <1>4, <2>3, <3>1, <3>4
  <2>4. QED
    BY <1>4, <1>6, <2>2, <2>3
<1>10. NetworkOK'
  <2>1. ASSUME NEW k \in DOMAIN network'
        PROVE  WasSent(network[k].module, network[k].id, network[k].seq)'
    BY <1>8, <2>1 DEF WasSent
  <2>2. QED
    BY <1>1, <1>8, <1>9, <2>1 DEF NetworkOK
<1>11. ASSUME NEW b \in DOMAIN read_msgs, Reading(read_msgs[b])
       PROVE  Reading(read_msgs[b])'
  <2>1. read_msgs[b] \in ReadBuffer
    BY <1>3 DEF UdpTypes
  <2>2. Reading(read_msgs[b])
    BY <1>11
  <2>3. PICK buf : buf = read_msgs[b]
    OBVIOUS
  <2>4. read_msgs'[b] = buf
    BY <1>1, <2>3
  <2>5. Reading(buf)'
    BY <1>2, <2>1, <2>2, <2>3, ReadingStays DEF Reading
  <2>6. QED
    BY <2>4, <2>5
<1>12. BuffersOK'
  BY <1>1, <1>3, <1>11 DEF BuffersOK
<1>13. \A n \in Module, i \in Id : AllGone(n, i)' <=> AllGone(n, i)
  BY <1>2 DEF AllGone
<1>14. ConsumedOK'
  BY <1>1, <1>3, <1>13 DEF ConsumedOK, IsMessage
<1>15. UdpWhole'
  BY <1>1, <1>3 DEF UdpWhole, IsMessage
<1>16. ASSUME InOrder
       PROVE  Newest' /\ \A n \in Module, i \in Id : Stage(n, i)'
  <2>1. Newest /\ \A n \in Module, i \in Id : Stage(n, i)
    BY <1>16 DEF ArriveInv
  <2>2. \A n \in Module, i \in Id : Stage(n, i)'
    <3>1. \A n, i, r : HasRead(n, i, r)' <=> HasRead(n, i, r)
      BY <1>1 DEF HasRead
    <3>2. \A n \in Module, i \in Id : \A k \in 1..Packets[i] : ReadUpTo(n, i, k) => ReadUpTo(n, i, k)'
      BY <1>2, <3>1 DEF ReadUpTo
    <3>3. \A n, i : (LostOf(n, i) => LostOf(n, i)') /\ (IsConsumed(n, i) => IsConsumed(n, i)')
      BY <1>1 DEF LostOf, IsConsumed, IsMessage
    <3>4. QED
      BY <2>1, <3>2, <3>3 DEF Stage
  <2>3. ASSUME NEW b \in DOMAIN read_msgs, NEW k \in DOMAIN network',
               ~read_msgs[b].is_free, network'[k].module = read_msgs[b].module_id
        PROVE  read_msgs[b].read_msg_ID <= network'[k].id
    <3>1. CASE k \in 1..l
      BY <1>4, <2>1, <2>3, <3>1 DEF Newest
    <3>2. CASE k = l + 1
      <4>1. Reading(read_msgs[b]) /\ read_msgs[b].module_id = m
        BY <1>1, <1>3, <1>4, <2>3, <3>2 DEF BuffersOK
      <4>2. PICK R \in SUBSET (1..read_msgs[b].msg_packet_number) :
              /\ Cardinality(R) = read_msgs[b].recieved_packets
              /\ \A c \in R : Gone(m, read_msgs[b].read_msg_ID, c)
        BY <4>1 DEF Reading
      <4>3. R # {}
        BY <4>1, <4>2, FS_EmptySet DEF Reading
      <4>4. PICK c \in R : Gone(m, read_msgs[b].read_msg_ID, c)
        BY <4>2, <4>3
      <4>5. read_msgs[b].read_msg_ID < msg_id[m] \/ read_msgs[b].read_msg_ID = msg_id[m]
        BY <4>4 DEF Gone, WasSent
      <4>6. read_msgs[b].read_msg_ID \in Nat /\ msg_id[m] \in Nat
        BY <1>1, <4>1, UdpConstants DEF Reading
      <4>7. QED
        BY <1>1, <1>4, <3>2, <4>5, <4>6
    <3>3. QED
      BY <1>4, <1>6, <3>1, <3>2
  <2>4. Newest'
    BY <1>1, <2>3 DEF Newest
  <2>5. QED
    BY <2>2, <2>4
<1>17. ArriveInv'
  BY <1>1, <1>16 DEF ArriveInv, InOrder
<1>18. QED
  BY <1>7, <1>10, <1>12, <1>14, <1>15, <1>17 DEF UdpInv

(* A packet leaves the network, lost or read: it is gone, and no other.    *)
LEMMA RemovalEffect ==
  ASSUME UdpInv, NEW k \in DOMAIN network, network' = RemoveAt(network, k),
         UNCHANGED <<ordered, msg_id, sent_count>>, NEW p, p = network[k]
  PROVE  /\ p \in PacketSet /\ p.module \in Module /\ p.id \in Id /\ p.total = Packets[p.id]
         /\ p.seq \in 1..Packets[p.id]
         /\ ~Gone(p.module, p.id, p.seq) /\ WasSent(p.module, p.id, p.seq)
         /\ network' \in Seq(PacketSet) /\ NetworkOK'
         /\ \A j \in DOMAIN network' : \E q \in DOMAIN network : q # k /\ network'[j] = network[q]
         /\ \A n \in Module, i \in Id : \A c \in 1..Packets[i] :
              Gone(n, i, c)' <=> Gone(n, i, c) \/ (n = p.module /\ i = p.id /\ c = p.seq)
<1>1. network \in Seq(PacketSet) /\ UdpTypes /\ NetworkOK
  BY DEF UdpInv, UdpTypes
<1> PICK l, less : l = Len(network) /\ less = RemoveAt(network, k)
  OBVIOUS
<1>2. /\ network' \in Seq(PacketSet) /\ DOMAIN network' = 1..(l - 1)
      /\ DOMAIN network = 1..l /\ l \in Nat \ {0} /\ k \in 1..l
      /\ \A j \in 1..(l - 1) :
           Before(j, k) \in 1..l /\ Before(j, k) # k /\ network'[j] = network[Before(j, k)]
      /\ \A j \in 1..l : j # k => \E q \in 1..(l - 1) : Before(q, k) = j
  <2>1. PICK s, T : s \in Seq(T) /\ s = network /\ T = PacketSet /\ k \in DOMAIN s
    BY <1>1
  <2>2. s \in Seq(T)
    BY <2>1
  <2>3. /\ RemoveAt(s, k) \in Seq(T) /\ DOMAIN RemoveAt(s, k) = 1..(Len(s) - 1)
        /\ DOMAIN s = 1..Len(s) /\ Len(s) \in Nat \ {0} /\ k \in 1..Len(s)
        /\ \A j \in 1..(Len(s) - 1) :
             Before(j, k) \in 1..Len(s) /\ Before(j, k) # k /\ RemoveAt(s, k)[j] = s[Before(j, k)]
        /\ \A j \in 1..Len(s) : j # k => \E q \in 1..(Len(s) - 1) : Before(q, k) = j
    <3>1. k \in DOMAIN s
      BY <2>1
    <3> HIDE <2>1
    <3>2. QED
      BY <2>2, <3>1, Removed
  <2>4. QED
    BY <2>1, <2>3
<1>3. /\ p \in PacketSet /\ p.seq <= Packets[p.id] /\ p.total = Packets[p.id]
      /\ WasSent(p.module, p.id, p.seq)
  BY <1>1 DEF NetworkOK
<1>4. p.module \in Module /\ p.id \in Id /\ p.seq \in 1..Packets[p.id]
  BY <1>3, UdpConstants DEF PacketSet
<1>5. \A j, q \in 1..(l - 1) : j < q => Before(j, k) < Before(q, k)
  BY <1>2 DEF Before
<1>6. \A n, i, c : WasSent(n, i, c)' <=> WasSent(n, i, c)
  BY DEF WasSent
<1>7. NetworkOK'
  <2>1. ASSUME NEW j \in DOMAIN network'
        PROVE  /\ network'[j].seq <= Packets[network'[j].id]
               /\ network'[j].total = Packets[network'[j].id]
               /\ WasSent(network[j].module, network[j].id, network[j].seq)'
    <3>1. PICK q \in DOMAIN network : network'[j] = network[q]
      BY <1>2, <2>1
    <3>2. /\ network[q].seq <= Packets[network[q].id] /\ network[q].total = Packets[network[q].id]
          /\ WasSent(network[q].module, network[q].id, network[q].seq)
      BY <1>1 DEF NetworkOK
    <3>3. QED
      BY <3>1, <3>2 DEF WasSent
  <2>2. ASSUME NEW i \in DOMAIN network', NEW j \in DOMAIN network',
               i < j, network'[i].module = network'[j].module
        PROVE  Earlier(network'[i], network'[j])
    <3>1. /\ Before(i, k) < Before(j, k) /\ Before(i, k) \in DOMAIN network
          /\ Before(j, k) \in DOMAIN network
          /\ network'[i] = network[Before(i, k)] /\ network'[j] = network[Before(j, k)]
      BY <1>2, <1>5, <2>2
    <3>2. QED
      BY <1>1, <2>2, <3>1 DEF NetworkOK
  <2>3. \A m \in Module : msg_id'[m] \in Id => sent_count'[m] < Packets[msg_id'[m]]
    BY <1>1 DEF NetworkOK
  <2>4. QED
    BY <2>1, <2>2, <2>3 DEF NetworkOK
<1>8. \A j \in DOMAIN network' : \E q \in DOMAIN network : q # k /\ network'[j] = network[q]
  BY <1>2
<1>9. ASSUME NEW q \in DOMAIN network, network[q].module = p.module,
             network[q].id = p.id, network[q].seq = p.seq
      PROVE  q = k
  <2>1. /\ q < k => Earlier(network[q], network[k])
        /\ k < q => Earlier(network[k], network[q])
    BY <1>1, <1>9 DEF NetworkOK
  <2>2. p.id \in Nat /\ p.seq \in Nat
    BY <1>4, UdpConstants
  <2>3. ~(q < k) /\ ~(k < q)
    BY <1>9, <2>1, <2>2 DEF Earlier
  <2>4. QED
    BY <1>2, <2>3
<1>10. ASSUME NEW n \in Module, NEW i \in Id, NEW c \in 1..Packets[i]
       PROVE  Travels(n, i, c)' <=> Travels(n, i, c) /\ ~(n = p.module /\ i = p.id /\ c = p.seq)
  <2>1. ASSUME Travels(n, i, c)'
        PROVE  Travels(n, i, c) /\ ~(n = p.module /\ i = p.id /\ c = p.seq)
    <3>1. PICK j \in DOMAIN network' :
            network'[j].module = n /\ network'[j].id = i /\ network'[j].seq = c
      BY <2>1 DEF Travels
    <3>2. PICK q \in DOMAIN network : q # k /\ network'[j] = network[q]
      BY <1>8
    <3>3. QED
      BY <1>9, <3>1, <3>2 DEF Travels
  <2>2. ASSUME Travels(n, i, c), ~(n = p.module /\ i = p.id /\ c = p.seq)
        PROVE  Travels(n, i, c)'
    <3>1. PICK q \in DOMAIN network :
            network[q].module = n /\ network[q].id = i /\ network[q].seq = c
      BY <2>2 DEF Travels
    <3>2. q # k
      BY <2>2, <3>1
    <3>3. PICK j \in 1..(l - 1) : Before(j, k) = q
      BY <1>2, <3>2
    <3>4. j \in DOMAIN network' /\ network'[j] = network[q]
      BY <1>2, <3>3
    <3>5. QED
      BY <3>1, <3>4 DEF Travels
  <2>3. QED
    BY <2>1, <2>2
<1>11. Travels(p.module, p.id, p.seq)
  BY DEF Travels
<1>12. ASSUME NEW n \in Module, NEW i \in Id, NEW c \in 1..Packets[i]
       PROVE  Gone(n, i, c)' <=> Gone(n, i, c) \/ (n = p.module /\ i = p.id /\ c = p.seq)
  BY <1>3, <1>6, <1>10, <1>11 DEF Gone
<1>13. QED
  BY <1>2, <1>3, <1>4, <1>7, <1>8, <1>11, <1>12 DEF Gone

(* What more packets gone keep of the buffers and messages that a step     *)
(* leaves alone.                                                           *)
LEMMA GoneKeeps ==
  ASSUME UdpInv,
         \A n \in Module, i \in Id : \A c \in 1..Packets[i] : Gone(n, i, c) => Gone(n, i, c)'
  PROVE  /\ \A buf \in ReadBuffer : Reading(buf) => Reading(buf)'
         /\ \A n \in Module, i \in Id : AllGone(n, i) => AllGone(n, i)'
<1>1. ASSUME NEW buf \in ReadBuffer, Reading(buf)
      PROVE  Reading(buf)'
  <2>1. buf.module_id \in Module /\ buf.read_msg_ID \in Id
    BY <1>1 DEF Reading
  <2>2. QED
    BY <1>1, <2>1, ReadingStays
<1>2. QED
  BY <1>1 DEF AllGone

LEMMA NoBufferKeeps ==
  ASSUME UdpInv, UNCHANGED <<ordered, read_msgs, udpConsumed>>, UdpTypes', NetworkOK',
         \A n \in Module, i \in Id : \A c \in 1..Packets[i] : Gone(n, i, c) => Gone(n, i, c)'
  PROVE  UdpInv'
<1>1. BuffersOK /\ ConsumedOK /\ UdpWhole /\ UdpTypes
  BY DEF UdpInv
<1>2. ASSUME NEW b \in DOMAIN read_msgs, Reading(read_msgs[b])
      PROVE  Reading(read_msgs[b])'
  <2>1. PICK buf \in ReadBuffer : buf = read_msgs[b]
    BY <1>1 DEF UdpTypes
  <2>2. Reading(buf)'
    BY <1>2, <2>1, GoneKeeps
  <2>3. read_msgs'[b] = buf
    BY <2>1
  <2>4. QED
    BY <2>2, <2>3
<1>3. BuffersOK'
  BY <1>1, <1>2 DEF BuffersOK
<1>4. \A n \in Module, i \in Id : AllGone(n, i) => AllGone(n, i)'
  BY GoneKeeps
<1>5. ConsumedOK'
  BY <1>1, <1>4 DEF ConsumedOK, IsMessage
<1>6. UdpWhole'
  BY <1>1 DEF UdpWhole, IsMessage
<1>7. QED
  BY <1>3, <1>5, <1>6 DEF UdpInv

LEMMA LoseKeeps ==
  ASSUME UdpInv, ArriveInv, Lose
  PROVE  UdpInv' /\ ArriveInv'
<1>1. PICK k \in DOMAIN network : lost' = lost \cup {network[k]} /\ network' = RemoveAt(network, k)
  BY DEF Lose
<1>2. /\ Cardinality(lost) < MaxLost
      /\ UNCHANGED <<ordered, msg_id, sent_count, read_msgs, udpConsumed>>
  BY DEF Lose
<1>3. PICK p : p = network[k]
  OBVIOUS
<1>4. /\ p.module \in Module /\ p.id \in Id
      /\ network' \in Seq(PacketSet) /\ NetworkOK'
      /\ \A j \in DOMAIN network' : \E q \in DOMAIN network : q # k /\ network'[j] = network[q]
      /\ \A n \in Module, i \in Id : \A c \in 1..Packets[i] :
           Gone(n, i, c)' <=> Gone(n, i, c) \/ (n = p.module /\ i = p.id /\ c = p.seq)
  BY <1>1, <1>2, <1>3, RemovalEffect
<1>5. UdpTypes
  BY DEF UdpInv
<1>6. IsFiniteSet(lost') /\ Cardinality(lost') <= MaxLost
  <2>1. IsFiniteSet(lost) /\ Cardinality(lost) \in Nat /\ MaxLost \in Nat
    BY <1>5, FS_CardinalityType, UdpAssumption DEF UdpTypes
  <2>2. /\ IsFiniteSet(lost \cup {network[k]})
        /\ Cardinality(lost \cup {network[k]}) <= Cardinality(lost) + 1
    <3>1. PICK x : x = network[k]
      OBVIOUS
    <3>2. /\ IsFiniteSet(lost \cup {x})
          /\ Cardinality(lost \cup {x}) = IF x \in lost THEN Cardinality(lost) ELSE Cardinality(lost) + 1
      BY <2>1, FS_AddElement
    <3>3. QED
      BY <2>1, <3>1, <3>2
  <2>3. Cardinality(lost) + 1 <= MaxLost
    BY <1>2, <2>1
  <2>4. Cardinality(lost \cup {network[k]}) \in Nat
    BY <2>2, FS_CardinalityType
  <2>5. QED
    BY <1>1, <2>1, <2>2, <2>3, <2>4
<1>7. UdpTypes'
  BY <1>2, <1>4, <1>5, <1>6 DEF UdpTypes
<1>8. UdpInv'
  BY <1>2, <1>4, <1>7, NoBufferKeeps
<1>9. ASSUME InOrder
      PROVE  Newest' /\ \A n \in Module, i \in Id : Stage(n, i)'
  <2>1. Newest /\ \A n \in Module, i \in Id : Stage(n, i)
    BY <1>9 DEF ArriveInv
  <2>2. Newest'
    BY <1>2, <1>4, <2>1 DEF Newest
  <2>3. ASSUME NEW n \in Module, NEW i \in Id
        PROVE  Stage(n, i)'
    <3>1. CASE n = p.module /\ i = p.id
      <4>1. LostOf(n, i)'
        BY <1>1, <1>3, <3>1 DEF LostOf
      <4>2. QED
        BY <4>1 DEF Stage
    <3>2. CASE ~(n = p.module /\ i = p.id)
      <4>1. \A c \in 1..Packets[i] : Gone(n, i, c)' <=> Gone(n, i, c)
        BY <1>4, <3>2
      <4>2. \A r : HasRead(n, i, r)' <=> HasRead(n, i, r)
        BY <1>2 DEF HasRead
      <4>3. \A j \in 1..Packets[i] : ReadUpTo(n, i, j) => ReadUpTo(n, i, j)'
        BY <4>1, <4>2 DEF ReadUpTo
      <4>4. (LostOf(n, i) => LostOf(n, i)') /\ (IsConsumed(n, i) => IsConsumed(n, i)')
        BY <1>1, <1>2 DEF LostOf, IsConsumed, IsMessage
      <4>5. QED
        BY <2>1, <4>3, <4>4 DEF Stage
    <3>3. QED
      BY <3>1, <3>2
  <2>4. QED
    BY <2>2, <2>3
<1>10. ArriveInv'
  BY <1>2, <1>9 DEF ArriveInv, InOrder
<1>11. QED
  BY <1>8, <1>10

(* The fields of a buffer after a packet.                                  *)
Freed(buf) == [buf EXCEPT !.is_free = @ \/ Complete(buf)]
LEMMA InsertedFields ==
  ASSUME NEW o \in ReadBuffer, NEW p \in PacketSet, p.seq \in Chunk
  PROVE  LET buf == Inserted(o, p) IN
         /\ Overrides(o, p.id) =>
              /\ buf \in ReadBuffer /\ buf.module_id = p.module /\ buf.read_msg_ID = p.id
              /\ buf.is_free = FALSE /\ buf.recieved_packets = 1 /\ buf.msg_packet_number = p.total
              /\ buf.read_msg = [o.read_msg EXCEPT ![p.seq] = p.id]
         /\ ~Overrides(o, p.id) /\ o.read_msg_ID = p.id =>
              /\ buf \in ReadBuffer /\ buf.module_id = o.module_id /\ buf.read_msg_ID = p.id
              /\ buf.is_free = FALSE /\ buf.recieved_packets = o.recieved_packets + 1
              /\ buf.msg_packet_number = o.msg_packet_number
              /\ buf.read_msg = [o.read_msg EXCEPT ![p.seq] = p.id]
         /\ ~Overrides(o, p.id) /\ o.read_msg_ID # p.id => buf = o
<1> DEFINE buf == Inserted(o, p)
<1>1. /\ p.module \in Module /\ p.id \in Id /\ p.total \in Nat
      /\ [o.read_msg EXCEPT ![p.seq] = p.id] \in [Chunk -> Id \cup {Stale}]
  BY DEF PacketSet, ReadBuffer
<1>2. CASE Overrides(o, p.id)
  <2>1. buf = [o EXCEPT !.module_id = p.module, !.read_msg_ID = p.id, !.is_free = FALSE,
                        !.recieved_packets = 1, !.msg_packet_number = p.total,
                        !.read_msg[p.seq] = p.id]
    BY <1>2 DEF Inserted
  <2> HIDE DEF buf
  <2>2. /\ buf.module_id = p.module /\ buf.read_msg_ID = p.id
        /\ buf.is_free = FALSE /\ buf.recieved_packets = 1 /\ buf.msg_packet_number = p.total
        /\ buf.read_msg = [o.read_msg EXCEPT ![p.seq] = p.id]
        /\ buf = [module_id |-> p.module, read_msg_ID |-> p.id, recieved_packets |-> 1,
                  msg_packet_number |-> p.total, is_free |-> FALSE,
                  read_msg |-> [o.read_msg EXCEPT ![p.seq] = p.id]]
    BY <2>1 DEF ReadBuffer
  <2>3. buf \in ReadBuffer
    BY <1>1, <2>2 DEF ReadBuffer
  <2>4. QED
    BY <1>2, <2>2, <2>3 DEF buf
<1>3. CASE ~Overrides(o, p.id) /\ o.read_msg_ID = p.id
  <2>1. buf = [o EXCEPT !.recieved_packets = @ + 1, !.read_msg[p.seq] = p.id]
    BY <1>3 DEF Inserted
  <2>2. o.is_free = FALSE /\ o.recieved_packets \in Nat /\ o.read_msg_ID = p.id
    BY <1>3 DEF Overrides, ReadBuffer
  <2> HIDE DEF buf
  <2>3. /\ buf.module_id = o.module_id /\ buf.read_msg_ID = p.id
        /\ buf.is_free = FALSE /\ buf.recieved_packets = o.recieved_packets + 1
        /\ buf.msg_packet_number = o.msg_packet_number
        /\ buf.read_msg = [o.read_msg EXCEPT ![p.seq] = p.id]
        /\ buf = [module_id |-> o.module_id, read_msg_ID |-> o.read_msg_ID,
                  recieved_packets |-> o.recieved_packets + 1,
                  msg_packet_number |-> o.msg_packet_number, is_free |-> o.is_free,
                  read_msg |-> [o.read_msg EXCEPT ![p.seq] = p.id]]
    BY <2>1, <2>2 DEF ReadBuffer
  <2>4. buf \in ReadBuffer
    BY <1>1, <2>2, <2>3 DEF ReadBuffer
  <2>5. QED
    BY <1>3, <2>3, <2>4 DEF buf
<1>4. CASE ~Overrides(o, p.id) /\ o.read_msg_ID # p.id
  BY <1>4 DEF Inserted
<1>5. QED
  BY <1>2, <1>3, <1>4

LEMMA FreedFields ==
  ASSUME NEW buf \in ReadBuffer
  PROVE  /\ Freed(buf) \in ReadBuffer
         /\ Freed(buf).is_free <=> buf.is_free \/ Complete(buf)
         /\ Freed(buf).module_id = buf.module_id /\ Freed(buf).read_msg_ID = buf.read_msg_ID
         /\ Freed(buf).recieved_packets = buf.recieved_packets
         /\ Freed(buf).msg_packet_number = buf.msg_packet_number
         /\ Freed(buf).read_msg = buf.read_msg
<1>1. (buf.is_free \/ Complete(buf)) \in BOOLEAN
  BY DEF ReadBuffer
<1> DEFINE c == buf.is_free \/ Complete(buf)
           n == Freed(buf)
<1>2. n = [buf EXCEPT !.is_free = c]
  BY DEF Freed
<1> HIDE DEF c, n
<1>3. c \in BOOLEAN
  BY <1>1 DEF c
<1>4. /\ n \in ReadBuffer /\ n.is_free = c
      /\ n.module_id = buf.module_id /\ n.read_msg_ID = buf.read_msg_ID
      /\ n.recieved_packets = buf.recieved_packets
      /\ n.msg_packet_number = buf.msg_packet_number /\ n.read_msg = buf.read_msg
  BY <1>2, <1>3 DEF ReadBuffer
<1>5. QED
  BY <1>4 DEF c, n

(* A packet is read into a buffer of its module: the buffer counts packets *)
(* of its message again, and one that is complete has all of them.         *)
LEMMA InsertedReads ==
  ASSUME NEW o \in ReadBuffer, NEW p \in PacketSet, p.seq \in 1..Packets[p.id],
         p.total = Packets[p.id], o.module_id = p.module \/ o.is_free,
         o.is_free \/ Reading(o), o.recieved_packets <= o.msg_packet_number,
         ~Gone(p.module, p.id, p.seq), Gone(p.module, p.id, p.seq)',
         Reading(o) => Reading(o)',
         \A c \in 1..Packets[p.id] : Gone(p.module, p.id, c) => Gone(p.module, p.id, c)'
  PROVE  LET buf == Inserted(o, p)
             nb == Freed(buf) IN
         /\ nb \in ReadBuffer /\ nb.recieved_packets <= nb.msg_packet_number
         /\ nb.module_id = p.module
         /\ nb.is_free \/ Reading(nb)'
         /\ Complete(buf) =>
              /\ <<buf.module_id, [c \in 1..buf.msg_packet_number |-> buf.read_msg[c]]>>
                   = WholeMessage(p.module, p.id)
              /\ \A c \in 1..Packets[p.id] : Gone(p.module, p.id, c)'
<1> DEFINE i == p.id
           n == Packets[p.id]
           m == p.module
<1>1. m \in Module /\ i \in Id /\ n \in Nat \ {0} /\ p.seq \in 1..n /\ p.seq \in Chunk
      /\ \A c \in 1..n : c \in Chunk
  BY UdpConstants DEF PacketSet
<1>2. PICK buf : buf = Inserted(o, p)
  OBVIOUS
<1>3. PICK nb : nb = Freed(buf)
  OBVIOUS
<1>4. SUFFICES /\ nb \in ReadBuffer /\ nb.recieved_packets <= nb.msg_packet_number
               /\ nb.module_id = m
               /\ nb.is_free \/ Reading(nb)'
               /\ Complete(buf) =>
                    /\ <<buf.module_id, [c \in 1..buf.msg_packet_number |-> buf.read_msg[c]]>>
                         = WholeMessage(m, i)
                    /\ \A c \in 1..n : Gone(m, i, c)'
  BY <1>2, <1>3
<1>5. o.read_msg \in [Chunk -> Id \cup {Stale}]
  BY DEF ReadBuffer
<1> HIDE DEF i, n, m
<1>6. ASSUME buf \in ReadBuffer, buf.module_id = m, buf.read_msg_ID = i, buf.is_free = FALSE,
             buf.msg_packet_number = n, buf.read_msg = [o.read_msg EXCEPT ![p.seq] = i],
             NEW R \in SUBSET (1..n), Cardinality(R) = buf.recieved_packets, R # {},
             \A c \in R : buf.read_msg[c] = i /\ Gone(m, i, c)'
      PROVE  /\ nb \in ReadBuffer /\ nb.recieved_packets <= nb.msg_packet_number
             /\ nb.module_id = m
             /\ nb.is_free \/ Reading(nb)'
             /\ Complete(buf) =>
                  /\ <<buf.module_id, [c \in 1..buf.msg_packet_number |-> buf.read_msg[c]]>>
                       = WholeMessage(m, i)
                  /\ \A c \in 1..n : Gone(m, i, c)'
  <2>1. IsFiniteSet(1..n) /\ Cardinality(1..n) = n
    BY <1>1, FS_Interval
  <2>2. /\ IsFiniteSet(R) /\ Cardinality(R) <= n /\ (Cardinality(R) = n => R = 1..n)
        /\ Cardinality(R) \in Nat /\ Cardinality(R) # 0
    <3>1. IsFiniteSet(R) /\ Cardinality(R) <= Cardinality(1..n)
          /\ (Cardinality(1..n) = Cardinality(R) => 1..n = R)
      BY <2>1, FS_Subset
    <3>2. QED
      BY <1>6, <2>1, <3>1, FS_EmptySet, FS_CardinalityType
  <2>3. Complete(buf) <=> Cardinality(R) = n
    BY <1>6 DEF Complete
  <2>4. /\ nb \in ReadBuffer /\ (nb.is_free <=> Complete(buf))
        /\ nb.module_id = m /\ nb.read_msg_ID = i
        /\ nb.recieved_packets = Cardinality(R) /\ nb.msg_packet_number = n
        /\ nb.read_msg = buf.read_msg
    BY <1>3, <1>6, FreedFields
  <2>5. ASSUME ~Complete(buf)
        PROVE  Reading(nb)'
    <3>1. nb.recieved_packets \in 1..(n - 1)
      BY <1>1, <2>2, <2>3, <2>4, <2>5
    <3>2. \A c \in R : nb.read_msg[c] = nb.read_msg_ID /\ Gone(m, i, c)'
      BY <1>6, <2>4
    <3>3. Packets[nb.read_msg_ID] = n
      BY <2>4 DEF n, i
    <3>4. QED
      BY <1>1, <2>4, <3>1, <3>2, <3>3 DEF Reading
  <2>6. ASSUME Complete(buf)
        PROVE  /\ <<buf.module_id, [c \in 1..buf.msg_packet_number |-> buf.read_msg[c]]>>
                    = WholeMessage(m, i)
               /\ \A c \in 1..n : Gone(m, i, c)'
    <3>1. R = 1..n
      BY <2>2, <2>3, <2>6
    <3>2. [c \in 1..n |-> buf.read_msg[c]] = [c \in 1..n |-> i]
      BY <1>6, <3>1
    <3>3. QED
      BY <1>6, <3>1, <3>2 DEF WholeMessage, n, i
  <2>7. QED
    BY <2>2, <2>4, <2>5, <2>6
<1>7. CASE Overrides(o, i)
  <2>1. /\ buf \in ReadBuffer /\ buf.module_id = m /\ buf.read_msg_ID = i
        /\ buf.is_free = FALSE /\ buf.recieved_packets = 1 /\ buf.msg_packet_number = n
        /\ buf.read_msg = [o.read_msg EXCEPT ![p.seq] = i]
    BY <1>1, <1>2, <1>7, InsertedFields DEF i, m, n
  <2>2. Cardinality({p.seq}) = 1 /\ {p.seq} \in SUBSET (1..n)
    BY <1>1, FS_Singleton
  <2>3. buf.read_msg[p.seq] = i /\ Gone(m, i, p.seq)'
    BY <1>1, <1>5, <2>1 DEF m, i
  <2>4. \A c \in {p.seq} : buf.read_msg[c] = i /\ Gone(m, i, c)'
    BY <2>3
  <2>5. QED
    BY <1>6, <2>1, <2>2, <2>4
<1>8. CASE ~Overrides(o, i) /\ o.read_msg_ID = i
  <2>1. ~o.is_free /\ Reading(o) /\ o.module_id = m
    BY <1>8 DEF Overrides, m
  <2>2. /\ buf \in ReadBuffer /\ buf.module_id = m /\ buf.read_msg_ID = i
        /\ buf.is_free = FALSE /\ buf.recieved_packets = o.recieved_packets + 1
        /\ buf.msg_packet_number = o.msg_packet_number
        /\ buf.read_msg = [o.read_msg EXCEPT ![p.seq] = i]
    BY <1>1, <1>2, <1>8, <2>1, InsertedFields DEF i
  <2>3. o.msg_packet_number = n /\ o.recieved_packets \in Nat
    BY <1>8, <2>1 DEF Reading, n, i
  <2>4. PICK R \in SUBSET (1..n) :
          /\ Cardinality(R) = o.recieved_packets
          /\ \A c \in R : o.read_msg[c] = i /\ Gone(m, i, c)
    BY <1>8, <2>1, <2>3 DEF Reading
  <2>5. p.seq \notin R
    BY <2>4 DEF m, i
  <2>6. IsFiniteSet(R)
    <3>1. IsFiniteSet(1..n)
      BY <1>1, FS_Interval
    <3>2. QED
      BY <3>1, FS_Subset
  <2>7. Cardinality(R \cup {p.seq}) = buf.recieved_packets /\ R \cup {p.seq} \in SUBSET (1..n)
    <3>1. PICK q : q = p.seq
      OBVIOUS
    <3>2. Cardinality(R \cup {q}) = Cardinality(R) + 1
      BY <2>5, <2>6, <3>1, FS_AddElement
    <3>3. QED
      BY <1>1, <2>2, <2>4, <3>1, <3>2
  <2>8. \A c \in R \cup {p.seq} : buf.read_msg[c] = i
    BY <1>1, <1>5, <2>2, <2>4
  <2>9. \A c \in R \cup {p.seq} : Gone(m, i, c)'
    BY <2>4 DEF m, i, n
  <2>10. QED
    BY <1>6, <2>2, <2>3, <2>7, <2>8, <2>9
<1>9. CASE ~Overrides(o, i) /\ o.read_msg_ID # i
  <2>1. ~o.is_free /\ Reading(o) /\ o.module_id = m /\ buf = o
    BY <1>1, <1>2, <1>9, InsertedFields DEF Overrides, m, i
  <2>2. ~Complete(buf)
    BY <2>1 DEF Complete, Reading, ReadBuffer
  <2>3. /\ nb \in ReadBuffer /\ nb.module_id = m /\ nb.recieved_packets <= nb.msg_packet_number
    BY <1>3, <2>1, FreedFields
  <2>4. nb = o
    BY <1>3, <2>1, <2>2 DEF Freed, ReadBuffer
  <2>5. Reading(o)'
    BY <2>1
  <2>6. QED
    BY <2>2, <2>3, <2>4, <2>5
<1>10. QED
  BY <1>7, <1>8, <1>9

(* The buffer that pick_msg_buffer finds.                                  *)
LEMMA CandidateFits ==
  ASSUME UdpInv, NEW m \in Module, Candidates(m) # {}, NEW b, b = Min(Candidates(m))
  PROVE  /\ b \in DOMAIN read_msgs
         /\ \/ read_msgs[b].module_id = m
            \/ /\ read_msgs[b].module_id = 0 /\ read_msgs[b].is_free
               /\ \A c \in DOMAIN read_msgs : read_msgs[c].module_id # m
<1>1. read_msgs \in Seq(ReadBuffer)
  BY DEF UdpInv, UdpTypes
<1>2. DOMAIN read_msgs \subseteq Nat
  BY <1>1
<1>3. Candidates(m) \subseteq DOMAIN read_msgs
  BY DEF Candidates
<1>4. b \in Candidates(m)
  <2>1. Candidates(m) \in SUBSET Nat
    BY <1>2, <1>3
  <2>2. QED
    BY <2>1, MinIsLeast
<1>5. QED
  BY <1>3, <1>4 DEF Candidates, Owned, NeverUsed

(* More threads than places cannot all have one of their own.              *)
LEMMA RoomForOne ==
  ASSUME NEW S, IsFiniteSet(S), NEW x \in S, NEW n \in Nat, Cardinality(S) <= n,
         NEW f \in [1..n -> S \ {x}]
  PROVE  \E a, b \in 1..n : a # b /\ f[a] = f[b]
<1>1. IsFiniteSet(S \ {x}) /\ Cardinality(S \ {x}) = Cardinality(S) - 1 /\ Cardinality(S) \in Nat
  BY FS_RemoveElement, FS_CardinalityType
<1>2. IsFiniteSet(1..n) /\ Cardinality(1..n) = n
  BY FS_Interval
<1>3. Cardinality(S \ {x}) < Cardinality(1..n)
  BY <1>1, <1>2
<1>4. QED
  BY <1>1, <1>2, <1>3, FS_PigeonHole

LEMMA BufferFound ==
  ASSUME UdpInv, NEW m \in Module, Cardinality(Module) <= Len(read_msgs)
  PROVE  Candidates(m) # {}
<1> SUFFICES ASSUME Candidates(m) = {}
             PROVE  FALSE
  OBVIOUS
<1>1. read_msgs \in Seq(ReadBuffer) /\ DOMAIN read_msgs = 1..Len(read_msgs) /\ Len(read_msgs) \in Nat
  BY DEF UdpInv, UdpTypes
<1>2. ASSUME NEW b \in DOMAIN read_msgs
      PROVE  read_msgs[b].module_id \in Module \ {m}
  <2>1. read_msgs[b] \in ReadBuffer
    BY <1>1
  <2>2. read_msgs[b].module_id # m
    BY DEF Candidates, Owned
  <2>3. read_msgs[b].is_free => read_msgs[b].module_id # 0
    BY DEF Candidates, Owned, NeverUsed
  <2>4. ~read_msgs[b].is_free => read_msgs[b].module_id # 0
    BY UdpConstants DEF UdpInv, BuffersOK, Reading
  <2>5. QED
    BY <2>1, <2>2, <2>3, <2>4 DEF ReadBuffer
<1> DEFINE f == [b \in 1..Len(read_msgs) |-> read_msgs[b].module_id]
<1>3. f \in [1..Len(read_msgs) -> Module \ {m}]
  BY <1>1, <1>2
<1>4. \A b \in 1..Len(read_msgs) : f[b] = read_msgs[b].module_id
  OBVIOUS
<1> HIDE DEF f
<1>5. PICK a, b \in 1..Len(read_msgs) : a # b /\ f[a] = f[b]
  <2>1. PICK q \in Nat : q = Len(read_msgs)
    BY <1>1
  <2>2. f \in [1..q -> Module \ {m}] /\ Cardinality(Module) <= q
    BY <1>3, <2>1
  <2>3. \E a, b \in 1..q : a # b /\ f[a] = f[b]
    BY <2>2, RoomForOne, UdpConstants
  <2>4. QED
    BY <2>1, <2>3
<1>6. read_msgs[a].module_id = read_msgs[b].module_id /\ read_msgs[a].module_id # 0
  BY <1>1, <1>2, <1>4, <1>5, UdpConstants
<1>7. QED
  BY <1>1, <1>5, <1>6 DEF UdpInv, BuffersOK

(* The packets before the first one in a network that keeps the order.     *)
LEMMA FirstIsNext ==
  ASSUME UdpInv, 1 \in DOMAIN network, NEW p, p = network[1],
         NEW i \in Id, NEW c \in 1..Packets[i], i < p.id \/ (i = p.id /\ c < p.seq)
  PROVE  Gone(p.module, i, c)
<1>1. /\ p \in PacketSet /\ NetworkOK /\ p.id \in Id /\ p.id \in Nat /\ i \in Nat /\ c \in Nat
      /\ p.module \in Module /\ p.seq \in Nat
      /\ DOMAIN network \subseteq Nat \ {0} /\ \A q \in DOMAIN network : network[q] \in PacketSet
  <2>1. network \in Seq(PacketSet) /\ DOMAIN network = 1..Len(network) /\ Len(network) \in Nat
    BY DEF UdpInv, UdpTypes
  <2>2. p \in PacketSet /\ NetworkOK /\ \A q \in DOMAIN network : network[q] \in PacketSet
    BY <2>1 DEF UdpInv
  <2>3. p.id \in Id /\ p.module \in Module /\ p.seq \in Nat
    BY <2>2 DEF PacketSet
  <2>4. QED
    BY <2>1, <2>2, <2>3, UdpConstants
<1>2. WasSent(p.module, p.id, p.seq) /\ msg_id[p.module] \in Nat /\ sent_count[p.module] \in Nat
  BY <1>1 DEF NetworkOK, UdpInv, UdpTypes
<1>3. WasSent(p.module, i, c)
  BY <1>1, <1>2 DEF WasSent
<1>4. ASSUME NEW q \in DOMAIN network, network[q].module = p.module,
             network[q].id = i, network[q].seq = c
      PROVE  FALSE
  <2>1. q # 1
    BY <1>1, <1>4
  <2>2. 1 < q
    BY <1>1, <2>1
  <2>3. Earlier(p, network[q])
    BY <1>1, <1>4, <2>2 DEF NetworkOK
  <2>4. QED
    BY <1>1, <1>4, <2>3 DEF Earlier
<1>5. QED
  BY <1>3, <1>4 DEF Gone, Travels

(* A message is consumed once, and in order if its network keeps the order. *)
LEMMA ConsumptionKeeps ==
  ASSUME UdpInv, NEW k \in DOMAIN network, ordered => k = 1, NEW p, p = network[k],
         p.module \in Module, p.id \in Id, p.seq \in 1..Packets[p.id],
         ~Gone(p.module, p.id, p.seq), UNCHANGED ordered,
         udpConsumed' = Append(udpConsumed, WholeMessage(p.module, p.id)),
         \A c \in 1..Packets[p.id] : Gone(p.module, p.id, c)',
         \A n \in Module, i \in Id : \A c \in 1..Packets[i] : Gone(n, i, c) => Gone(n, i, c)'
  PROVE  udpConsumed' \in Seq(Wholes) /\ ConsumedOK' /\ UdpWhole'
<1> PICK l, m : l = Len(udpConsumed) /\ m = p.module
  OBVIOUS
<1>1. udpConsumed \in Seq(Wholes) /\ ConsumedOK /\ UdpWhole /\ WholeMessage(m, p.id) \in Wholes
  BY DEF UdpInv, UdpTypes, Wholes
<1>2. /\ udpConsumed' \in Seq(Wholes) /\ DOMAIN udpConsumed' = 1..(l + 1) /\ l \in Nat
      /\ DOMAIN udpConsumed = 1..l /\ \A j \in 1..l : udpConsumed'[j] = udpConsumed[j]
      /\ udpConsumed'[l + 1] = WholeMessage(m, p.id)
  <2>1. PICK e : e = WholeMessage(m, p.id)
    OBVIOUS
  <2>2. udpConsumed' = Append(udpConsumed, e) /\ e \in Wholes
    BY <1>1, <2>1
  <2>3. QED
    BY <1>1, <2>1, <2>2, Grown
<1>3. \A j \in 1..(l + 1) : j \in 1..l \/ j = l + 1
  BY <1>2
<1>4. \A j \in 1..l : \A n, i : IsMessage(j, n, i)' <=> IsMessage(j, n, i)
  BY <1>2 DEF IsMessage
<1>5. \A n \in Module, i \in Id : IsMessage(l + 1, n, i)' => n = m /\ i = p.id
  <2> SUFFICES ASSUME NEW n \in Module, NEW i \in Id, IsMessage(l + 1, n, i)'
               PROVE  n = m /\ i = p.id
    OBVIOUS
  <2>1. WholeMessage(n, i) = WholeMessage(m, p.id)
    BY <1>2 DEF IsMessage
  <2>2. m \in Module /\ p.id \in Id
    OBVIOUS
  <2>3. QED
    BY <2>1, <2>2, WholesDiffer
<1>6. \A n \in Module, i \in Id : AllGone(n, i) => AllGone(n, i)'
  BY DEF AllGone
<1>7. ASSUME NEW i \in Id, i = p.id \/ (ordered /\ i <= p.id)
      PROVE  AllGone(m, i)'
  <2>1. CASE i = p.id
    BY <2>1 DEF AllGone
  <2>2. CASE i # p.id
    <3>1. ordered /\ k = 1 /\ i < p.id
      BY <1>7, <2>2, UdpConstants
    <3>2. \A c \in 1..Packets[i] : Gone(m, i, c)
      BY <3>1, FirstIsNext
    <3>3. QED
      BY <1>6, <3>2 DEF AllGone
  <2>3. QED
    BY <2>1, <2>2
<1>8. ConsumedOK'
  <2>1. ASSUME NEW j \in 1..(l + 1), NEW n \in Module, NEW i \in Id, NEW h \in Id,
               IsMessage(j, n, i)', h = i \/ (ordered /\ h <= i)
        PROVE  AllGone(n, h)'
    <3>1. CASE j \in 1..l
      <4>1. IsMessage(j, n, i) /\ j \in DOMAIN udpConsumed
        BY <1>2, <1>4, <2>1, <3>1
      <4>2. AllGone(n, h)
        BY <1>1, <2>1, <4>1 DEF ConsumedOK
      <4>3. QED
        BY <1>6, <4>2
    <3>2. CASE j = l + 1
      BY <1>5, <1>7, <2>1, <3>2
    <3>3. QED
      BY <1>3, <3>1, <3>2
  <2>2. QED
    BY <1>2, <2>1 DEF ConsumedOK
<1>9. ASSUME NEW j \in 1..l, NEW i \in Id, IsMessage(j, m, i)
      PROVE  i # p.id /\ (ordered => i < p.id)
  <2>1. \A h \in Id : h = i \/ (ordered /\ h <= i) => AllGone(m, h)
    BY <1>1, <1>2, <1>9 DEF ConsumedOK
  <2>2. ~AllGone(m, p.id)
    BY DEF AllGone
  <2>3. i \in Nat /\ p.id \in Nat
    BY UdpConstants
  <2>4. QED
    BY <2>1, <2>2, <2>3
<1>10. UdpWhole'
  <2>1. ASSUME NEW j \in 1..(l + 1)
        PROVE  \E n \in Module, i \in Id : IsMessage(j, n, i)'
    <3>1. udpConsumed'[j] \in Wholes
      BY <1>2
    <3>2. QED
      BY <3>1 DEF Wholes, IsMessage
  <2>2. ASSUME NEW j \in 1..(l + 1), NEW h \in 1..(l + 1), NEW n \in Module, NEW i \in Id, NEW g \in Id,
               j < h, IsMessage(j, n, i)', IsMessage(h, n, g)'
        PROVE  i # g /\ (ordered => i < g)
    <3>1. j \in 1..l /\ IsMessage(j, n, i)
      BY <1>2, <1>4, <2>2
    <3>2. CASE h \in 1..l
      <4>1. IsMessage(h, n, g)
        BY <1>4, <2>2, <3>2
      <4>2. QED
        BY <1>1, <1>2, <2>2, <3>1, <3>2, <4>1 DEF UdpWhole
    <3>3. CASE h = l + 1
      BY <1>5, <1>9, <2>2, <3>1, <3>3
    <3>4. QED
      BY <1>3, <3>2, <3>3
  <2>3. QED
    BY <1>2, <2>1, <2>2 DEF UdpWhole
<1>11. QED
  BY <1>2, <1>8, <1>10

(* What a read of a packet does, to the buffer b that it finds.            *)
LEMMA ReadEffect ==
  ASSUME UdpInv, NEW k \in DOMAIN network, NEW p, p = network[k], ordered => k = 1,
         network' = RemoveAt(network, k), UNCHANGED <<ordered, msg_id, sent_count, lost>>,
         Candidates(p.module) # {}, NEW b, b = Min(Candidates(p.module)),
         read_msgs' = [read_msgs EXCEPT ![b] = Freed(Inserted(read_msgs[b], p))],
         udpConsumed' = Consumption(Inserted(read_msgs[b], p))
  PROVE  /\ UdpInv' /\ b \in DOMAIN read_msgs /\ DOMAIN read_msgs' = DOMAIN read_msgs
         /\ read_msgs'[b] = Freed(Inserted(read_msgs[b], p))
         /\ \A c \in DOMAIN read_msgs : c # b => read_msgs'[c] = read_msgs[c]
         /\ Complete(Inserted(read_msgs[b], p)) => IsConsumed(p.module, p.id)'
         /\ \A n \in Module, i \in Id : IsConsumed(n, i) => IsConsumed(n, i)'
<1>1. /\ p \in PacketSet /\ p.module \in Module /\ p.id \in Id /\ p.total = Packets[p.id]
      /\ p.seq \in 1..Packets[p.id] /\ ~Gone(p.module, p.id, p.seq)
      /\ network' \in Seq(PacketSet) /\ NetworkOK'
      /\ \A n \in Module, i \in Id : \A c \in 1..Packets[i] :
           Gone(n, i, c)' <=> Gone(n, i, c) \/ (n = p.module /\ i = p.id /\ c = p.seq)
  BY RemovalEffect
<1>2. /\ \A n \in Module, i \in Id : \A c \in 1..Packets[i] : Gone(n, i, c) => Gone(n, i, c)'
      /\ Gone(p.module, p.id, p.seq)'
  BY <1>1
<1>3. /\ b \in DOMAIN read_msgs
      /\ \/ read_msgs[b].module_id = p.module
         \/ /\ read_msgs[b].module_id = 0 /\ read_msgs[b].is_free
            /\ \A c \in DOMAIN read_msgs : read_msgs[c].module_id # p.module
  BY <1>1, CandidateFits
<1>4. UdpTypes /\ BuffersOK /\ ConsumedOK /\ UdpWhole
  BY DEF UdpInv
<1>5. PICK o \in ReadBuffer : o = read_msgs[b]
  BY <1>3, <1>4 DEF UdpTypes
<1>6. PICK buf, nb : buf = Inserted(o, p) /\ nb = Freed(buf)
  OBVIOUS
<1>7. \A x \in ReadBuffer : Reading(x) => Reading(x)'
  BY <1>2, GoneKeeps
<1>8. o.is_free \/ Reading(o)
  BY <1>3, <1>4, <1>5 DEF BuffersOK
<1>9. /\ nb \in ReadBuffer /\ nb.recieved_packets <= nb.msg_packet_number
      /\ nb.module_id = p.module /\ (nb.is_free \/ Reading(nb)')
      /\ Complete(buf) =>
           /\ <<buf.module_id, [c \in 1..buf.msg_packet_number |-> buf.read_msg[c]]>>
                = WholeMessage(p.module, p.id)
           /\ \A c \in 1..Packets[p.id] : Gone(p.module, p.id, c)'
  <2>1. o.module_id = p.module \/ o.is_free
    BY <1>3, <1>5
  <2>2. o.recieved_packets <= o.msg_packet_number
    BY <1>3, <1>4, <1>5 DEF BuffersOK
  <2>3. \A c \in 1..Packets[p.id] : Gone(p.module, p.id, c) => Gone(p.module, p.id, c)'
    BY <1>1, <1>2
  <2>4. QED
    BY <1>1, <1>2, <1>5, <1>6, <1>7, <1>8, <2>1, <2>2, <2>3, InsertedReads
<1>10. read_msgs' = [read_msgs EXCEPT ![b] = nb] /\ udpConsumed' = Consumption(buf)
  BY <1>5, <1>6
<1>11. read_msgs \in Seq(ReadBuffer)
  BY <1>4 DEF UdpTypes
<1>12. /\ read_msgs' \in Seq(ReadBuffer) /\ DOMAIN read_msgs' = DOMAIN read_msgs
       /\ read_msgs'[b] = nb
       /\ \A c \in DOMAIN read_msgs : c # b => read_msgs'[c] = read_msgs[c]
  BY <1>3, <1>9, <1>10, <1>11
<1>13. BuffersOK'
  <2>1. ASSUME NEW c \in DOMAIN read_msgs, NEW x, x = read_msgs'[c]
        PROVE  x.recieved_packets <= x.msg_packet_number /\ (x.is_free \/ Reading(x)')
    <3>1. CASE c = b
      BY <1>9, <1>12, <2>1, <3>1
    <3>2. CASE c # b
      <4>1. x = read_msgs[c] /\ x \in ReadBuffer
        BY <1>11, <1>12, <2>1, <3>2
      <4>2. x.recieved_packets <= x.msg_packet_number /\ (x.is_free \/ Reading(x))
        BY <1>4, <4>1 DEF BuffersOK
      <4>3. QED
        BY <1>7, <4>1, <4>2
    <3>3. QED
      BY <3>1, <3>2
  <2>2. ASSUME NEW c \in DOMAIN read_msgs, NEW d \in DOMAIN read_msgs,
               read_msgs'[c].module_id = read_msgs'[d].module_id, read_msgs'[c].module_id # 0
        PROVE  c = d
    <3>1. \A x, y \in DOMAIN read_msgs :
            read_msgs[x].module_id = read_msgs[y].module_id /\ read_msgs[x].module_id # 0 => x = y
      BY <1>4 DEF BuffersOK
    <3>2. \A x \in DOMAIN read_msgs : x # b => read_msgs[x].module_id # p.module
      BY <1>1, <1>3, <3>1, UdpConstants
    <3>3. CASE c = b \/ d = b
      BY <1>9, <1>12, <2>2, <3>2, <3>3
    <3>4. CASE c # b /\ d # b
      BY <1>12, <2>2, <3>1, <3>4
    <3>5. QED
      BY <3>3, <3>4
  <2>3. ASSUME NEW c \in DOMAIN read_msgs'
        PROVE  /\ read_msgs'[c].recieved_packets <= read_msgs'[c].msg_packet_number
               /\ (read_msgs[c].is_free \/ Reading(read_msgs[c]))'
    <3>1. PICK x : x = read_msgs'[c]
      OBVIOUS
    <3>2. x.recieved_packets <= x.msg_packet_number /\ (x.is_free \/ Reading(x)')
      BY <1>12, <2>1, <3>1
    <3>3. QED
      BY <3>1, <3>2
  <2>4. QED
    BY <1>12, <2>2, <2>3 DEF BuffersOK
<1>14. udpConsumed' \in Seq(Wholes) /\ ConsumedOK' /\ UdpWhole'
  <2>1. CASE Complete(buf)
    <3>1. udpConsumed' = Append(udpConsumed, WholeMessage(p.module, p.id))
      BY <1>9, <1>10, <2>1 DEF Consumption
    <3>2. \A c \in 1..Packets[p.id] : Gone(p.module, p.id, c)'
      BY <1>9, <2>1
    <3>3. QED
      BY <1>1, <1>2, <3>1, <3>2, ConsumptionKeeps
  <2>2. CASE ~Complete(buf)
    <3>1. udpConsumed' = udpConsumed
      BY <1>10, <2>2 DEF Consumption
    <3>2. \A n \in Module, i \in Id : AllGone(n, i) => AllGone(n, i)'
      BY <1>2 DEF AllGone
    <3>3. QED
      BY <1>4, <3>1, <3>2 DEF ConsumedOK, UdpWhole, IsMessage, UdpTypes
  <2>3. QED
    BY <2>1, <2>2
<1>15. UdpTypes'
  BY <1>1, <1>4, <1>12, <1>14 DEF UdpTypes
<1>16. /\ Complete(buf) => IsConsumed(p.module, p.id)'
       /\ \A n \in Module, i \in Id : IsConsumed(n, i) => IsConsumed(n, i)'
  <2>1. CASE Complete(buf)
    <3>1. PICK w \in Wholes : w = WholeMessage(p.module, p.id)
      BY <1>1 DEF Wholes
    <3>2. udpConsumed' = Append(udpConsumed, w) /\ udpConsumed \in Seq(Wholes)
      BY <1>4, <1>9, <1>10, <2>1, <3>1 DEF Consumption, UdpTypes
    <3>3. /\ Len(udpConsumed) + 1 \in DOMAIN udpConsumed' /\ udpConsumed'[Len(udpConsumed) + 1] = w
          /\ \A j \in DOMAIN udpConsumed : j \in DOMAIN udpConsumed' /\ udpConsumed'[j] = udpConsumed[j]
      BY <3>2, Grown
    <3>4. QED
      BY <3>1, <3>3 DEF IsConsumed, IsMessage
  <2>2. CASE ~Complete(buf)
    BY <1>10, <2>2 DEF Consumption, IsConsumed, IsMessage
  <2>3. QED
    BY <2>1, <2>2
<1>17. UdpInv'
  BY <1>1, <1>13, <1>14, <1>15 DEF UdpInv
<1>18. QED
  BY <1>3, <1>5, <1>6, <1>12, <1>16, <1>17

(* In a network that keeps the order, a buffer takes the packet.           *)
LEMMA InsertedNow ==
  ASSUME UdpInv, Newest, 1 \in DOMAIN network, NEW p, p = network[1],
         p \in PacketSet, p.seq \in 1..Packets[p.id],
         Candidates(p.module) # {}, NEW b, b = Min(Candidates(p.module)),
         NEW buf, buf = Inserted(read_msgs[b], p)
  PROVE  buf \in ReadBuffer /\ buf.module_id = p.module /\ buf.read_msg_ID = p.id
<1>1. p.module \in Module /\ p.id \in Id /\ p.id \in Nat /\ p.seq \in Chunk
  BY UdpConstants DEF PacketSet
<1>2. UdpTypes
  BY DEF UdpInv
<1>3. /\ b \in DOMAIN read_msgs
      /\ read_msgs[b].module_id = p.module \/ read_msgs[b].is_free
  BY <1>1, CandidateFits
<1>4. PICK o \in ReadBuffer : o = read_msgs[b]
  BY <1>2, <1>3 DEF UdpTypes
<1>5. /\ Overrides(o, p.id) =>
           buf \in ReadBuffer /\ buf.module_id = p.module /\ buf.read_msg_ID = p.id
      /\ ~Overrides(o, p.id) /\ o.read_msg_ID = p.id =>
           buf \in ReadBuffer /\ buf.module_id = o.module_id /\ buf.read_msg_ID = p.id
  BY <1>1, <1>4, InsertedFields
<1>6. CASE ~Overrides(o, p.id)
  <2>1. ~o.is_free /\ ~(o.read_msg_ID < p.id) /\ o.module_id = p.module
    BY <1>3, <1>4, <1>6 DEF Overrides
  <2>2. o.read_msg_ID <= p.id /\ o.read_msg_ID \in Nat
    BY <1>3, <1>4, <2>1, UdpConstants DEF Newest, ReadBuffer
  <2>3. o.read_msg_ID = p.id
    BY <1>1, <2>1, <2>2
  <2>4. QED
    BY <1>5, <1>6, <2>1, <2>3
<1>7. QED
  BY <1>5, <1>6


(* The first packet of a network that keeps the order is the next one of   *)
(* its message: its buffer counts the packets up to this one.              *)
LEMMA NextPacket ==
  ASSUME UdpInv, ArriveInv, InOrder, 1 \in DOMAIN network,
         Candidates(network[1].module) # {}, ~LostOf(network[1].module, network[1].id)
  PROVE  LET p == network[1]
             b == Min(Candidates(p.module))
             buf == Inserted(read_msgs[b], p) IN
         /\ buf \in ReadBuffer /\ buf.module_id = p.module /\ buf.read_msg_ID = p.id
         /\ buf.is_free = FALSE /\ buf.recieved_packets = p.seq
         /\ buf.msg_packet_number = Packets[p.id]
         /\ \A c \in 1..Packets[p.id] : Gone(p.module, p.id, c) <=> c < p.seq
<1> PICK p, b, buf : p = network[1] /\ b = Min(Candidates(p.module)) /\ buf = Inserted(read_msgs[b], p)
  OBVIOUS
<1> SUFFICES /\ buf \in ReadBuffer /\ buf.module_id = p.module /\ buf.read_msg_ID = p.id
             /\ buf.is_free = FALSE /\ buf.recieved_packets = p.seq
             /\ buf.msg_packet_number = Packets[p.id]
             /\ \A c \in 1..Packets[p.id] : Gone(p.module, p.id, c) <=> c < p.seq
  OBVIOUS
<1>0. /\ p \in PacketSet /\ p.seq \in 1..Packets[p.id] /\ p.total = Packets[p.id]
      /\ ~Gone(p.module, p.id, p.seq) /\ ~LostOf(p.module, p.id) /\ Candidates(p.module) # {}
  <2>1. network \in Seq(PacketSet) /\ NetworkOK
    BY DEF UdpInv, UdpTypes
  <2>2. p \in PacketSet /\ p.seq <= Packets[p.id] /\ p.total = Packets[p.id]
    BY <2>1 DEF NetworkOK
  <2>3. p.id \in Id /\ p.seq \in Nat \ {0} /\ Packets[p.id] \in Nat
    BY <2>2, UdpConstants DEF PacketSet
  <2>4. p.seq \in 1..Packets[p.id]
    BY <2>2, <2>3
  <2>5. ~Gone(p.module, p.id, p.seq)
    BY DEF Gone, Travels
  <2>6. QED
    BY <2>2, <2>4, <2>5
<1>1. /\ p.module \in Module /\ p.id \in Id /\ p.id \in Nat /\ Packets[p.id] \in Nat
      /\ p.seq \in Chunk /\ p.seq \in Nat
  BY <1>0, UdpConstants DEF PacketSet
<1>2. UdpTypes /\ BuffersOK /\ ConsumedOK /\ Newest /\ Stage(p.module, p.id)
  BY <1>1 DEF UdpInv, ArriveInv
<1>3. ~IsConsumed(p.module, p.id)
  BY <1>0, <1>1, <1>2 DEF IsConsumed, ConsumedOK, AllGone
<1>4. PICK k \in 1..Packets[p.id] : ReadUpTo(p.module, p.id, k)
  BY <1>0, <1>2, <1>3 DEF Stage
<1>5. k = p.seq
  <2>1. ~(p.seq < k)
    BY <1>0, <1>1, <1>4 DEF ReadUpTo
  <2>2. ~(k < p.seq)
    <3>1. ~Gone(p.module, p.id, k)
      BY <1>1, <1>4 DEF ReadUpTo
    <3>2. QED
      BY <1>1, <3>1, FirstIsNext
  <2>3. QED
    BY <1>1, <2>1, <2>2
<1>6. \A c \in 1..Packets[p.id] : Gone(p.module, p.id, c) <=> c < p.seq
  BY <1>4, <1>5 DEF ReadUpTo
<1>7. /\ b \in DOMAIN read_msgs
      /\ \/ read_msgs[b].module_id = p.module
         \/ /\ read_msgs[b].module_id = 0 /\ read_msgs[b].is_free
            /\ \A c \in DOMAIN read_msgs : read_msgs[c].module_id # p.module
  BY <1>0, <1>1, CandidateFits
<1>8. PICK o \in ReadBuffer : o = read_msgs[b]
  BY <1>2, <1>7 DEF UdpTypes
<1>9. /\ Overrides(o, p.id) =>
           /\ buf \in ReadBuffer /\ buf.module_id = p.module /\ buf.read_msg_ID = p.id
           /\ buf.is_free = FALSE /\ buf.recieved_packets = 1 /\ buf.msg_packet_number = p.total
      /\ ~Overrides(o, p.id) /\ o.read_msg_ID = p.id =>
           /\ buf \in ReadBuffer /\ buf.module_id = o.module_id /\ buf.read_msg_ID = p.id
           /\ buf.is_free = FALSE /\ buf.recieved_packets = o.recieved_packets + 1
           /\ buf.msg_packet_number = o.msg_packet_number
  BY <1>0, <1>1, <1>8, InsertedFields
<1>10. ASSUME p.seq # 1
       PROVE  /\ o.module_id = p.module /\ ~o.is_free /\ o.read_msg_ID = p.id
              /\ o.recieved_packets = p.seq - 1
  <2>1. PICK d \in DOMAIN read_msgs :
          /\ read_msgs[d].module_id = p.module /\ ~read_msgs[d].is_free
          /\ read_msgs[d].read_msg_ID = p.id /\ read_msgs[d].recieved_packets = p.seq - 1
    BY <1>4, <1>5, <1>10 DEF ReadUpTo, HasRead
  <2>2. d = b
    BY <1>1, <1>2, <1>7, <2>1, UdpConstants DEF BuffersOK
  <2>3. QED
    BY <1>8, <2>1, <2>2
<1>11. CASE Overrides(o, p.id)
  <2>1. p.seq = 1
    BY <1>1, <1>10, <1>11 DEF Overrides
  <2>2. QED
    BY <1>0, <1>6, <1>9, <1>11, <2>1
<1>12. CASE ~Overrides(o, p.id)
  <2>1. ~o.is_free /\ ~(o.read_msg_ID < p.id)
    BY <1>12 DEF Overrides
  <2>2. o.module_id = p.module
    BY <1>7, <1>8, <2>1
  <2>3. o.read_msg_ID <= p.id /\ o.read_msg_ID \in Nat
    BY <1>2, <1>7, <1>8, <2>1, <2>2, UdpConstants DEF Newest, ReadBuffer
  <2>4. o.read_msg_ID = p.id
    BY <1>1, <2>1, <2>3
  <2>5. Reading(o)
    BY <1>2, <1>7, <1>8, <2>1 DEF BuffersOK
  <2>6. p.seq # 1
    <3> SUFFICES ASSUME p.seq = 1
                 PROVE  FALSE
      OBVIOUS
    <3>1. PICK R \in SUBSET (1..Packets[p.id]) :
            /\ Cardinality(R) = o.recieved_packets
            /\ \A c \in R : Gone(p.module, p.id, c)
      BY <2>2, <2>4, <2>5 DEF Reading
    <3>2. R = {}
      BY <1>1, <1>6, <3>1
    <3>3. o.recieved_packets = 0
      BY <3>1, <3>2, FS_EmptySet
    <3>4. QED
      BY <2>5, <3>3 DEF Reading
  <2>7. o.recieved_packets = p.seq - 1 /\ o.msg_packet_number = Packets[p.id]
    BY <1>10, <2>4, <2>5, <2>6 DEF Reading
  <2>8. buf.recieved_packets = p.seq
    BY <1>1, <1>9, <1>12, <2>4, <2>7
  <2>9. QED
    BY <1>6, <1>9, <1>12, <2>2, <2>4, <2>7, <2>8
<1>13. QED
  BY <1>11, <1>12

(* What was there of the other messages is there still.                    *)
LEMMA OthersStay ==
  ASSUME UdpInv, ArriveInv, InOrder, 1 \in DOMAIN network, NEW p, p = network[1],
         p \in PacketSet, UNCHANGED <<ordered, lost>>,
         Candidates(p.module) # {}, NEW b, b = Min(Candidates(p.module)),
         DOMAIN read_msgs' = DOMAIN read_msgs,
         \A c \in DOMAIN read_msgs : c # b => read_msgs'[c] = read_msgs[c],
         NEW n \in Module, NEW i \in Id, n # p.module \/ i # p.id,
         \A c \in 1..Packets[i] : Gone(n, i, c)' <=> Gone(n, i, c),
         IsConsumed(n, i) => IsConsumed(n, i)'
  PROVE  Stage(n, i)'
<1>1. p.module \in Module /\ p.id \in Id /\ p.id \in Nat /\ i \in Nat /\ Packets[i] \in Nat
  BY UdpConstants DEF PacketSet
<1>2. /\ b \in DOMAIN read_msgs
      /\ read_msgs[b].module_id = p.module \/ read_msgs[b].is_free
  BY <1>1, CandidateFits
<1>3. Stage(n, i) /\ Newest
  BY DEF ArriveInv
<1>4. CASE LostOf(n, i) \/ IsConsumed(n, i)
  BY <1>4 DEF Stage, LostOf
<1>5. ASSUME NEW k \in 1..Packets[i], ReadUpTo(n, i, k)
      PROVE  Stage(n, i)'
  <2>1. k = 1 \/ HasRead(n, i, k - 1)'
    <3>1. SUFFICES ASSUME k # 1
                   PROVE  HasRead(n, i, k - 1)'
      OBVIOUS
    <3>2. PICK d \in DOMAIN read_msgs :
            /\ read_msgs[d].module_id = n /\ ~read_msgs[d].is_free
            /\ read_msgs[d].read_msg_ID = i /\ read_msgs[d].recieved_packets = k - 1
      BY <1>5, <3>1 DEF ReadUpTo, HasRead
    <3>3. ASSUME d = b
          PROVE  FALSE
      <4>1. n = p.module /\ i # p.id
        BY <1>2, <3>2, <3>3
      <4>2. i < p.id
        BY <1>1, <1>3, <3>2, <4>1 DEF Newest
      <4>3. Gone(n, i, k)
        BY <4>1, <4>2, FirstIsNext
      <4>4. QED
        BY <1>1, <1>5, <4>3 DEF ReadUpTo
    <3>4. d \in DOMAIN read_msgs' /\ read_msgs'[d] = read_msgs[d]
      BY <3>3
    <3>5. QED
      BY <3>2, <3>4 DEF HasRead
  <2>2. \A c \in 1..Packets[i] : Gone(n, i, c)' <=> c < k
    BY <1>5 DEF ReadUpTo
  <2>3. ReadUpTo(n, i, k)'
    BY <2>1, <2>2 DEF ReadUpTo
  <2>4. QED
    BY <2>3 DEF Stage
<1>6. QED
  BY <1>3, <1>4, <1>5 DEF Stage

LEMMA InOrderKeeps ==
  ASSUME UdpInv, ArriveInv, InOrder, 1 \in DOMAIN network, NEW p, p = network[1],
         network' = RemoveAt(network, 1), UNCHANGED <<ordered, msg_id, sent_count, lost>>,
         Candidates(p.module) # {}, NEW b, b = Min(Candidates(p.module)),
         read_msgs' = [read_msgs EXCEPT ![b] = Freed(Inserted(read_msgs[b], p))],
         udpConsumed' = Consumption(Inserted(read_msgs[b], p))
  PROVE  Newest' /\ \A n \in Module, i \in Id : Stage(n, i)'
<1>1. /\ p \in PacketSet /\ p.module \in Module /\ p.id \in Id /\ p.total = Packets[p.id]
      /\ p.seq \in 1..Packets[p.id] /\ ~Gone(p.module, p.id, p.seq)
      /\ \A j \in DOMAIN network' : \E q \in DOMAIN network : q # 1 /\ network'[j] = network[q]
      /\ \A n \in Module, i \in Id : \A c \in 1..Packets[i] :
           Gone(n, i, c)' <=> Gone(n, i, c) \/ (n = p.module /\ i = p.id /\ c = p.seq)
  BY RemovalEffect
<1>2. PICK buf : buf = Inserted(read_msgs[b], p)
  OBVIOUS
<1>3. /\ b \in DOMAIN read_msgs /\ DOMAIN read_msgs' = DOMAIN read_msgs
      /\ read_msgs'[b] = Freed(buf)
      /\ \A c \in DOMAIN read_msgs : c # b => read_msgs'[c] = read_msgs[c]
      /\ Complete(buf) => IsConsumed(p.module, p.id)'
      /\ \A n \in Module, i \in Id : IsConsumed(n, i) => IsConsumed(n, i)'
  BY <1>2, ReadEffect
<1>4. Newest /\ NetworkOK /\ UdpTypes
  BY DEF ArriveInv, UdpInv
<1>5. ASSUME NEW n \in Module, NEW i \in Id
      PROVE  Stage(n, i)'
  <2>1. CASE n # p.module \/ i # p.id
    BY <1>1, <1>3, <2>1, OthersStay
  <2>2. CASE LostOf(p.module, p.id) /\ n = p.module /\ i = p.id
    BY <2>2 DEF Stage, LostOf
  <2>3. CASE ~LostOf(p.module, p.id) /\ n = p.module /\ i = p.id
    <3>1. /\ buf \in ReadBuffer /\ buf.module_id = n /\ buf.read_msg_ID = i
          /\ buf.is_free = FALSE /\ buf.recieved_packets = p.seq
          /\ buf.msg_packet_number = Packets[i]
          /\ \A c \in 1..Packets[i] : Gone(n, i, c) <=> c < p.seq
      <4>1. ~LostOf(p.module, p.id)
        BY <2>3
      <4>2. /\ buf \in ReadBuffer /\ buf.module_id = p.module /\ buf.read_msg_ID = p.id
            /\ buf.is_free = FALSE /\ buf.recieved_packets = p.seq
            /\ buf.msg_packet_number = Packets[p.id]
            /\ \A c \in 1..Packets[p.id] : Gone(p.module, p.id, c) <=> c < p.seq
        BY <1>2, <4>1, NextPacket
      <4>3. QED
        BY <2>3, <4>2
    <3>2. Complete(buf) <=> p.seq = Packets[i]
      BY <3>1 DEF Complete
    <3>3. CASE p.seq = Packets[i]
      BY <1>3, <2>3, <3>2, <3>3 DEF Stage
    <3>4. CASE p.seq # Packets[i]
      <4>1. p.seq + 1 \in 1..Packets[i] /\ p.seq \in Nat /\ p.seq + 1 - 1 = p.seq
        BY <1>1, <2>3, <3>4, UdpConstants
      <4>2. HasRead(n, i, p.seq)'
        <5>1. /\ Freed(buf).module_id = n /\ ~Freed(buf).is_free /\ Freed(buf).read_msg_ID = i
              /\ Freed(buf).recieved_packets = p.seq
          BY <3>1, <3>2, <3>4, FreedFields
        <5>2. QED
          BY <1>3, <5>1 DEF HasRead
      <4>3. \A c \in 1..Packets[i] : Gone(n, i, c)' <=> c < p.seq + 1
        BY <1>1, <2>3, <3>1, <4>1
      <4>4. ReadUpTo(n, i, p.seq + 1)'
        BY <4>1, <4>2, <4>3 DEF ReadUpTo
      <4>5. QED
        BY <4>1, <4>4 DEF Stage
    <3>5. QED
      BY <3>3, <3>4
  <2>4. QED
    BY <2>1, <2>2, <2>3
<1>6. ASSUME NEW d \in DOMAIN read_msgs, NEW j \in DOMAIN network',
             ~read_msgs'[d].is_free, network'[j].module = read_msgs'[d].module_id
      PROVE  read_msgs'[d].read_msg_ID <= network'[j].id
  <2>1. PICK q \in DOMAIN network : q # 1 /\ network'[j] = network[q]
    BY <1>1
  <2>2. CASE d # b
    BY <1>3, <1>4, <1>6, <2>1, <2>2 DEF Newest
  <2>3. CASE d = b
    <3>1. /\ buf.module_id = p.module /\ buf.read_msg_ID = p.id
          /\ Freed(buf).module_id = p.module /\ Freed(buf).read_msg_ID = p.id
      <4>1. buf \in ReadBuffer /\ buf.module_id = p.module /\ buf.read_msg_ID = p.id
        BY <1>1, <1>2, <1>4, InsertedNow
      <4>2. QED
        BY <4>1, FreedFields
    <3>2. network[q].module = p.module /\ 1 < q /\ network[q] \in PacketSet
      <4>1. q \in Nat \ {0} /\ network[q] \in PacketSet
        BY <1>4 DEF UdpTypes
      <4>2. QED
        BY <1>3, <1>6, <2>1, <2>3, <3>1, <4>1
    <3>3. Earlier(p, network[q])
      BY <1>4, <3>2 DEF NetworkOK
    <3>4. p.id <= network[q].id
      BY <1>1, <3>2, <3>3, UdpConstants DEF Earlier, PacketSet
    <3>5. QED
      BY <1>3, <2>1, <2>3, <3>1, <3>4
  <2>4. QED
    BY <2>2, <2>3
<1>7. Newest'
  BY <1>3, <1>6 DEF Newest
<1>8. QED
  BY <1>5, <1>7

LEMMA UdpReadKeeps ==
  ASSUME UdpInv, ArriveInv, UDPRead
  PROVE  UdpInv' /\ ArriveInv'
<1>1. PICK k \in DOMAIN network :
        /\ ordered => k = 1
        /\ \/ /\ Candidates(network[k].module) # {}
              /\ read_msgs' = [read_msgs EXCEPT ![Min(Candidates(network[k].module))] =
                   Freed(Inserted(read_msgs[Min(Candidates(network[k].module))], network[k]))]
              /\ udpConsumed' =
                   Consumption(Inserted(read_msgs[Min(Candidates(network[k].module))], network[k]))
           \/ Candidates(network[k].module) = {} /\ UNCHANGED <<read_msgs, udpConsumed>>
        /\ network' = RemoveAt(network, k)
        /\ UNCHANGED <<ordered, msg_id, sent_count, lost>>
  <2>1. PICK k \in DOMAIN network :
    /\ ordered => k = 1
    /\ LET p == network[k] IN
         \/ /\ Candidates(p.module) # {}
            /\ LET b == Min(Candidates(p.module))
                   buf == Inserted(read_msgs[b], p) IN
                 /\ read_msgs' = [read_msgs EXCEPT ![b] =
                                    [buf EXCEPT !.is_free = @ \/ Complete(buf)]]
                 /\ udpConsumed' = Consumption(buf)
         \/ /\ Candidates(p.module) = {}
            /\ UNCHANGED <<read_msgs, udpConsumed>>
    /\ network' = RemoveAt(network, k)
    /\ UNCHANGED <<ordered, msg_id, sent_count, lost>>
    BY DEF UDPRead
  <2>2. QED
    BY <2>1 DEF Freed
<1>2. PICK p, b : p = network[k] /\ b = Min(Candidates(p.module))
  OBVIOUS
<1>3. /\ p \in PacketSet /\ p.module \in Module /\ p.id \in Id
      /\ network' \in Seq(PacketSet) /\ NetworkOK'
      /\ \A j \in DOMAIN network' : \E q \in DOMAIN network : q # k /\ network'[j] = network[q]
      /\ \A n \in Module, i \in Id : \A c \in 1..Packets[i] :
           Gone(n, i, c)' <=> Gone(n, i, c) \/ (n = p.module /\ i = p.id /\ c = p.seq)
  BY <1>1, <1>2, RemovalEffect
<1>4. \A n \in Module, i \in Id : \A c \in 1..Packets[i] : Gone(n, i, c) => Gone(n, i, c)'
  BY <1>3
<1>5. CASE Candidates(p.module) = {}
  <2>1. UNCHANGED <<read_msgs, udpConsumed>>
    BY <1>1, <1>2, <1>5
  <2>2. UdpTypes'
    BY <1>1, <1>3, <2>1 DEF UdpInv, UdpTypes
  <2>3. UdpInv'
    BY <1>1, <1>3, <1>4, <2>1, <2>2, NoBufferKeeps
  <2>4. ~InOrder
    BY <1>3, <1>5, BufferFound DEF InOrder
  <2>5. ~InOrder'
    BY <1>1, <2>1, <2>4 DEF InOrder
  <2>6. QED
    BY <2>3, <2>5 DEF ArriveInv
<1>6. CASE Candidates(p.module) # {}
  <2>1. /\ read_msgs' = [read_msgs EXCEPT ![b] = Freed(Inserted(read_msgs[b], p))]
        /\ udpConsumed' = Consumption(Inserted(read_msgs[b], p))
    BY <1>1, <1>2, <1>6
  <2>2. UdpInv' /\ DOMAIN read_msgs' = DOMAIN read_msgs
    BY <1>1, <1>2, <1>6, <2>1, ReadEffect
  <2>3. ASSUME InOrder'
        PROVE  Newest' /\ \A n \in Module, i \in Id : Stage(n, i)'
    <3>1. /\ read_msgs \in Seq(ReadBuffer) /\ read_msgs' \in Seq(ReadBuffer)
      BY <2>2 DEF UdpInv, UdpTypes
    <3>2. Len(read_msgs') = Len(read_msgs)
      BY <2>2, <3>1
    <3>3. InOrder
      BY <1>1, <2>3, <3>2 DEF InOrder
    <3>4. k = 1
      BY <1>1, <3>3 DEF InOrder
    <3>5. QED
      BY <1>1, <1>2, <1>6, <2>1, <3>3, <3>4, InOrderKeeps
  <2>4. ArriveInv'
    BY <2>3 DEF ArriveInv
  <2>5. QED
    BY <2>2, <2>4
<1>7. QED
  BY <1>5, <1>6

LEMMA UdpKept == UdpInv /\ ArriveInv /\ [UdpNext]_udpVars => UdpInv' /\ ArriveInv'
<1>1. ASSUME UdpInv, ArriveInv, UNCHANGED udpVars
      PROVE  UdpInv' /\ ArriveInv'
  <2>1. UNCHANGED <<ordered, msg_id, sent_count, network, lost, read_msgs, udpConsumed>>
    BY <1>1 DEF udpVars
  <2>2. \A n, i, c : Gone(n, i, c)' <=> Gone(n, i, c)
    BY <2>1 DEF Gone, WasSent, Travels
  <2>3. \A n, i, r : /\ HasRead(n, i, r)' <=> HasRead(n, i, r)
                     /\ IsConsumed(n, i)' <=> IsConsumed(n, i)
                     /\ LostOf(n, i)' <=> LostOf(n, i)
    BY <2>1 DEF HasRead, IsConsumed, IsMessage, LostOf
  <2>4. UdpTypes' /\ NetworkOK'
    BY <1>1, <2>1 DEF UdpInv, UdpTypes, NetworkOK, WasSent
  <2>5. UdpInv'
    BY <1>1, <2>1, <2>2, <2>4, NoBufferKeeps
  <2>6. \A n, i : Stage(n, i)' <=> Stage(n, i)
    BY <2>2, <2>3 DEF Stage, ReadUpTo
  <2>7. ArriveInv'
    BY <1>1, <2>1, <2>6 DEF ArriveInv, InOrder, Newest
  <2>8. QED
    BY <2>5, <2>7
<1>2. ASSUME UdpInv, ArriveInv, UdpNext
      PROVE  UdpInv' /\ ArriveInv'
  BY <1>2, LoseKeeps, UdpReadKeeps, UdpWriteKeeps DEF UdpNext
<1>3. QED
  BY <1>1, <1>2
-----------------------------------------------------------------------------
(* Messages between platforms: their fragments.                            *)

Fragments(s, i) == NumberFragment(Sizes[s][i])
Begin(k) == (k - 1) * FragmentSize
End(s, i, k) == IF k = Fragments(s, i) THEN Sizes[s][i] ELSE k * FragmentSize
Byte == {<<s, i, k>> : s \in Sender, i \in Nat, k \in Nat}

(* The bytes of fragment k, and those of the first k fragments.            *)
Piece(s, i, k) == SubSeq(MessageBytes(s, i), Begin(k) + 1, End(s, i, k))
Prefix(s, i, k) == [q \in 1..End(s, i, k) |-> <<s, i, q>>]

(* Fragment k, when the counter given for the message was b.               *)
Fragment(s, i, k, b) ==
  [msg_part |-> MsgPart(k, Fragments(s, i)), id |-> s, counter |-> b + k, payload |-> Piece(s, i, k)]

(* The fragments before the last one are full.                             *)
LEMMA NumberOfFragments ==
  ASSUME NEW size \in Nat \ {0}
  PROVE  /\ NumberFragment(size) \in 1..size
         /\ \A k \in 0..(NumberFragment(size) - 1) :
              k * FragmentSize \in Nat /\ k * FragmentSize < size
<1> DEFINE n == NumberFragment(size)
           q == size \div FragmentSize
           r == size % FragmentSize
<1> PICK f \in Nat \ {0} : f = FragmentSize
  BY EliAssumption
<1>1. q \in Nat /\ r \in Nat /\ size = f * q + r /\ r < f
  OBVIOUS
<1>2. n = IF size < f THEN 1 ELSE q + (IF r = 0 THEN 0 ELSE 1)
  BY DEF NumberFragment
<1> HIDE DEF n, q, r
<1>3. f * (q - 1) = f * q - f
  BY <1>1
<1>4. CASE size < f
  <2>1. n = 1 /\ 0 * f = 0 /\ \A k \in 0..(n - 1) : k = 0
    BY <1>2, <1>4
  <2>2. QED
    BY <2>1 DEF n
<1>5. CASE ~(size < f)
  <2>1. q # 0
    BY <1>1, <1>5
  <2>2. n \in Nat \ {0} /\ ((n - 1 = q - 1 /\ r = 0) \/ (n - 1 = q /\ r > 0))
    <3> HIDE <1>1
    <3>0. q \in Nat \ {0} /\ r \in Nat
      BY <1>1, <2>1
    <3>1. CASE r = 0
      <4>1. n = q + 0
        BY <1>2, <1>5, <3>1
      <4>2. QED
        BY <3>0, <3>1, <4>1
    <3>2. CASE r # 0
      <4>1. n = q + 1
        BY <1>2, <1>5, <3>2
      <4>2. QED
        BY <3>0, <3>2, <4>1
    <3>3. QED
      BY <3>1, <3>2
  <2>3. (n - 1) * f < size
    BY <1>1, <1>3, <2>2
  <2>4. ASSUME NEW k \in 0..(n - 1)
        PROVE  k * f \in Nat /\ k * f < size /\ k <= k * f
    <3>1. k \in Nat /\ (n - 1) - k \in Nat
      BY <2>2
    <3>2. k * f \in Nat /\ ((n - 1) - k) * f \in Nat
      BY <3>1
    <3>3. k * f + ((n - 1) - k) * f = (n - 1) * f
      BY <2>2, <3>1
    <3>4. k * f = k + k * (f - 1) /\ k * (f - 1) \in Nat
      BY <3>1
    <3>5. (n - 1) * f \in Nat
      BY <2>2
    <3>6. QED
      BY <2>3, <3>1, <3>2, <3>3, <3>4, <3>5
  <2>5. n - 1 < size
    BY <2>2, <2>4
  <2>6. QED
    BY <2>2, <2>4, <2>5 DEF n
<1>6. QED
  BY <1>4, <1>5

LEMMA Cut ==
  ASSUME NEW s \in Sender, NEW i \in 1..Len(Sizes[s])
  PROVE  /\ Sizes[s][i] \in 1..BufferSize /\ BufferSize \in Nat
         /\ Fragments(s, i) \in 1..Sizes[s][i]
         /\ \A k \in 1..Fragments(s, i) :
              /\ Begin(k) \in Nat /\ End(s, i, k) \in 1..Sizes[s][i] /\ Begin(k) < End(s, i, k)
              /\ k # 1 => End(s, i, k - 1) = Begin(k)
         /\ Begin(1) = 0
<1>1. Sizes[s][i] \in 1..BufferSize /\ BufferSize \in Nat /\ FragmentSize \in Nat \ {0}
  BY EliAssumption
<1> DEFINE size == Sizes[s][i]
           n == Fragments(s, i)
<1>2. size \in Nat \ {0}
  BY <1>1
<1>3. n \in 1..size /\ \A k \in 0..(n - 1) : k * FragmentSize \in Nat /\ k * FragmentSize < size
  BY <1>2, NumberOfFragments DEF Fragments
<1> HIDE DEF size, n
<1>4. ASSUME NEW k \in 1..n
      PROVE  /\ Begin(k) \in Nat /\ End(s, i, k) \in 1..size /\ Begin(k) < End(s, i, k)
             /\ k # 1 => End(s, i, k - 1) = Begin(k)
  <2>1. k - 1 \in 0..(n - 1) /\ n \in Nat /\ k \in Nat
    BY <1>2, <1>3
  <2>2. Begin(k) \in Nat /\ Begin(k) < size
    BY <1>3, <2>1 DEF Begin
  <2>3. k # 1 => End(s, i, k - 1) = Begin(k)
    BY <2>1 DEF End, Begin, n
  <2>4. CASE k = n
    BY <1>2, <2>2, <2>3, <2>4 DEF End, n, size
  <2>5. CASE k # n
    <3>1. k \in 0..(n - 1)
      BY <2>1, <2>5
    <3>2. k * FragmentSize \in Nat /\ k * FragmentSize < size
      BY <1>3, <3>1
    <3>3. k * FragmentSize = Begin(k) + FragmentSize
      BY <1>1, <2>1 DEF Begin
    <3>4. End(s, i, k) = k * FragmentSize
      BY <2>5 DEF End, n
    <3>5. PICK x : x = k * FragmentSize
      OBVIOUS
    <3>6. x \in Nat /\ x < size /\ x = Begin(k) + FragmentSize /\ End(s, i, k) = x
      BY <3>2, <3>3, <3>4, <3>5
    <3>7. QED
      BY <1>1, <1>2, <2>2, <2>3, <3>6
  <2>6. QED
    BY <2>4, <2>5
<1>5. Begin(1) = 0
  BY <1>1 DEF Begin
<1>6. QED
  BY <1>1, <1>3, <1>4, <1>5 DEF size, n

(* The bytes of a fragment.                                                *)
LEMMA PieceIs ==
  ASSUME NEW s \in Sender, NEW i \in 1..Len(Sizes[s]), NEW k \in 1..Fragments(s, i)
  PROVE  /\ Piece(s, i, k) \in Seq(Byte)
         /\ Len(Piece(s, i, k)) = End(s, i, k) - Begin(k)
         /\ \A q \in 1..Len(Piece(s, i, k)) : Piece(s, i, k)[q] = <<s, i, Begin(k) + q>>
         /\ 1 \in DOMAIN Piece(s, i, k)
         /\ Piece(s, i, k)[1] = <<s, i, Begin(k) + 1>>
<1> PICK a, b, l : a = Begin(k) /\ b = End(s, i, k) /\ l = Sizes[s][i]
  OBVIOUS
<1>1. a \in Nat /\ b \in 1..l /\ a < b /\ l \in Nat
  BY Cut
<1> DEFINE m == MessageBytes(s, i)
           p == SubSeq(m, a + 1, b)
<1>2. \A q \in 1..l : m[q] = <<s, i, q>> /\ m[q] \in Byte
  BY <1>1, EliAssumption DEF MessageBytes, Byte
<1> HIDE DEF m
<1>3. a + 1 \in Int /\ b \in Int /\ \A q \in (a + 1)..b : m[q] \in Byte
  BY <1>1, <1>2
<1>4. /\ p \in Seq(Byte) /\ Len(p) = IF a + 1 <= b THEN b - (a + 1) + 1 ELSE 0
      /\ \A q \in 1 .. b - (a + 1) + 1 : p[q] = m[a + 1 + q - 1]
  BY <1>3, SubSeqProperties
<1>5. b - (a + 1) + 1 = b - a /\ a + 1 <= b
  BY <1>1
<1> HIDE DEF p
<1>6. \A q \in 1..(b - a) : a + 1 + q - 1 = a + q /\ a + q \in 1..l
  <2> SUFFICES ASSUME NEW q \in 1..(b - a)
               PROVE  a + 1 + q - 1 = a + q /\ a + q \in 1..l
    OBVIOUS
  <2>1. q \in Nat \ {0} /\ q <= b - a /\ b <= l /\ b \in Nat
    BY <1>1
  <2>2. a + 1 + q - 1 = a + q
    BY <1>1, <2>1
  <2>3. a + q \in Nat /\ a + q >= 1 /\ a + q <= l
    BY <1>1, <2>1
  <2>4. QED
    BY <1>1, <2>2, <2>3
<1>7. Len(p) = b - a /\ \A q \in 1..(b - a) : p[q] = <<s, i, a + q>>
  BY <1>2, <1>4, <1>5, <1>6
<1>8. 1 \in DOMAIN p
  BY <1>1, <1>4, <1>7
<1>9. p = Piece(s, i, k)
  BY DEF p, m, Piece
<1>10. Len(p) = b - a /\ \A q \in 1..Len(p) : p[q] = <<s, i, a + q>>
  BY <1>7
<1>11. p[1] = <<s, i, a + 1>>
  BY <1>1, <1>7
<1>12. QED
  BY <1>4, <1>8, <1>9, <1>10, <1>11

(* The fragments put one after the other.                                  *)
LEMMA PrefixGrows ==
  ASSUME NEW s \in Sender, NEW i \in 1..Len(Sizes[s]), NEW k \in 1..Fragments(s, i)
  PROVE  /\ Prefix(s, i, k) \in Seq(Byte) /\ Len(Prefix(s, i, k)) = End(s, i, k)
         /\ Len(Prefix(s, i, k)) \in 1..BufferSize /\ Prefix(s, i, k)[1] = <<s, i, 1>>
         /\ k = 1 => <<>> \o Piece(s, i, k) = Prefix(s, i, k)
         /\ k # 1 => Prefix(s, i, k - 1) \o Piece(s, i, k) = Prefix(s, i, k)
         /\ k = Fragments(s, i) => Prefix(s, i, k) = MessageBytes(s, i)
<1> PICK a, b, p, f : /\ a = Begin(k) /\ b = End(s, i, k)
                      /\ p = Piece(s, i, k) /\ f = Prefix(s, i, k)
  OBVIOUS
<1>1. /\ a \in Nat /\ b \in 1..BufferSize /\ a < b /\ b \in Nat
      /\ k = 1 => a = 0
      /\ k # 1 => End(s, i, k - 1) = a
  BY Cut
<1>2. \A q \in Nat : <<s, i, q>> \in Byte
  BY EliAssumption DEF Byte
<1>3. f = [q \in 1..b |-> <<s, i, q>>]
  BY DEF Prefix
<1>4. f \in Seq(Byte) /\ Len(f) = b /\ f[1] = <<s, i, 1>>
  <2>1. f \in [1..b -> Byte] /\ 1 \in 1..b
    BY <1>1, <1>2, <1>3
  <2>2. f \in Seq(Byte) /\ Len(f) = b
    BY <1>1, <2>1
  <2>3. f[1] = <<s, i, 1>>
    BY <1>3, <2>1
  <2>4. QED
    BY <2>2, <2>3
<1>5. p \in Seq(Byte) /\ Len(p) = b - a /\ \A q \in 1..(b - a) : p[q] = <<s, i, a + q>>
  BY PieceIs
<1>6. ASSUME NEW g \in Seq(Byte), Len(g) = a, \A q \in 1..a : g[q] = <<s, i, q>>
      PROVE  g \o p = f
  <2>1. g \o p \in Seq(Byte) /\ Len(g \o p) = b
    <3>1. g \o p \in Seq(Byte) /\ Len(g \o p) = Len(g) + Len(p)
      BY <1>5, <1>6
    <3>2. QED
      BY <1>1, <1>5, <1>6, <3>1
  <2>2. ASSUME NEW q \in 1..b
        PROVE  (g \o p)[q] = f[q]
    <3>1. CASE q <= a
      BY <1>1, <1>3, <1>5, <1>6, <3>1
    <3>2. CASE ~(q <= a)
      <4>1. q - a \in 1..(b - a) /\ a + (q - a) = q
        BY <1>1, <3>2
      <4>2. (g \o p)[q] = p[q - a]
        <5>1. q \in 1..(Len(g) + Len(p)) /\ q > Len(g)
          BY <1>1, <1>5, <1>6, <3>2
        <5>2. (g \o p)[q] = p[q - Len(g)]
          BY <1>5, <1>6, <5>1
        <5>3. QED
          BY <1>6, <5>2
      <4>3. QED
        BY <1>3, <1>5, <4>1, <4>2
    <3>3. QED
      BY <3>1, <3>2
  <2>3. QED
    BY <1>4, <2>1, <2>2, SeqEqual
<1>7. k = 1 => <<>> \o p = f
  <2>1. <<>> \in Seq(Byte) /\ Len(<<>>) = 0 /\ (\A q \in 1..0 : <<>>[q] = <<s, i, q>>)
    OBVIOUS
  <2>2. QED
    BY <1>1, <1>6, <2>1
<1>8. k # 1 => Prefix(s, i, k - 1) \o p = f
  <2> SUFFICES ASSUME k # 1
               PROVE  Prefix(s, i, k - 1) \o p = f
    OBVIOUS
  <2>1. Prefix(s, i, k - 1) = [q \in 1..a |-> <<s, i, q>>]
    BY <1>1 DEF Prefix
  <2>2. PICK g : g = [q \in 1..a |-> <<s, i, q>>]
    OBVIOUS
  <2>3. g \in Seq(Byte) /\ Len(g) = a /\ \A q \in 1..a : g[q] = <<s, i, q>>
    BY <1>1, <1>2, <2>2
  <2>4. QED
    BY <1>6, <2>1, <2>2, <2>3
<1>9. k = Fragments(s, i) => f = MessageBytes(s, i)
  BY <1>3 DEF End, MessageBytes
<1>10. QED
  BY <1>1, <1>4, <1>7, <1>8, <1>9

LEMMA SentNumbers ==
  ASSUME NEW s \in Sender, NEW i \in 1..Len(Sizes[s])
  PROVE  i \in Nat /\ Fragments(s, i) \in Nat \ {0} /\ \A k \in 1..Fragments(s, i) : k \in Nat
<1>1. Fragments(s, i) \in 1..Sizes[s][i] /\ Sizes[s][i] \in 1..BufferSize /\ BufferSize \in Nat
  BY Cut
<1>2. Len(Sizes[s]) \in Nat
  BY EliAssumption
<1>3. QED
  BY <1>1, <1>2

LEMMA SameProduct ==
  ASSUME NEW f \in Nat \ {0}, NEW x \in Nat, NEW y \in Nat, x * f = y * f
  PROVE  x = y
<1>1. ASSUME NEW a \in Nat, NEW b \in Nat, a > b
      PROVE  a * f > b * f
  <2>1. a - b \in Nat /\ a - b > 0
    BY <1>1
  <2>2. (a - b) * f = (a - b) + (a - b) * (f - 1) /\ (a - b) * (f - 1) \in Nat
    BY <2>1
  <2>3. (a - b) * f + b * f = a * f
    BY <2>1
  <2>4. b * f \in Nat /\ (a - b) * f \in Nat /\ (a - b) * f > 0
    BY <2>1, <2>2
  <2>5. QED
    BY <2>3, <2>4
<1>2. x * f \in Nat /\ y * f \in Nat
  OBVIOUS
<1>3. ~(x > y) /\ ~(y > x)
  BY <1>1, <1>2
<1>4. QED
  BY <1>3

(* The bytes of a fragment tell its message and its place.                 *)
LEMMA PiecesDiffer ==
  ASSUME NEW s \in Sender, NEW i \in 1..Len(Sizes[s]), NEW k \in 1..Fragments(s, i),
         NEW t \in Sender, NEW j \in 1..Len(Sizes[t]), NEW l \in 1..Fragments(t, j),
         Piece(s, i, k) = Piece(t, j, l)
  PROVE  s = t /\ i = j /\ k = l
<1>1. /\ Piece(s, i, k)[1] = <<s, i, Begin(k) + 1>>
      /\ Piece(t, j, l)[1] = <<t, j, Begin(l) + 1>>
  BY PieceIs
<1>2. s = t /\ i = j /\ Begin(k) + 1 = Begin(l) + 1
  BY <1>1
<1>3. Begin(k) \in Nat /\ Begin(l) \in Nat
  BY Cut
<1>4. Begin(k) = Begin(l)
  BY <1>2, <1>3
<1>5. k - 1 \in Nat /\ l - 1 \in Nat /\ k \in Nat /\ l \in Nat
  BY SentNumbers
<1>6. FragmentSize \in Nat \ {0}
  BY EliAssumption
<1>7. (k - 1) * FragmentSize = (l - 1) * FragmentSize
  BY <1>4 DEF Begin
<1>8. k - 1 = l - 1
  BY <1>5, <1>6, <1>7, SameProduct
<1>9. QED
  BY <1>2, <1>5, <1>8

(* The fields of a fragment.                                               *)
LEMMA FragmentIs ==
  ASSUME NEW s \in Sender, NEW i \in 1..Len(Sizes[s]), NEW k \in 1..Fragments(s, i), NEW b
  PROVE  LET d == Fragment(s, i, k, b) IN
         /\ d.id = s /\ d.counter = b + k /\ d.payload = Piece(s, i, k)
         /\ StartsMessage(d) <=> k = 1
         /\ d.msg_part \in {"FULL", "END"} <=> k = Fragments(s, i)
<1> PICK n : n = Fragments(s, i)
  OBVIOUS
<1>1. n \in Nat \ {0} /\ k \in Nat /\ k >= 1 /\ k <= n
  BY SentNumbers
<1> PICK d : d = Fragment(s, i, k, b)
  OBVIOUS
<1>2. /\ d.id = s /\ d.counter = b + k /\ d.payload = Piece(s, i, k)
      /\ d.msg_part = MsgPart(k, n)
  BY DEF Fragment
<1>3. MsgPart(k, n) = IF n = 1 THEN "FULL" ELSE IF k = 1 THEN "BEGIN" ELSE IF k = n THEN "END" ELSE "MIDDLE"
  BY <1>1 DEF MsgPart
<1>4. CASE n = 1
  BY <1>1, <1>2, <1>3, <1>4 DEF StartsMessage
<1>5. CASE n # 1 /\ k = 1
  BY <1>1, <1>2, <1>3, <1>5 DEF StartsMessage
<1>6. CASE n # 1 /\ k # 1 /\ k = n
  BY <1>1, <1>2, <1>3, <1>6 DEF StartsMessage
<1>7. CASE n # 1 /\ k # 1 /\ k # n
  BY <1>1, <1>2, <1>3, <1>7 DEF StartsMessage
<1>8. QED
  BY <1>4, <1>5, <1>6, <1>7
-----------------------------------------------------------------------------
(* What a link between platforms holds.                                    *)

(* The counters that a datagram can carry.                                 *)
EliCounter == 0..65535
Wrapped(a) == a % 65536

EliPart == {"FULL", "BEGIN", "END", "MIDDLE"}
EliDatagram == [msg_part : EliPart, id : Sender, counter : EliCounter, payload : Seq(Byte) \ {<<>>}]
EliBuffer == {b \in Seq(Byte) : Len(b) <= BufferSize}
EliChannel == [is_used : BOOLEAN, id : Sender \cup {0}, counter : EliCounter, buffer : EliBuffer]

EliTypes ==
  /\ counting \in DOMAIN LostWhen
  /\ sent \in [Sender -> Nat] /\ \A s \in Sender : sent[s] <= Len(Sizes[s])
  /\ counter \in [Sender -> Nat] /\ toSend \in [Sender -> Seq(EliDatagram)]
  /\ datagrams \in Seq(EliDatagram)
  /\ IsFiniteSet(lostDatagrams) /\ Cardinality(lostDatagrams) <= LostWhen[counting]
  /\ channels \in Seq(EliChannel) /\ received \in Seq(EliBuffer)

LEMMA CounterRange ==
  /\ 0 \in EliCounter /\ EliCounter \subseteq Nat
  /\ \A a \in Nat : Wrapped(a) \in EliCounter /\ (a \in EliCounter => Wrapped(a) = a)
  /\ \A a \in Nat, b \in EliCounter : a <= b => a \in EliCounter
<1> DEFINE n == 65535
<1>1. n \in Nat /\ EliCounter = 0..n
  BY SMT DEF EliCounter
<1> HIDE DEF n
<1>2. ASSUME NEW a \in Nat
      PROVE  Wrapped(a) \in Nat /\ Wrapped(a) <= n /\ (a <= n => Wrapped(a) = a)
  <2>1. Wrapped(a) \in Int /\ Wrapped(a) <= 65535 /\ 0 <= Wrapped(a)
    BY SMT DEF Wrapped
  <2>2. a <= 65535 => Wrapped(a) = a
    BY SMT DEF Wrapped
  <2>3. n = 65535
    BY SMT DEF n
  <2>4. QED
    BY <2>1, <2>2, <2>3, SMT
<1>3. QED
  BY <1>1, <1>2

LEMMA EliTypesGive == EliTypes => EliTypeOK
<1> SUFFICES ASSUME EliTypes
             PROVE  EliTypeOK
  OBVIOUS
<1>1. ASSUME NEW s \in Sender
      PROVE  sent[s] \in 0..Len(Sizes[s])
  BY EliAssumption DEF EliTypes
<1>2. ASSUME NEW c \in DOMAIN channels
      PROVE  /\ channels[c].is_used \in BOOLEAN /\ channels[c].id \in Sender \cup {0}
             /\ channels[c].counter \in EliCounter /\ Len(channels[c].buffer) <= BufferSize
  <2>1. channels[c] \in EliChannel
    BY DEF EliTypes
  <2>2. QED
    BY <2>1 DEF EliChannel, EliBuffer
<1>3. counting \in DOMAIN LostWhen
  BY DEF EliTypes
<1>4. QED
  <2> DEFINE Typed == \A c \in DOMAIN channels :
                        /\ channels[c].is_used \in BOOLEAN /\ channels[c].id \in Sender \cup {0}
                        /\ channels[c].counter \in EliCounter /\ Len(channels[c].buffer) <= BufferSize
             Sent == \A s \in Sender : sent[s] \in 0..Len(Sizes[s])
  <2>1. Typed /\ Sent
    BY <1>1, <1>2
  <2>2. EliTypeOK <=> counting \in DOMAIN LostWhen /\ Sent /\ Typed
    BY SMT DEF EliTypeOK, EliCounter
  <2>3. QED
    BY <1>3, <2>1, <2>2

LEMMA EliTypesInitially == EliInit => EliTypes
<1> SUFFICES ASSUME EliInit
             PROVE  EliTypes
  OBVIOUS
<1>1. PICK n \in 1..ChannelNum :
        channels = [c \in 1..n |-> [is_used |-> FALSE, id |-> 0, counter |-> 0, buffer |-> <<>>]]
  BY DEF EliInit
<1>2. n \in Nat /\ BufferSize \in Nat /\ FirstCounter \in Nat
  BY EliAssumption
<1>3. /\ counting \in DOMAIN LostWhen /\ sent = [s \in Sender |-> 0]
      /\ toSend = [s \in Sender |-> <<>>] /\ counter = [s \in Sender |-> FirstCounter]
      /\ datagrams = <<>> /\ lostDatagrams = {} /\ received = <<>>
  BY DEF EliInit
<1>4. <<>> \in EliBuffer
  BY <1>2 DEF EliBuffer
<1>5. [is_used |-> FALSE, id |-> 0, counter |-> 0, buffer |-> <<>>] \in EliChannel
  BY <1>4, CounterRange DEF EliChannel
<1>6. channels \in Seq(EliChannel)
  BY <1>1, <1>2, <1>5
<1>7. IsFiniteSet(lostDatagrams) /\ Cardinality(lostDatagrams) <= LostWhen[counting]
  <2>1. LostWhen[counting] \in Nat
    BY <1>3, EliAssumption
  <2>2. QED
    BY <1>3, <2>1, FS_EmptySet
<1>8. sent \in [Sender -> Nat] /\ \A s \in Sender : sent[s] <= Len(Sizes[s])
  BY <1>3, EliAssumption
<1>9. datagrams \in Seq(EliDatagram) /\ received \in Seq(EliBuffer)
      /\ toSend \in [Sender -> Seq(EliDatagram)]
  BY <1>3
<1>10. counter \in [Sender -> Nat]
  BY <1>2, <1>3
<1>11. QED
  BY <1>3, <1>6, <1>7, <1>8, <1>9, <1>10 DEF EliTypes

(* The datagrams of a message are its fragments.                           *)
LEMMA DatagramIs ==
  ASSUME counter \in [Sender -> Nat], NEW s \in Sender, NEW i \in 1..Len(Sizes[s]),
         NEW k \in 1..Fragments(s, i)
  PROVE  /\ Datagram(s, i, k, Fragments(s, i)) \in EliDatagram
         /\ counter[s] + k \in EliCounter =>
              Datagram(s, i, k, Fragments(s, i)) = Fragment(s, i, k, counter[s])
<1> PICK n, a, d : n = Fragments(s, i) /\ a = counter[s] /\ d = Datagram(s, i, k, Fragments(s, i))
  OBVIOUS
<1>1. n \in Nat /\ k \in Nat /\ a \in Nat
  BY SentNumbers
<1>2. d = [msg_part |-> MsgPart(k, n), id |-> s, counter |-> Wrapped(a + k),
           payload |-> Piece(s, i, k)]
  BY SMT DEF Datagram, Piece, Begin, End, Wrapped
<1>3. MsgPart(k, n) \in EliPart
  BY DEF MsgPart, EliPart
<1>4. Wrapped(a + k) \in EliCounter /\ (a + k \in EliCounter => Wrapped(a + k) = a + k)
  <2>1. a + k \in Nat
    BY <1>1
  <2>2. QED
    BY <2>1, CounterRange
<1>5. Piece(s, i, k) \in Seq(Byte) \ {<<>>}
  BY PieceIs
<1>6. d \in EliDatagram
  BY <1>2, <1>3, <1>4, <1>5 DEF EliDatagram
<1>7. a + k \in EliCounter => d = Fragment(s, i, k, a)
  BY <1>2, <1>4 DEF Fragment
<1>8. QED
  BY <1>6, <1>7

(* The steps of the senders and of the network.                            *)
LEMMA FragmentTyped ==
  ASSUME EliTypes, NEW s \in Sender, FragmentMessage(s)
  PROVE  EliTypes'
<1> PICK i, n : i = sent[s] + 1 /\ n = Fragments(s, i)
  OBVIOUS
<1>1. /\ sent[s] < Len(Sizes[s]) /\ sent' = [sent EXCEPT ![s] = i]
      /\ toSend' = [toSend EXCEPT ![s] = [k \in 1..n |-> Datagram(s, i, k, n)]]
      /\ counter' = IF counting = "continued" THEN [counter EXCEPT ![s] = @ + n] ELSE counter
      /\ UNCHANGED <<counting, datagrams, lostDatagrams, channels, received>>
  BY DEF FragmentMessage, Fragments
<1>2. sent[s] \in Nat /\ Len(Sizes[s]) \in Nat
  BY EliAssumption DEF EliTypes
<1>3. i \in 1..Len(Sizes[s])
  BY <1>1, <1>2
<1>4. n \in Nat
  BY <1>3, SentNumbers
<1>5. \A k \in 1..n : Datagram(s, i, k, n) \in EliDatagram
  BY <1>3, DatagramIs DEF EliTypes
<1>6. [k \in 1..n |-> Datagram(s, i, k, n)] \in Seq(EliDatagram)
  BY <1>4, <1>5
<1>7. toSend' \in [Sender -> Seq(EliDatagram)]
  <2>1. PICK x \in Seq(EliDatagram) : x = [k \in 1..n |-> Datagram(s, i, k, n)]
    BY <1>6
  <2>2. QED
    BY <1>1, <2>1 DEF EliTypes
<1>8. sent' \in [Sender -> Nat] /\ \A t \in Sender : sent'[t] <= Len(Sizes[t])
  BY <1>1, <1>3 DEF EliTypes
<1>9. counter' \in [Sender -> Nat]
  BY <1>1, <1>4 DEF EliTypes
<1>10. QED
  BY <1>1, <1>7, <1>8, <1>9 DEF EliTypes

LEMMA SendTyped ==
  ASSUME EliTypes, NEW s \in Sender, SendDatagram(s)
  PROVE  EliTypes'
<1>1. /\ toSend[s] # <<>> /\ datagrams' = Append(datagrams, Head(toSend[s]))
      /\ toSend' = [toSend EXCEPT ![s] = Tail(@)]
      /\ UNCHANGED <<counting, sent, counter, lostDatagrams, channels, received>>
  BY DEF SendDatagram
<1>2. toSend[s] \in Seq(EliDatagram)
  BY DEF EliTypes
<1>3. Head(toSend[s]) \in EliDatagram /\ Tail(toSend[s]) \in Seq(EliDatagram)
  BY <1>1, <1>2
<1>4. datagrams' \in Seq(EliDatagram)
  BY <1>1, <1>3 DEF EliTypes
<1>5. toSend' \in [Sender -> Seq(EliDatagram)]
  BY <1>1, <1>3 DEF EliTypes
<1>6. QED
  BY <1>1, <1>4, <1>5 DEF EliTypes

LEMMA LoseTyped ==
  ASSUME EliTypes, LoseDatagram
  PROVE  EliTypes'
<1> PICK x : x = Head(datagrams).payload[1]
  OBVIOUS
<1>1. /\ datagrams # <<>> /\ Cardinality(lostDatagrams) < LostWhen[counting]
      /\ lostDatagrams' = lostDatagrams \cup {x} /\ datagrams' = Tail(datagrams)
      /\ UNCHANGED <<counting, sent, toSend, counter, channels, received>>
  BY DEF LoseDatagram
<1>2. /\ IsFiniteSet(lostDatagrams) /\ Cardinality(lostDatagrams) \in Nat
      /\ LostWhen[counting] \in Nat
  BY FS_CardinalityType, EliAssumption DEF EliTypes
<1>3. /\ IsFiniteSet(lostDatagrams \cup {x})
      /\ Cardinality(lostDatagrams \cup {x}) =
           IF x \in lostDatagrams THEN Cardinality(lostDatagrams) ELSE Cardinality(lostDatagrams) + 1
  BY <1>2, FS_AddElement
<1>4. Cardinality(lostDatagrams') <= LostWhen[counting]
  BY <1>1, <1>2, <1>3
<1>5. datagrams' \in Seq(EliDatagram)
  BY <1>1 DEF EliTypes
<1>6. QED
  BY <1>1, <1>3, <1>4, <1>5 DEF EliTypes

(* What a datagram makes of its channel.                                   *)
FoundIn(used, o, d) == IF used THEN o ELSE [o EXCEPT !.is_used = TRUE, !.id = d.id, !.counter = 0]

LEMMA FoundTyped ==
  ASSUME NEW o \in EliChannel, NEW d \in EliDatagram, NEW used \in BOOLEAN
  PROVE  /\ FoundIn(used, o, d) \in EliChannel
         /\ ~used => /\ FoundIn(used, o, d).id = d.id /\ FoundIn(used, o, d).counter = 0
                     /\ FoundIn(used, o, d).is_used
<1>1. CASE used
  BY <1>1 DEF FoundIn
<1>2. CASE ~used
  <2>1. FoundIn(used, o, d) = [o EXCEPT !.is_used = TRUE, !.id = d.id, !.counter = 0]
    BY <1>2 DEF FoundIn
  <2>2. d.id \in Sender
    BY DEF EliDatagram
  <2>3. 0 \in EliCounter
    BY CounterRange
  <2>4. QED
    BY <1>2, <2>1, <2>2, <2>3 DEF EliChannel
<1>3. QED
  BY <1>1, <1>2

(* The channel and what it gives.                                          *)
LEMMA DefragmentIs ==
  ASSUME NEW o \in EliChannel, NEW d \in EliDatagram
  PROVE  LET ch == Rewound(o, d)
             r == Defragment(ch, d) IN
         /\ ch \in EliChannel /\ ch.id = o.id /\ ch.counter = o.counter /\ ch.is_used = o.is_used
         /\ ch.buffer = IF StartsMessage(d) THEN <<>> ELSE o.buffer
         /\ r.channel \in EliChannel /\ r.channel.id = o.id /\ r.channel.is_used = o.is_used
         /\ ~StartsMessage(d) /\ ~Follows(ch, d) => r.channel = o /\ ~r.complete
         /\ StartsMessage(d) \/ Follows(ch, d) =>
              /\ Fits(ch, d) => /\ r.channel.counter = d.counter
                                /\ r.channel.buffer = ch.buffer \o d.payload
                                /\ r.complete <=> d.msg_part \in {"FULL", "END"}
              /\ ~Fits(ch, d) => ~r.complete
<1> PICK ch : ch = Rewound(o, d)
  OBVIOUS
<1>1. <<>> \in EliBuffer
  BY EliAssumption DEF EliBuffer
<1>2. /\ ch \in EliChannel /\ ch.id = o.id /\ ch.counter = o.counter /\ ch.is_used = o.is_used
      /\ ch.buffer = IF StartsMessage(d) THEN <<>> ELSE o.buffer
      /\ ~StartsMessage(d) => ch = o
  <2>1. CASE StartsMessage(d)
    <3>1. ch = [o EXCEPT !.buffer = <<>>]
      BY <2>1 DEF Rewound
    <3>2. QED
      BY <1>1, <2>1, <3>1 DEF EliChannel
  <2>2. CASE ~StartsMessage(d)
    BY <2>2 DEF Rewound
  <2>3. QED
    BY <2>1, <2>2
<1> PICK u : u = Updated(ch, d)
  OBVIOUS
<1>3. /\ u \in EliChannel /\ u.id = o.id /\ u.is_used = o.is_used
      /\ Fits(ch, d) => u.counter = d.counter /\ u.buffer = ch.buffer \o d.payload
  <2>1. ch.buffer \in Seq(Byte) /\ d.payload \in Seq(Byte) /\ d.counter \in EliCounter
    BY <1>2 DEF EliChannel, EliBuffer, EliDatagram
  <2>2. CASE Fits(ch, d)
    <3>1. PICK b : b = ch.buffer \o d.payload
      OBVIOUS
    <3>2. b \in Seq(Byte) /\ Len(b) = Len(ch.buffer) + Len(d.payload)
      BY <2>1, <3>1
    <3>3. b \in EliBuffer
      BY <2>2, <3>2 DEF EliBuffer, Fits
    <3>4. u = [ch EXCEPT !.buffer = b, !.counter = d.counter]
      BY <2>2, <3>1 DEF Updated
    <3>5. QED
      BY <1>2, <2>1, <2>2, <3>1, <3>3, <3>4 DEF EliChannel
  <2>3. CASE ~Fits(ch, d)
    <3>1. u = [ch EXCEPT !.buffer = <<>>]
      BY <2>3 DEF Updated
    <3>2. QED
      BY <1>1, <1>2, <2>3, <3>1 DEF EliChannel
  <2>4. QED
    BY <2>2, <2>3
<1> PICK r : r = Defragment(ch, d)
  OBVIOUS
<1>4. /\ r.channel = IF ~StartsMessage(d) /\ ~Follows(ch, d) THEN ch ELSE u
      /\ r.complete <=> /\ d.msg_part \in {"FULL", "END"}
                        /\ ~(~StartsMessage(d) /\ ~Follows(ch, d)) /\ Fits(ch, d)
  BY DEF Defragment
<1>5. CASE ~StartsMessage(d) /\ ~Follows(ch, d)
  BY <1>2, <1>4, <1>5
<1>6. CASE StartsMessage(d) \/ Follows(ch, d)
  BY <1>2, <1>3, <1>4, <1>6
<1>7. QED
  BY <1>5, <1>6

(* The channel of a datagram: the one in use for its sender, or a free one. *)
LEMMA ChosenIs ==
  ASSUME EliTypes, NEW d \in EliDatagram, Chosen(d) # {}, NEW c, c = Min(Chosen(d)),
         NEW used, used = (InUse(d) # {})
  PROVE  /\ c \in DOMAIN channels /\ used \in BOOLEAN
         /\ used => channels[c].is_used /\ channels[c].id = d.id
         /\ ~used => /\ ~channels[c].is_used
                     /\ \A b \in DOMAIN channels : channels[b].is_used => channels[b].id # d.id
         /\ Found(c, d) = FoundIn(used, channels[c], d)
<1>1. Chosen(d) \subseteq DOMAIN channels /\ DOMAIN channels \subseteq Nat
  BY DEF Chosen, InUse, EliTypes
<1>2. c \in Chosen(d)
  <2>1. Chosen(d) \in SUBSET Nat
    BY <1>1
  <2>2. QED
    BY <2>1, MinIsLeast
<1>3. Found(c, d) = FoundIn(used, channels[c], d)
  BY DEF Found, FoundIn
<1>4. QED
  BY <1>1, <1>2, <1>3 DEF Chosen, InUse

(* Channel c is set anew to n by datagram d, from ch.                      *)
ReadInto(d, c, ch, n) ==
  \E r, given :
    /\ r = Defragment(Rewound(ch, d), d) /\ given = (r.complete /\ HasItsSize(r.channel.buffer))
    /\ \/ /\ channels[c].is_used /\ channels[c].id = d.id /\ ch = channels[c]
       \/ /\ ~channels[c].is_used /\ ch.id = d.id /\ ch.counter = 0 /\ ch.is_used
          /\ \A b \in DOMAIN channels : channels[b].is_used => channels[b].id # d.id
    /\ n.is_used = ~given /\ n.id = d.id
    /\ n.counter = r.channel.counter /\ n.buffer = r.channel.buffer
    /\ channels' = [channels EXCEPT ![c] = n]
    /\ received' = IF given THEN Append(received, n.buffer) ELSE received

LEMMA ReadIs ==
  ASSUME EliTypes, PDReadMsg, NEW d, d = Head(datagrams)
  PROVE  /\ datagrams # <<>> /\ d \in EliDatagram /\ datagrams' = Tail(datagrams)
         /\ datagrams' \in Seq(EliDatagram)
         /\ UNCHANGED <<counting, sent, toSend, counter, lostDatagrams>>
         /\ \/ Chosen(d) = {} /\ UNCHANGED <<channels, received>>
            \/ \E c \in DOMAIN channels, ch \in EliChannel, n \in EliChannel :
                 ReadInto(d, c, ch, n)
<1>1. /\ datagrams # <<>> /\ datagrams' = Tail(datagrams) /\ datagrams \in Seq(EliDatagram)
      /\ UNCHANGED <<counting, sent, toSend, counter, lostDatagrams>>
  BY DEF PDReadMsg, EliTypes
<1>2. d \in EliDatagram /\ datagrams' \in Seq(EliDatagram)
  BY <1>1
<1>3. CASE Chosen(d) = {}
  BY <1>1, <1>2, <1>3 DEF PDReadMsg
<1>4. CASE Chosen(d) # {}
  <2> PICK c, used : c = Min(Chosen(d)) /\ used = (InUse(d) # {})
    OBVIOUS
  <2>1. /\ c \in DOMAIN channels /\ used \in BOOLEAN
        /\ used => channels[c].is_used /\ channels[c].id = d.id
        /\ ~used => /\ ~channels[c].is_used
                    /\ \A b \in DOMAIN channels : channels[b].is_used => channels[b].id # d.id
        /\ Found(c, d) = FoundIn(used, channels[c], d)
    BY <1>2, <1>4, ChosenIs
  <2>2. channels[c] \in EliChannel
    BY <2>1 DEF EliTypes
  <2>3. PICK ch \in EliChannel : /\ ch = Found(c, d) /\ (used => ch = channels[c])
                                 /\ ~used => ch.id = d.id /\ ch.counter = 0 /\ ch.is_used
    <3> PICK o, f : o \in EliChannel /\ o = channels[c] /\ f = FoundIn(used, o, d)
      BY <2>2
    <3>0. used \in BOOLEAN
      BY <2>1
    <3>1. f \in EliChannel /\ (used => f = o)
      BY <1>2, <3>0, FoundTyped DEF FoundIn
    <3>2. ~used => f.id = d.id /\ f.counter = 0 /\ f.is_used
      BY <1>2, <3>0, FoundTyped
    <3>3. f = Found(c, d)
      BY <2>1
    <3>4. QED
      BY <3>1, <3>2, <3>3
  <2> PICK r : r = Defragment(Rewound(ch, d), d)
    OBVIOUS
  <2> PICK given : given = (r.complete /\ HasItsSize(r.channel.buffer))
    OBVIOUS
  <2>4. /\ channels' = [channels EXCEPT ![c] = [r.channel EXCEPT !.is_used = ~given]]
        /\ received' = IF given THEN Append(received, r.channel.buffer) ELSE received
    BY <1>4, <2>3 DEF PDReadMsg
  <2>5. r.channel \in EliChannel /\ r.channel.id = ch.id
    BY <1>2, DefragmentIs
  <2>6. ch.id = d.id /\ given \in BOOLEAN
    BY <2>1, <2>3
  <2>7. PICK n : n = [r.channel EXCEPT !.is_used = ~given]
    OBVIOUS
  <2>8. /\ n \in EliChannel /\ n.is_used = ~given /\ n.id = d.id
        /\ n.counter = r.channel.counter /\ n.buffer = r.channel.buffer
    BY <2>5, <2>6, <2>7 DEF EliChannel
  <2>9. channels' = [channels EXCEPT ![c] = n]
        /\ received' = IF given THEN Append(received, n.buffer) ELSE received
    BY <2>4, <2>7, <2>8
  <2>10. \/ /\ channels[c].is_used /\ channels[c].id = d.id /\ ch = channels[c]
         \/ /\ ~channels[c].is_used /\ ch.id = d.id /\ ch.counter = 0 /\ ch.is_used
            /\ \A b \in DOMAIN channels : channels[b].is_used => channels[b].id # d.id
    BY <2>1, <2>3
  <2>11. ReadInto(d, c, ch, n)
    BY <2>7, <2>8, <2>9, <2>10 DEF ReadInto
  <2>12. \E cc \in DOMAIN channels, x \in EliChannel, y \in EliChannel : ReadInto(d, cc, x, y)
    BY <2>1, <2>8, <2>11
  <2>13. QED
    BY <1>1, <1>2, <2>12
<1>5. QED
  BY <1>3, <1>4

LEMMA ReadTyped ==
  ASSUME EliTypes, PDReadMsg
  PROVE  EliTypes'
<1> PICK d : d = Head(datagrams)
  OBVIOUS
<1>1. /\ datagrams' \in Seq(EliDatagram)
      /\ UNCHANGED <<counting, sent, toSend, counter, lostDatagrams>>
  BY ReadIs
<1>2. channels' \in Seq(EliChannel) /\ received' \in Seq(EliBuffer)
  <2>1. CASE UNCHANGED <<channels, received>>
    BY <2>1 DEF EliTypes
  <2>2. ASSUME NEW c \in DOMAIN channels, NEW n \in EliChannel,
               channels' = [channels EXCEPT ![c] = n],
               received' = received \/ received' = Append(received, n.buffer)
        PROVE  channels' \in Seq(EliChannel) /\ received' \in Seq(EliBuffer)
    <3>1. n.buffer \in EliBuffer
      BY DEF EliChannel
    <3>2. channels \in Seq(EliChannel) /\ received \in Seq(EliBuffer)
      BY DEF EliTypes
    <3>3. QED
      BY <2>2, <3>1, <3>2
  <2>3. \/ UNCHANGED <<channels, received>>
        \/ \E c \in DOMAIN channels, n \in EliChannel :
             /\ channels' = [channels EXCEPT ![c] = n]
             /\ received' = received \/ received' = Append(received, n.buffer)
    <3>1. \/ UNCHANGED <<channels, received>>
          \/ \E c \in DOMAIN channels, ch \in EliChannel, n \in EliChannel : ReadInto(d, c, ch, n)
      BY ReadIs
    <3>2. ASSUME NEW c, NEW ch, NEW n, ReadInto(d, c, ch, n)
          PROVE  /\ channels' = [channels EXCEPT ![c] = n]
                 /\ received' = received \/ received' = Append(received, n.buffer)
      BY <3>2 DEF ReadInto
    <3>3. QED
      BY <3>1, <3>2
  <2>4. QED
    BY <2>1, <2>2, <2>3
<1>3. QED
  BY <1>1, <1>2 DEF EliTypes

LEMMA EliTypesKept == EliTypes /\ [EliNext]_eliVars => EliTypes'
<1>1. ASSUME EliTypes, UNCHANGED eliVars
      PROVE  EliTypes'
  BY <1>1 DEF eliVars, EliTypes
<1>2. QED
  BY <1>1, FragmentTyped, SendTyped, LoseTyped, ReadTyped DEF EliNext
-----------------------------------------------------------------------------
(* Where the fragments of the messages are.                                *)
Waits(s, i, k) == i = sent[s] /\ Fragments(s, i) - Len(toSend[s]) < k
EliTravels(s, i, k) == \E q \in DOMAIN datagrams : datagrams[q].payload = Piece(s, i, k)
EliGone(s, i, k) == ~Waits(s, i, k) /\ ~EliTravels(s, i, k)
Precedes(i, k, j, l) == i < j \/ (i = j /\ k < l)

(* The counters of all the messages fit in 16 bits, when a message has at  *)
(* most that many fragments.                                               *)
Counted(s) == IF "continued" \in DOMAIN LostWhen THEN Len(Sizes[s]) ELSE 1
FitWith(most) ==
  \A s \in Sender : /\ \A i \in 1..Len(Sizes[s]) : Fragments(s, i) <= most
                    /\ FirstCounter + Counted(s) * most \in EliCounter

(* The counters given: message i of sender s starts after start[s][i].     *)
Counters(start, most) ==
  /\ start \in [Sender -> [Nat -> Nat]]
  /\ counting = "restarted" =>
       \A s \in Sender : /\ counter[s] = FirstCounter
                         /\ \A i \in 1..sent[s] : start[s][i] = FirstCounter
  /\ counting = "continued" =>
       \A s \in Sender : /\ \A i \in 1..sent[s] : start[s][i] + Fragments(s, i) <= counter[s]
                         /\ \A i, j \in 1..sent[s] :
                              i < j => start[s][i] + Fragments(s, i) <= start[s][j]
                         /\ counter[s] <= FirstCounter + sent[s] * most

(* What is to send is the end of the last message.                         *)
Queue(start) ==
  \A s \in Sender : toSend[s] # <<>> =>
    /\ sent[s] >= 1 /\ Len(toSend[s]) <= Fragments(s, sent[s])
    /\ \A q \in 1..Len(toSend[s]) :
         toSend[s][q] = Fragment(s, sent[s], Fragments(s, sent[s]) - Len(toSend[s]) + q,
                                 start[s][sent[s]])

(* The network holds fragments that were sent, each once and in turn, and  *)
(* all those sent after one that it holds.                                 *)
Known(start) ==
  \A q \in DOMAIN datagrams :
    \E s \in Sender : \E i \in 1..sent[s] : \E k \in 1..Fragments(s, i) :
      datagrams[q] = Fragment(s, i, k, start[s][i]) /\ ~Waits(s, i, k)
InTurn ==
  \A p, q \in DOMAIN datagrams : p < q =>
    \A s \in Sender : \A i, j \in 1..sent[s] : \A k \in 1..Fragments(s, i), l \in 1..Fragments(s, j) :
      datagrams[p].payload = Piece(s, i, k) /\ datagrams[q].payload = Piece(s, j, l) =>
        Precedes(i, k, j, l)
Closed ==
  \A s \in Sender : \A i, j \in 1..sent[s] : \A k \in 1..Fragments(s, i), l \in 1..Fragments(s, j) :
    EliTravels(s, j, l) /\ Precedes(j, l, i, k) => ~EliGone(s, i, k)

NetInv(start, most) == Counters(start, most) /\ Queue(start) /\ Known(start) /\ InTurn /\ Closed

LEMMA SentIs ==
  ASSUME EliTypes, NEW s \in Sender, NEW i \in 1..sent[s]
  PROVE  /\ i \in 1..Len(Sizes[s]) /\ i \in Nat /\ sent[s] \in Nat
         /\ Fragments(s, i) \in Nat \ {0} /\ \A k \in 1..Fragments(s, i) : k \in Nat
<1>1. sent[s] \in Nat /\ sent[s] <= Len(Sizes[s]) /\ Len(Sizes[s]) \in Nat
  BY EliAssumption DEF EliTypes
<1>2. i \in 1..Len(Sizes[s])
  BY <1>1
<1>3. QED
  BY <1>1, <1>2, SentNumbers

LEMMA Products ==
  ASSUME NEW most \in Nat, NEW a \in Nat, NEW b \in Nat, a < b
  PROVE  /\ a * most \in Nat /\ (a + 1) * most = a * most + most
         /\ a * most + most <= b * most /\ most <= b * most /\ b * most \in Nat
<1>1. b - (a + 1) \in Nat
  OBVIOUS
<1>2. a * most \in Nat /\ (b - (a + 1)) * most \in Nat
  BY <1>1
<1>3. b * most = (b - (a + 1)) * most + (a * most + most)
  BY <1>1
<1>4. (a + 1) * most = a * most + most
  OBVIOUS
<1>5. QED
  BY <1>2, <1>3, <1>4

(* No counter of the next message is over the 16 bits.                     *)
LEMMA NextFits ==
  ASSUME EliTypes, NEW most \in Nat, FitWith(most), NEW start, Counters(start, most),
         NEW s \in Sender, sent[s] < Len(Sizes[s]), NEW k \in 1..Fragments(s, sent[s] + 1)
  PROVE  counter[s] + k \in EliCounter
<1>1. /\ sent[s] \in Nat /\ Len(Sizes[s]) \in Nat /\ counter[s] \in Nat /\ FirstCounter \in Nat
  BY EliAssumption DEF EliTypes
<1>2. sent[s] + 1 \in 1..Len(Sizes[s])
  BY <1>1
<1>3. k \in Nat /\ k <= most
  BY <1>2, SentNumbers DEF FitWith
<1> PICK c : c = Counted(s)
  OBVIOUS
<1>4. FirstCounter + c * most \in EliCounter
  BY DEF FitWith
<1>5. CASE counting = "restarted"
  <2>1. c \in Nat /\ 0 < c
    BY <1>1 DEF Counted
  <2>2. most <= c * most /\ c * most \in Nat
    BY <2>1, Products
  <2>3. counter[s] = FirstCounter
    BY <1>5 DEF Counters
  <2>4. counter[s] + k \in Nat /\ counter[s] + k <= FirstCounter + c * most
    BY <1>1, <1>3, <2>2, <2>3
  <2>5. QED
    BY <1>4, <2>4, CounterRange
<1>6. CASE counting = "continued"
  <2>1. c = Len(Sizes[s])
    BY <1>6 DEF Counted, EliTypes
  <2>2. sent[s] * most \in Nat /\ sent[s] * most + most <= c * most /\ c * most \in Nat
    BY <1>1, <2>1, Products
  <2>3. counter[s] <= FirstCounter + sent[s] * most
    BY <1>6 DEF Counters
  <2>0. PICK x, y, z, f : /\ x = sent[s] * most /\ y = c * most /\ z = counter[s]
                         /\ f = FirstCounter
    OBVIOUS
  <2>4. z + k \in Nat /\ z + k <= f + y
    <3>1. x \in Nat /\ x + most <= y /\ y \in Nat /\ z <= f + x /\ z \in Nat /\ f \in Nat
      BY <1>1, <2>0, <2>2, <2>3
    <3>2. QED
      BY <1>3, <3>1
  <2>5. QED
    BY <1>4, <2>0, <2>4, CounterRange
<1>7. QED
  BY <1>5, <1>6, EliAssumption DEF EliTypes

(* The fragments sent before are where they were; the others are to come.  *)
Grows(start, later) ==
  /\ \A t \in Sender : sent[t] <= sent'[t]
  /\ \A t \in Sender : \A i \in 1..sent[t] :
       /\ later[t][i] = start[t][i]
       /\ \A k \in 1..Fragments(t, i) : EliGone(t, i, k)' <=> EliGone(t, i, k)
  /\ \A t \in Sender : \A i \in 1..sent'[t] : i \notin 1..sent[t] =>
       \A k \in 1..Fragments(t, i) : ~EliGone(t, i, k)'

LEMMA FragmentNet ==
  ASSUME EliTypes, NEW most \in Nat, FitWith(most), NEW start, NetInv(start, most),
         NEW s \in Sender, FragmentMessage(s)
  PROVE  \E later : NetInv(later, most)' /\ Grows(start, later)
<1> PICK i0, n, a : i0 = sent[s] + 1 /\ n = Fragments(s, i0) /\ a = counter[s]
  OBVIOUS
<1> PICK later : later = [start EXCEPT ![s] = [start[s] EXCEPT ![i0] = a]]
  OBVIOUS
<1>1. /\ toSend[s] = <<>> /\ sent[s] < Len(Sizes[s]) /\ sent' = [sent EXCEPT ![s] = i0]
      /\ toSend' = [toSend EXCEPT ![s] = [k \in 1..n |-> Datagram(s, i0, k, n)]]
      /\ counter' = IF counting = "continued" THEN [counter EXCEPT ![s] = @ + n] ELSE counter
      /\ UNCHANGED <<counting, datagrams>>
  BY DEF FragmentMessage, Fragments
<1>2. /\ sent \in [Sender -> Nat] /\ counter \in [Sender -> Nat] /\ a \in Nat
      /\ toSend \in [Sender -> Seq(EliDatagram)]
      /\ i0 \in 1..Len(Sizes[s]) /\ i0 \in Nat /\ n \in Nat \ {0} /\ \A k \in 1..n : k \in Nat
  <2>1. sent[s] \in Nat /\ Len(Sizes[s]) \in Nat
    BY EliAssumption DEF EliTypes
  <2>2. i0 \in 1..Len(Sizes[s])
    BY <1>1, <2>1
  <2>3. QED
    BY <2>2, SentNumbers DEF EliTypes
<1>3. /\ Counters(start, most) /\ Queue(start) /\ Known(start) /\ InTurn /\ Closed
      /\ start \in [Sender -> [Nat -> Nat]]
  BY DEF NetInv, Counters
<1>4. /\ later \in [Sender -> [Nat -> Nat]] /\ later[s][i0] = a
      /\ \A t \in Sender, i \in Nat : t # s \/ i # i0 => later[t][i] = start[t][i]
  <2>1. PICK f : f = [start[s] EXCEPT ![i0] = a]
    OBVIOUS
  <2>2. f \in [Nat -> Nat] /\ f[i0] = a /\ \A i \in Nat : i # i0 => f[i] = start[s][i]
    BY <1>2, <1>3, <2>1
  <2>3. later = [start EXCEPT ![s] = f]
    BY <2>1
  <2>4. QED
    BY <1>3, <2>2, <2>3
<1>5. sent'[s] = i0 /\ sent[s] \in Nat /\ \A t \in Sender : t # s => sent'[t] = sent[t]
  BY <1>1, <1>2
<1>6. \A t \in Sender : \A i \in 1..sent'[t] : i \in 1..sent[t] \/ (t = s /\ i = i0)
  BY <1>2, <1>5
<1>7. \A t \in Sender : \A i \in 1..sent[t] :
        i \in 1..sent'[t] /\ i \in Nat /\ later[t][i] = start[t][i]
  <2> SUFFICES ASSUME NEW t \in Sender, NEW i \in 1..sent[t]
               PROVE  i \in 1..sent'[t] /\ i \in Nat /\ later[t][i] = start[t][i]
    OBVIOUS
  <2>1. sent[t] \in Nat /\ i \in Nat /\ i <= sent[t]
    BY <1>2
  <2>2. CASE t = s
    BY <1>4, <1>5, <2>1, <2>2
  <2>3. CASE t # s
    BY <1>4, <1>5, <2>1, <2>3
  <2>4. QED
    BY <2>2, <2>3
<1>8. /\ toSend'[s] = [k \in 1..n |-> Fragment(s, i0, k, a)] /\ Len(toSend'[s]) = n
      /\ \A t \in Sender : t # s => toSend'[t] = toSend[t]
  <2>1. ASSUME NEW k \in 1..n
        PROVE  Datagram(s, i0, k, n) = Fragment(s, i0, k, a)
    <3>1. counter[s] + k \in EliCounter
      BY <1>1, <1>3, NextFits
    <3>2. QED
      BY <1>2, <3>1, DatagramIs
  <2>2. toSend'[s] = [k \in 1..n |-> Datagram(s, i0, k, n)]
    BY <1>1, <1>2
  <2>3. toSend'[s] = [k \in 1..n |-> Fragment(s, i0, k, a)]
    BY <2>1, <2>2
  <2>4. Len(toSend'[s]) = n
    BY <1>2, <2>3
  <2>5. \A t \in Sender : t # s => toSend'[t] = toSend[t]
    BY <1>1, <1>2
  <2>6. QED
    BY <2>3, <2>4, <2>5
<1>9. /\ \A k \in 1..n : Waits(s, i0, k)'
      /\ \A i \in 1..sent[s] : \A k : ~Waits(s, i, k)'
      /\ \A i \in 1..sent[s] : \A k \in 1..Fragments(s, i) : ~Waits(s, i, k)
      /\ \A t \in Sender : \A i, k : t # s => (Waits(t, i, k)' <=> Waits(t, i, k))
  <2>1. \A k \in 1..n : n - n < k
    BY <1>2
  <2>2. \A k \in 1..n : Waits(s, i0, k)'
    BY <1>5, <1>8, <2>1 DEF Waits
  <2>3. \A i \in 1..sent[s] : i # i0
    BY <1>2, <1>5
  <2>4. \A i \in 1..sent[s] : \A k : ~Waits(s, i, k)'
    BY <1>5, <2>3 DEF Waits
  <2>5. ASSUME NEW i \in 1..sent[s], NEW k \in 1..Fragments(s, i)
        PROVE  ~Waits(s, i, k)
    <3>1. Fragments(s, i) \in Nat
      BY SentIs
    <3>2. Len(toSend[s]) = 0
      BY <1>1
    <3>3. QED
      BY <3>1, <3>2 DEF Waits
  <2>6. \A t \in Sender : \A i, k : t # s => (Waits(t, i, k)' <=> Waits(t, i, k))
    BY <1>5, <1>8 DEF Waits
  <2>7. QED
    BY <2>2, <2>4, <2>5, <2>6
<1>10. \A t, i, k : EliTravels(t, i, k)' <=> EliTravels(t, i, k)
  BY <1>1 DEF EliTravels
<1>11. \A t \in Sender : \A i \in 1..sent[t] : \A k \in 1..Fragments(t, i) :
         (Waits(t, i, k)' <=> Waits(t, i, k)) /\ (EliGone(t, i, k)' <=> EliGone(t, i, k))
  BY <1>9, <1>10 DEF EliGone
<1>12. ASSUME NEW k \in 1..n
       PROVE  ~EliTravels(s, i0, k)
  <2> SUFFICES ASSUME NEW q \in DOMAIN datagrams, datagrams[q].payload = Piece(s, i0, k)
               PROVE  FALSE
    BY DEF EliTravels
  <2>1. PICK t \in Sender : \E i \in 1..sent[t] : \E l \in 1..Fragments(t, i) :
          datagrams[q] = Fragment(t, i, l, start[t][i])
    BY <1>3 DEF Known
  <2>0. PICK i \in 1..sent[t] : \E l \in 1..Fragments(t, i) :
          datagrams[q] = Fragment(t, i, l, start[t][i])
    BY <2>1
  <2>2. PICK l \in 1..Fragments(t, i) : datagrams[q] = Fragment(t, i, l, start[t][i])
    BY <2>0
  <2>3. Piece(t, i, l) = Piece(s, i0, k)
    BY <2>2 DEF Fragment
  <2>4. i \in 1..Len(Sizes[t])
    BY SentIs
  <2>5. t = s /\ i = i0
    BY <1>2, <2>3, <2>4, PiecesDiffer
  <2>6. i <= sent[s] /\ i \in Nat
    BY <1>5, <2>5
  <2>7. QED
    BY <1>5, <2>5, <2>6
<1>13. Grows(start, later)
  <2>1. ASSUME NEW t \in Sender
        PROVE  sent[t] <= sent'[t]
    <3>1. sent[t] \in Nat
      BY <1>2
    <3>2. QED
      BY <1>5, <3>1
  <2>2. \A t \in Sender : \A i \in 1..sent'[t] : i \notin 1..sent[t] =>
          \A k \in 1..Fragments(t, i) : ~EliGone(t, i, k)'
    BY <1>6, <1>9 DEF EliGone
  <2>3. QED
    BY <1>7, <1>11, <2>1, <2>2 DEF Grows
<1>14. Counters(later, most)'
  <2>1. ASSUME counting' = "restarted", NEW t \in Sender
        PROVE  /\ counter'[t] = FirstCounter
               /\ \A i \in 1..sent'[t] : later[t][i] = FirstCounter
    <3>1. counting = "restarted" /\ counter' = counter
      BY <1>1, <2>1
    <3>2. /\ counter[t] = FirstCounter /\ counter[s] = FirstCounter
          /\ \A i \in 1..sent[t] : start[t][i] = FirstCounter
      BY <1>3, <3>1 DEF Counters
    <3>3. QED
      BY <1>4, <1>6, <1>7, <3>1, <3>2
  <2>2. ASSUME counting' = "continued", NEW t \in Sender
        PROVE  /\ \A i \in 1..sent'[t] : later[t][i] + Fragments(t, i) <= counter'[t]
               /\ \A i, j \in 1..sent'[t] : i < j => later[t][i] + Fragments(t, i) <= later[t][j]
               /\ counter'[t] <= FirstCounter + sent'[t] * most
    <3>1. counting = "continued" /\ counter' = [counter EXCEPT ![s] = a + n]
      BY <1>1, <2>2
    <3>2. /\ \A i \in 1..sent[t] : start[t][i] + Fragments(t, i) <= counter[t]
          /\ \A i, j \in 1..sent[t] : i < j => start[t][i] + Fragments(t, i) <= start[t][j]
          /\ counter[t] <= FirstCounter + sent[t] * most
      BY <1>3, <3>1 DEF Counters
    <3>3. CASE t # s
      <4>1. counter'[t] = counter[t] /\ sent'[t] = sent[t]
        BY <1>2, <1>5, <3>1, <3>3
      <4>2. QED
        BY <1>7, <3>2, <4>1
    <3>4. CASE t = s
      <4>1. counter'[t] = a + n
        BY <1>2, <3>1, <3>4
      <4>2. a + n >= a /\ a + n \in Nat
        BY <1>2
      <4>3. ASSUME NEW i \in 1..sent'[t]
            PROVE  later[t][i] + Fragments(t, i) <= counter'[t]
        <5>1. CASE i = i0
          BY <1>2, <1>4, <3>4, <4>1, <5>1
        <5>2. CASE i # i0
          <6>1. i \in 1..sent[t]
            BY <1>6, <3>4, <5>2
          <6>2. later[t][i] = start[t][i] /\ i \in Nat
            BY <1>7, <6>1
          <6>3. start[t][i] + Fragments(t, i) <= a
            BY <3>2, <3>4, <6>1
          <6>4. start[t][i] \in Nat /\ Fragments(t, i) \in Nat
            <7>1. Fragments(t, i) \in Nat
              BY <6>1, SentIs
            <7>2. QED
              BY <1>3, <6>2, <7>1
          <6> PICK x, y, z : x = start[t][i] /\ y = Fragments(t, i) /\ z = counter'[t]
            OBVIOUS
          <6>5. x + y <= z
            <7>1. x \in Nat /\ y \in Nat /\ x + y <= a /\ z = a + n
              BY <4>1, <6>3, <6>4
            <7>2. QED
              BY <1>2, <7>1
          <6>6. QED
            BY <6>2, <6>5
        <5>3. QED
          BY <5>1, <5>2
      <4>4. ASSUME NEW i \in 1..sent'[t], NEW j \in 1..sent'[t], i < j
            PROVE  later[t][i] + Fragments(t, i) <= later[t][j]
        <5>0. i \in Nat /\ j \in Nat /\ i <= i0 /\ j <= i0
          BY <1>2, <1>5, <3>4
        <5>1. i \in 1..sent[t] /\ later[t][i] = start[t][i]
          BY <1>2, <1>6, <1>7, <4>4, <5>0
        <5>2. CASE j = i0
          BY <1>4, <3>2, <3>4, <5>1, <5>2
        <5>3. CASE j # i0
          BY <1>6, <1>7, <3>2, <4>4, <5>1, <5>3
        <5>4. QED
          BY <5>2, <5>3
      <4>5. counter'[t] <= FirstCounter + sent'[t] * most
        <5>1. n <= most
          BY <1>2 DEF FitWith
        <5>2. PICK x, y : x = sent[s] * most /\ y = sent'[s] * most
          OBVIOUS
        <5>3. sent[s] \in Nat /\ sent[s] < i0 /\ i0 = sent[s] + 1
          BY <1>2, <1>5
        <5>4. x \in Nat /\ y = x + most
          BY <1>5, <5>2, <5>3, Products
        <5>5. a <= FirstCounter + x /\ FirstCounter \in Nat
          BY <3>2, <3>4, <5>2, EliAssumption
        <5>6. a + n <= FirstCounter + y
          BY <1>2, <5>1, <5>4, <5>5
        <5>7. QED
          BY <3>4, <4>1, <5>2, <5>6
      <4>6. QED
        BY <4>3, <4>4, <4>5
    <3>5. QED
      BY <3>3, <3>4
  <2>3. QED
    BY <1>4, <2>1, <2>2 DEF Counters
<1>15. Queue(later)'
  <2>1. ASSUME NEW t \in Sender, toSend'[t] # <<>>
        PROVE  /\ sent'[t] >= 1 /\ Len(toSend'[t]) <= Fragments(t, sent'[t])
               /\ \A q \in 1..Len(toSend'[t]) :
                    toSend'[t][q] = Fragment(t, sent'[t], Fragments(t, sent'[t]) - Len(toSend'[t]) + q,
                                             later[t][sent'[t]])
    <3>1. CASE t = s
      <4>1. sent'[t] = i0 /\ Fragments(t, sent'[t]) = n /\ Len(toSend'[t]) = n /\ later[t][sent'[t]] = a
        BY <1>4, <1>5, <1>8, <3>1
      <4>2. ASSUME NEW q \in 1..n
            PROVE  n - n + q = q /\ toSend'[t][q] = Fragment(s, i0, q, a)
        BY <1>2, <1>8, <3>1
      <4>3. i0 >= 1
        BY <1>2
      <4>4. QED
        BY <1>2, <3>1, <4>1, <4>2, <4>3
    <3>2. CASE t # s
      <4>1. sent'[t] = sent[t] /\ toSend'[t] = toSend[t]
        BY <1>5, <1>8, <3>2
      <4>2. sent[t] >= 1 /\ sent[t] \in Nat
        BY <1>2, <1>3, <2>1, <4>1 DEF Queue
      <4>3. later[t][sent[t]] = start[t][sent[t]]
        BY <1>4, <3>2, <4>2
      <4>4. QED
        BY <1>3, <2>1, <4>1, <4>3 DEF Queue
    <3>3. QED
      BY <3>1, <3>2
  <2>2. QED
    BY <2>1 DEF Queue
<1>16. Known(later)'
  <2>1. ASSUME NEW q \in DOMAIN datagrams
        PROVE  \E t \in Sender : \E i \in 1..sent'[t] : \E k \in 1..Fragments(t, i) :
                 datagrams[q] = Fragment(t, i, k, later[t][i]) /\ ~Waits(t, i, k)'
    <3>1. PICK t \in Sender : \E i \in 1..sent[t] : \E k \in 1..Fragments(t, i) :
            datagrams[q] = Fragment(t, i, k, start[t][i]) /\ ~Waits(t, i, k)
      BY <1>3 DEF Known
    <3>0. PICK i \in 1..sent[t] : \E k \in 1..Fragments(t, i) :
            datagrams[q] = Fragment(t, i, k, start[t][i]) /\ ~Waits(t, i, k)
      BY <3>1
    <3>2. PICK k \in 1..Fragments(t, i) :
            datagrams[q] = Fragment(t, i, k, start[t][i]) /\ ~Waits(t, i, k)
      BY <3>0
    <3>3. i \in 1..sent'[t] /\ later[t][i] = start[t][i] /\ ~Waits(t, i, k)'
      BY <1>7, <1>11, <3>2
    <3>4. datagrams[q] = Fragment(t, i, k, later[t][i])
      BY <3>2, <3>3
    <3>5. QED
      BY <3>3, <3>4
  <2>2. QED
    BY <1>1, <2>1 DEF Known
<1>17. InTurn'
  <2>1. ASSUME NEW p \in DOMAIN datagrams, NEW q \in DOMAIN datagrams, p < q, NEW t \in Sender,
               NEW i \in 1..sent'[t], NEW j \in 1..sent'[t],
               NEW k \in 1..Fragments(t, i), NEW l \in 1..Fragments(t, j),
               datagrams[p].payload = Piece(t, i, k), datagrams[q].payload = Piece(t, j, l)
        PROVE  Precedes(i, k, j, l)
    <3>1. EliTravels(t, i, k) /\ EliTravels(t, j, l)
      BY <2>1 DEF EliTravels
    <3>2. i \in 1..sent[t] /\ j \in 1..sent[t]
      BY <1>6, <1>12, <3>1
    <3>3. QED
      BY <1>3, <2>1, <3>2 DEF InTurn
  <2>2. QED
    BY <1>1, <2>1 DEF InTurn
<1>18. Closed'
  <2>1. ASSUME NEW t \in Sender, NEW i \in 1..sent'[t], NEW j \in 1..sent'[t],
               NEW k \in 1..Fragments(t, i), NEW l \in 1..Fragments(t, j),
               EliTravels(t, j, l)', Precedes(j, l, i, k)
        PROVE  ~EliGone(t, i, k)'
    <3>1. j \in 1..sent[t] /\ EliTravels(t, j, l)
      BY <1>6, <1>10, <1>12, <2>1
    <3>2. CASE i \in 1..sent[t]
      BY <1>3, <1>11, <2>1, <3>1, <3>2 DEF Closed
    <3>3. CASE i \notin 1..sent[t]
      BY <1>6, <1>9, <3>3 DEF EliGone
    <3>4. QED
      BY <3>2, <3>3
  <2>2. QED
    BY <2>1 DEF Closed
<1>19. QED
  BY <1>13, <1>14, <1>15, <1>16, <1>17, <1>18 DEF NetInv

LEMMA OneLess ==
  ASSUME NEW n \in Nat, NEW r \in Nat, NEW q \in 1..(r - 1)
  PROVE  q + 1 \in 1..r /\ n - r + (q + 1) = n - (r - 1) + q
OBVIOUS

LEMMA SendNet ==
  ASSUME EliTypes, NEW most \in Nat, NEW start, NetInv(start, most),
         NEW s \in Sender, SendDatagram(s)
  PROVE  NetInv(start, most)' /\ Grows(start, start)
<1> PICK i0, n, r, d : /\ i0 = sent[s] /\ n = Fragments(s, i0) /\ r = Len(toSend[s])
                       /\ d = Head(toSend[s])
  OBVIOUS
<1>1. /\ toSend[s] # <<>> /\ datagrams' = Append(datagrams, d)
      /\ toSend' = [toSend EXCEPT ![s] = Tail(@)] /\ UNCHANGED <<counting, sent, counter>>
  BY DEF SendDatagram
<1>2. /\ Counters(start, most) /\ Queue(start) /\ Known(start) /\ InTurn /\ Closed
  BY DEF NetInv
<1>3. /\ sent \in [Sender -> Nat] /\ toSend \in [Sender -> Seq(EliDatagram)]
      /\ datagrams \in Seq(EliDatagram)
  BY DEF EliTypes
<1>4. /\ i0 \in Nat /\ i0 >= 1 /\ i0 \in 1..sent[s] /\ n \in Nat \ {0} /\ r \in Nat \ {0} /\ r <= n
      /\ \A q \in 1..r : toSend[s][q] = Fragment(s, i0, n - r + q, start[s][i0])
  <2>1. i0 >= 1 /\ i0 \in Nat
    BY <1>1, <1>2, <1>3 DEF Queue
  <2>2. i0 \in 1..sent[s]
    BY <2>1
  <2>3. n \in Nat \ {0}
    BY <2>2, SentIs
  <2>4. r \in Nat \ {0}
    BY <1>1, <1>3
  <2>5. QED
    BY <1>1, <1>2, <2>1, <2>2, <2>3, <2>4 DEF Queue
<1> PICK k0 : k0 = n - r + 1
  OBVIOUS
<1>5. k0 \in 1..n /\ k0 \in Nat /\ d = Fragment(s, i0, k0, start[s][i0])
  <2>1. k0 \in 1..n /\ k0 \in Nat
    BY <1>4
  <2>2. d = toSend[s][1] /\ 1 \in 1..r
    BY <1>1, <1>3, <1>4
  <2>3. QED
    BY <1>4, <2>1, <2>2
<1>6. d.payload = Piece(s, i0, k0)
  BY <1>5 DEF Fragment
<1>7. /\ toSend' \in [Sender -> Seq(EliDatagram)] /\ Len(toSend'[s]) = r - 1
      /\ \A q \in 1..(r - 1) : toSend'[s][q] = toSend[s][q + 1]
      /\ \A t \in Sender : t # s => toSend'[t] = toSend[t]
  <2>1. PICK x, y : x = toSend[s] /\ y = Tail(x)
    OBVIOUS
  <2>2. x \in Seq(EliDatagram) /\ x # <<>> /\ Len(x) = r
    BY <1>1, <1>3, <2>1
  <2>3. y \in Seq(EliDatagram) /\ Len(y) = r - 1 /\ \A q \in 1..(r - 1) : y[q] = x[q + 1]
    BY <2>1, <2>2
  <2>4. toSend' = [toSend EXCEPT ![s] = y]
    BY <1>1, <2>1
  <2>5. QED
    BY <1>3, <2>1, <2>3, <2>4
<1> PICK m : m = Len(datagrams)
  OBVIOUS
<1>8. /\ m \in Nat /\ DOMAIN datagrams = 1..m /\ DOMAIN datagrams' = 1..(m + 1)
      /\ datagrams'[m + 1] = d /\ \A q \in 1..m : datagrams'[q] = datagrams[q]
  BY <1>1, <1>3
<1>9. \A q \in 1..(m + 1) : q \in 1..m \/ q = m + 1
  BY <1>8
<1>10. ASSUME NEW t \in Sender, NEW i \in 1..sent[t], NEW k \in 1..Fragments(t, i)
       PROVE  /\ Waits(t, i, k)' <=> Waits(t, i, k) /\ ~(t = s /\ i = i0 /\ k = k0)
              /\ EliTravels(t, i, k)' <=> EliTravels(t, i, k) \/ (t = s /\ i = i0 /\ k = k0)
              /\ t = s /\ i = i0 => (Waits(t, i, k) <=> k >= k0)
  <2>1. k \in Nat
    BY SentIs
  <2>4. /\ Waits(t, i, k)' <=> Waits(t, i, k) /\ ~(t = s /\ i = i0 /\ k = k0)
        /\ t = s /\ i = i0 => (Waits(t, i, k) <=> k >= k0)
    <3>1. CASE t = s /\ i = i0
      <4>1. Waits(t, i, k)' <=> n - (r - 1) < k
        BY <1>1, <1>7, <3>1 DEF Waits
      <4>2. Waits(t, i, k) <=> n - r < k
        BY <3>1 DEF Waits
      <4>3. (n - (r - 1) < k <=> n - r < k /\ k # k0) /\ (n - r < k <=> k >= k0)
        BY <1>4, <2>1
      <4>4. QED
        BY <3>1, <4>1, <4>2, <4>3
    <3>2. CASE t = s /\ i # i0
      <4>1. i # sent[t] /\ sent' = sent
        BY <1>1, <3>2
      <4>2. QED
        BY <3>2, <4>1 DEF Waits
    <3>3. CASE t # s
      <4>1. toSend'[t] = toSend[t] /\ sent' = sent
        BY <1>1, <1>7, <3>3
      <4>2. Waits(t, i, k)' <=> Waits(t, i, k)
        BY <4>1 DEF Waits
      <4>3. QED
        BY <3>3, <4>2
    <3>4. QED
      BY <3>1, <3>2, <3>3
  <2>5. EliTravels(t, i, k)' <=> EliTravels(t, i, k) \/ Piece(t, i, k) = Piece(s, i0, k0)
    BY <1>6, <1>8, <1>9 DEF EliTravels
  <2>6. Piece(t, i, k) = Piece(s, i0, k0) <=> t = s /\ i = i0 /\ k = k0
    <3>1. i \in 1..Len(Sizes[t]) /\ i0 \in 1..Len(Sizes[s]) /\ k0 \in 1..Fragments(s, i0)
      BY <1>4, <1>5, SentIs
    <3>2. Piece(t, i, k) = Piece(s, i0, k0) => t = s /\ i = i0 /\ k = k0
      BY <3>1, PiecesDiffer
    <3>3. QED
      BY <3>2
  <2>7. QED
    BY <2>4, <2>5, <2>6
<1>11. Waits(s, i0, k0)
  BY <1>4, <1>5, <1>10
<1>12. \A t \in Sender : \A i \in 1..sent[t] : \A k \in 1..Fragments(t, i) :
         EliGone(t, i, k)' <=> EliGone(t, i, k)
  BY <1>10, <1>11 DEF EliGone
<1>13. Grows(start, start)
  <2>1. \A t \in Sender : sent[t] <= sent'[t]
    BY <1>1, <1>3
  <2>2. QED
    BY <1>1, <1>12, <2>1 DEF Grows
<1>14. Counters(start, most)'
  BY <1>1, <1>2 DEF Counters
<1>15. Queue(start)'
  <2>1. ASSUME NEW t \in Sender, toSend'[t] # <<>>
        PROVE  /\ sent[t] >= 1 /\ Len(toSend'[t]) <= Fragments(t, sent[t])
               /\ \A q \in 1..Len(toSend'[t]) :
                    toSend'[t][q] = Fragment(t, sent[t], Fragments(t, sent[t]) - Len(toSend'[t]) + q,
                                             start[t][sent[t]])
    <3>1. CASE t = s
      <4>1. r - 1 <= n
        BY <1>4
      <4>2. ASSUME NEW q \in 1..(r - 1)
            PROVE  toSend'[s][q] = Fragment(s, i0, n - (r - 1) + q, start[s][i0])
        <5>0. r \in Nat /\ n \in Nat
          BY <1>4
        <5>1. q + 1 \in 1..r /\ n - r + (q + 1) = n - (r - 1) + q
          BY <5>0, OneLess
        <5>2. toSend[s][q + 1] = Fragment(s, i0, n - r + (q + 1), start[s][i0])
          BY <1>4, <5>1
        <5>3. QED
          BY <1>7, <5>1, <5>2
      <4>3. QED
        BY <1>4, <1>7, <3>1, <4>1, <4>2
    <3>2. CASE t # s
      BY <1>2, <1>7, <2>1, <3>2 DEF Queue
    <3>3. QED
      BY <3>1, <3>2
  <2>2. QED
    BY <1>1, <2>1 DEF Queue
<1>16. Known(start)'
  <2>1. ASSUME NEW q \in 1..(m + 1)
        PROVE  \E t \in Sender : \E i \in 1..sent[t] : \E k \in 1..Fragments(t, i) :
                 datagrams'[q] = Fragment(t, i, k, start[t][i]) /\ ~Waits(t, i, k)'
    <3>1. CASE q = m + 1
      BY <1>4, <1>5, <1>8, <1>10, <3>1
    <3>2. CASE q \in 1..m
      <4>1. \E t \in Sender : \E i \in 1..sent[t] : \E k \in 1..Fragments(t, i) :
              datagrams[q] = Fragment(t, i, k, start[t][i]) /\ ~Waits(t, i, k)
        BY <1>2, <1>8, <3>2 DEF Known
      <4>2. QED
        BY <1>8, <1>10, <3>2, <4>1
    <3>3. QED
      BY <1>9, <3>1, <3>2
  <2>2. QED
    BY <1>1, <1>8, <2>1 DEF Known
<1>17. InTurn'
  <2>1. ASSUME NEW p \in 1..(m + 1), NEW q \in 1..(m + 1), p < q, NEW t \in Sender,
               NEW i \in 1..sent[t], NEW j \in 1..sent[t],
               NEW k \in 1..Fragments(t, i), NEW l \in 1..Fragments(t, j),
               datagrams'[p].payload = Piece(t, i, k), datagrams'[q].payload = Piece(t, j, l)
        PROVE  Precedes(i, k, j, l)
    <3>1. p \in 1..m /\ datagrams[p].payload = Piece(t, i, k)
      <4>1. p \in 1..m
        BY <1>8, <2>1
      <4>2. QED
        BY <1>8, <2>1, <4>1
    <3>2. CASE q \in 1..m
      BY <1>2, <1>8, <2>1, <3>1, <3>2 DEF InTurn
    <3>3. CASE q = m + 1
      <4>1. Piece(t, j, l) = Piece(s, i0, k0)
        BY <1>6, <1>8, <2>1, <3>3
      <4>2. t = s /\ j = i0 /\ l = k0
        <5>1. j \in 1..Len(Sizes[t]) /\ i0 \in 1..Len(Sizes[s]) /\ k0 \in 1..Fragments(s, i0)
          BY <1>4, <1>5, SentIs
        <5>2. QED
          BY <4>1, <5>1, PiecesDiffer
      <4>3. ~Waits(t, i, k)
        <5>1. PICK u \in Sender : \E ii \in 1..sent[u] : \E kk \in 1..Fragments(u, ii) :
                datagrams[p] = Fragment(u, ii, kk, start[u][ii]) /\ ~Waits(u, ii, kk)
          BY <1>2, <1>8, <3>1 DEF Known
        <5>2. PICK ii \in 1..sent[u] : \E kk \in 1..Fragments(u, ii) :
                datagrams[p] = Fragment(u, ii, kk, start[u][ii]) /\ ~Waits(u, ii, kk)
          BY <5>1
        <5>3. PICK kk \in 1..Fragments(u, ii) :
                datagrams[p] = Fragment(u, ii, kk, start[u][ii]) /\ ~Waits(u, ii, kk)
          BY <5>2
        <5>4. Piece(u, ii, kk) = Piece(t, i, k)
          BY <3>1, <5>3 DEF Fragment
        <5>5. ii \in 1..Len(Sizes[u]) /\ i \in 1..Len(Sizes[t])
          BY SentIs
        <5>6. u = t /\ ii = i /\ kk = k
          BY <5>4, <5>5, PiecesDiffer
        <5>7. QED
          BY <5>3, <5>6
      <4>4. i \in Nat /\ i <= i0 /\ k \in Nat
        <5>1. i \in Nat /\ k \in Nat
          BY SentIs
        <5>2. i <= sent[s]
          BY <1>3, <4>2
        <5>3. QED
          BY <5>1, <5>2
      <4>5. CASE i = i0
        BY <1>5, <1>10, <4>2, <4>3, <4>4, <4>5 DEF Precedes
      <4>6. CASE i # i0
        BY <1>4, <4>2, <4>4, <4>6 DEF Precedes
      <4>7. QED
        BY <4>5, <4>6
    <3>4. QED
      BY <1>9, <3>2, <3>3
  <2>2. QED
    BY <1>1, <1>8, <2>1 DEF InTurn
<1>18. Closed'
  <2>1. ASSUME NEW t \in Sender, NEW i \in 1..sent[t], NEW j \in 1..sent[t],
               NEW k \in 1..Fragments(t, i), NEW l \in 1..Fragments(t, j),
               EliTravels(t, j, l)', Precedes(j, l, i, k)
        PROVE  ~EliGone(t, i, k)'
    <3>1. CASE EliTravels(t, j, l)
      BY <1>2, <1>12, <2>1, <3>1 DEF Closed
    <3>2. CASE t = s /\ j = i0 /\ l = k0
      <4>1. i \in Nat /\ k \in Nat /\ i <= i0
        <5>1. i \in Nat /\ k \in Nat
          BY SentIs
        <5>2. i <= sent[s]
          BY <1>3, <3>2
        <5>3. QED
          BY <5>1, <5>2
      <4>2. i = i0 /\ k >= k0
        BY <1>4, <1>5, <2>1, <3>2, <4>1 DEF Precedes
      <4>3. Waits(t, i, k)
        BY <1>10, <3>2, <4>2
      <4>4. ~EliGone(t, i, k)
        BY <4>3 DEF EliGone
      <4>5. QED
        BY <1>12, <4>4
    <3>3. QED
      BY <1>10, <2>1, <3>1, <3>2
  <2>2. QED
    BY <1>1, <2>1 DEF Closed
<1>19. QED
  BY <1>13, <1>14, <1>15, <1>16, <1>17, <1>18 DEF NetInv

(* The head of the network leaves it, read or lost: it is the next fragment *)
(* of its sender.                                                          *)
HeadIs(s, j, l) ==
  /\ \A i \in 1..sent[s] : \A k \in 1..Fragments(s, i) : EliGone(s, i, k) <=> Precedes(i, k, j, l)
  /\ \A t \in Sender : \A i \in 1..sent[t] : \A k \in 1..Fragments(t, i) :
       EliGone(t, i, k)' <=> EliGone(t, i, k) \/ (t = s /\ i = j /\ k = l)

LEMMA HeadNet ==
  ASSUME EliTypes, NEW most \in Nat, NEW start, NetInv(start, most),
         datagrams # <<>>, datagrams' = Tail(datagrams), UNCHANGED <<counting, sent, toSend, counter>>
  PROVE  /\ NetInv(start, most)'
         /\ \E s \in Sender : \E j \in 1..sent[s] : \E l \in 1..Fragments(s, j) :
              Head(datagrams) = Fragment(s, j, l, start[s][j]) /\ HeadIs(s, j, l)
<1> PICK m : m = Len(datagrams)
  OBVIOUS
<1>1. /\ m \in Nat \ {0} /\ DOMAIN datagrams = 1..m /\ DOMAIN datagrams' = 1..(m - 1)
      /\ Head(datagrams) = datagrams[1] /\ 1 \in 1..m
      /\ \A q \in 1..(m - 1) : q + 1 \in 1..m /\ 1 < q + 1 /\ datagrams'[q] = datagrams[q + 1]
  <2>1. datagrams \in Seq(EliDatagram) /\ datagrams # <<>>
    BY DEF EliTypes
  <2>2. /\ m \in Nat \ {0} /\ DOMAIN datagrams = 1..m /\ Head(datagrams) = datagrams[1]
        /\ Len(datagrams') = m - 1 /\ DOMAIN datagrams' = 1..(m - 1)
        /\ \A q \in 1..(m - 1) : datagrams'[q] = datagrams[q + 1]
    BY <2>1
  <2>3. QED
    BY <2>2
<1>2. \A q \in 1..m : q = 1 \/ (q - 1 \in 1..(m - 1) /\ (q - 1) + 1 = q)
  BY <1>1
<1>3. Counters(start, most) /\ Queue(start) /\ Known(start) /\ InTurn /\ Closed
  BY DEF NetInv
<1>4. PICK s \in Sender : \E j \in 1..sent[s] : \E l \in 1..Fragments(s, j) :
        datagrams[1] = Fragment(s, j, l, start[s][j]) /\ ~Waits(s, j, l)
  BY <1>1, <1>3 DEF Known
<1>5. PICK j \in 1..sent[s] : \E l \in 1..Fragments(s, j) :
        datagrams[1] = Fragment(s, j, l, start[s][j]) /\ ~Waits(s, j, l)
  BY <1>4
<1>6. PICK l \in 1..Fragments(s, j) :
        datagrams[1] = Fragment(s, j, l, start[s][j]) /\ ~Waits(s, j, l)
  BY <1>5
<1>7. /\ datagrams[1].payload = Piece(s, j, l) /\ EliTravels(s, j, l) /\ ~EliGone(s, j, l)
      /\ j \in Nat /\ l \in Nat /\ sent[s] \in Nat
  <2>1. datagrams[1].payload = Piece(s, j, l)
    BY <1>6 DEF Fragment
  <2>2. EliTravels(s, j, l)
    BY <1>1, <2>1 DEF EliTravels
  <2>3. j \in Nat /\ l \in Nat /\ sent[s] \in Nat
    BY SentIs
  <2>4. QED
    BY <2>1, <2>2, <2>3 DEF EliGone
<1>8. \A t, i, k : Waits(t, i, k)' <=> Waits(t, i, k)
  BY DEF Waits
<1>9. ASSUME NEW t \in Sender, NEW i \in 1..sent[t], NEW k \in 1..Fragments(t, i),
             EliTravels(t, i, k)
      PROVE  /\ (t = s /\ i = j /\ k = l) \/ EliTravels(t, i, k)'
             /\ t = s => (i = j /\ k = l) \/ Precedes(j, l, i, k)
  <2>1. PICK q \in 1..m : datagrams[q].payload = Piece(t, i, k)
    BY <1>1, <1>9 DEF EliTravels
  <2>2. CASE q = 1
    <3>1. Piece(t, i, k) = Piece(s, j, l)
      BY <1>7, <2>1, <2>2
    <3>2. i \in 1..Len(Sizes[t]) /\ j \in 1..Len(Sizes[s])
      BY SentIs
    <3>3. QED
      BY <3>1, <3>2, PiecesDiffer
  <2>3. CASE q # 1
    <3>1. EliTravels(t, i, k)'
      <4>1. q - 1 \in 1..(m - 1) /\ (q - 1) + 1 = q
        BY <1>2, <2>3
      <4>2. PICK p \in 1..(m - 1) : p + 1 = q
        BY <4>1
      <4>3. datagrams'[p] = datagrams[q] /\ p \in DOMAIN datagrams'
        BY <1>1, <4>2
      <4>4. datagrams'[p].payload = Piece(t, i, k)
        BY <2>1, <4>3
      <4>5. QED
        BY <4>3, <4>4 DEF EliTravels
    <3>2. t = s => Precedes(j, l, i, k)
      <4>1. 1 < q
        BY <1>1, <2>3
      <4>2. QED
        BY <1>1, <1>3, <1>7, <2>1, <4>1 DEF InTurn
    <3>3. QED
      BY <3>1, <3>2
  <2>4. QED
    BY <2>2, <2>3
<1>10. ASSUME NEW i \in 1..sent[s], NEW k \in 1..Fragments(s, i)
       PROVE  EliGone(s, i, k) <=> Precedes(i, k, j, l)
  <2>1. i \in Nat /\ k \in Nat /\ i <= sent[s]
    BY <1>7, SentIs
  <2>2. ASSUME Precedes(i, k, j, l), Waits(s, i, k)
        PROVE  FALSE
    <3>1. i = j /\ k < l
      <4>1. j <= i
        BY <1>7, <2>1, <2>2 DEF Waits
      <4>2. QED
        BY <1>7, <2>1, <2>2, <4>1 DEF Precedes
    <3>2. Len(toSend[s]) \in Nat /\ Fragments(s, i) \in Nat
      BY SentIs DEF EliTypes
    <3>3. Fragments(s, i) - Len(toSend[s]) < l
      BY <1>7, <2>1, <2>2, <3>1, <3>2 DEF Waits
    <3>4. Waits(s, j, l)
      BY <2>2, <3>1, <3>3 DEF Waits
    <3>5. QED
      BY <1>6, <3>4
  <2>3. ASSUME Precedes(i, k, j, l), EliTravels(s, i, k)
        PROVE  FALSE
    BY <1>7, <1>9, <2>1, <2>3 DEF Precedes
  <2>4. ASSUME ~Precedes(i, k, j, l)
        PROVE  ~EliGone(s, i, k)
    <3>1. (i = j /\ k = l) \/ Precedes(j, l, i, k)
      BY <1>7, <2>1, <2>4 DEF Precedes
    <3>2. QED
      BY <1>3, <1>7, <3>1 DEF Closed
  <2>5. QED
    BY <2>2, <2>3, <2>4 DEF EliGone
<1>11. ASSUME NEW t \in Sender, NEW i \in 1..sent[t], NEW k \in 1..Fragments(t, i)
       PROVE  EliTravels(t, i, k)' <=> EliTravels(t, i, k) /\ ~(t = s /\ i = j /\ k = l)
  <2>1. ASSUME EliTravels(t, i, k)'
        PROVE  EliTravels(t, i, k) /\ ~(t = s /\ i = j /\ k = l)
    <3>1. PICK q \in 1..(m - 1) : datagrams'[q].payload = Piece(t, i, k)
      BY <1>1, <2>1 DEF EliTravels
    <3>2. q + 1 \in 1..m /\ 1 < q + 1 /\ datagrams[q + 1].payload = Piece(t, i, k)
      BY <1>1, <3>1
    <3>3. EliTravels(t, i, k)
      BY <1>1, <3>2 DEF EliTravels
    <3>4. ASSUME t = s, i = j, k = l
          PROVE  FALSE
      <4>1. Precedes(j, l, j, l)
        BY <1>1, <1>3, <1>7, <3>2, <3>4 DEF InTurn
      <4>2. QED
        BY <1>7, <4>1 DEF Precedes
    <3>5. QED
      BY <3>3, <3>4
  <2>2. QED
    BY <1>9, <2>1
<1>12. HeadIs(s, j, l)
  <2>1. \A t \in Sender : \A i \in 1..sent[t] : \A k \in 1..Fragments(t, i) :
          EliGone(t, i, k)' <=> EliGone(t, i, k) \/ (t = s /\ i = j /\ k = l)
    BY <1>6, <1>8, <1>11 DEF EliGone
  <2>2. QED
    BY <1>10, <2>1 DEF HeadIs
<1>13. Counters(start, most)' /\ Queue(start)'
  BY <1>3 DEF Counters, Queue
<1>14. Known(start)'
  <2>1. ASSUME NEW q \in 1..(m - 1)
        PROVE  \E t \in Sender : \E i \in 1..sent[t] : \E k \in 1..Fragments(t, i) :
                 datagrams'[q] = Fragment(t, i, k, start[t][i]) /\ ~Waits(t, i, k)'
    <3>1. \E t \in Sender : \E i \in 1..sent[t] : \E k \in 1..Fragments(t, i) :
            datagrams[q + 1] = Fragment(t, i, k, start[t][i]) /\ ~Waits(t, i, k)
      BY <1>1, <1>3 DEF Known
    <3>2. QED
      BY <1>1, <1>8, <3>1
  <2>2. QED
    BY <1>1, <2>1 DEF Known
<1>15. InTurn'
  <2> SUFFICES ASSUME NEW p \in DOMAIN datagrams', NEW q \in DOMAIN datagrams', p < q, NEW t \in Sender,
                      NEW i \in 1..sent[t], NEW i2 \in 1..sent[t],
                      NEW k \in 1..Fragments(t, i), NEW k2 \in 1..Fragments(t, i2),
                      datagrams'[p].payload = Piece(t, i, k), datagrams'[q].payload = Piece(t, i2, k2)
               PROVE  Precedes(i, k, i2, k2)
    BY DEF InTurn
  <2>1. p + 1 < q + 1 /\ p + 1 \in 1..m /\ q + 1 \in 1..m
    BY <1>1
  <2>2. datagrams[p + 1].payload = Piece(t, i, k) /\ datagrams[q + 1].payload = Piece(t, i2, k2)
    BY <1>1
  <2>3. QED
    BY <1>1, <1>3, <2>1, <2>2 DEF InTurn
<1>16. Closed'
  <2>1. ASSUME NEW t \in Sender, NEW i \in 1..sent[t], NEW i2 \in 1..sent[t],
               NEW k \in 1..Fragments(t, i), NEW k2 \in 1..Fragments(t, i2),
               EliTravels(t, i2, k2)', Precedes(i2, k2, i, k)
        PROVE  ~EliGone(t, i, k)'
    <3>1. EliTravels(t, i2, k2) /\ ~(t = s /\ i2 = j /\ k2 = l)
      BY <1>11, <2>1
    <3>2. ~EliGone(t, i, k)
      BY <1>3, <2>1, <3>1 DEF Closed
    <3>3. ASSUME t = s, i = j, k = l
          PROVE  FALSE
      <4>1. Precedes(j, l, i2, k2) /\ i2 \in Nat /\ k2 \in Nat
        BY <1>9, <3>1, <3>3, SentIs
      <4>2. QED
        BY <1>7, <2>1, <3>3, <4>1 DEF Precedes
    <3>4. QED
      BY <1>12, <3>2, <3>3 DEF HeadIs
  <2>2. QED
    BY <2>1 DEF Closed
<1>17. QED
  BY <1>1, <1>6, <1>12, <1>13, <1>14, <1>15, <1>16 DEF NetInv

-----------------------------------------------------------------------------
(* What the receiving end made of the fragments.                           *)
LostPart(s, i, k) == <<s, i, Begin(k) + 1>> \in lostDatagrams

(* Channel c holds the first k fragments of a message; what was sent after *)
(* them did not arrive.                                                    *)
Holds(c, s, i, k, start) ==
  channels[c].counter = start[s][i] + k /\ channels[c].buffer = Prefix(s, i, k)
Stopped(s, i, k) ==
  /\ EliGone(s, i, k) /\ (EliGone(s, i, k + 1) => LostPart(s, i, k + 1))
  /\ \A j \in 1..sent[s] : i < j /\ EliGone(s, j, 1) => LostPart(s, j, 1)
Filling(c, s, start) ==
  \E i \in 1..sent[s] : \E k \in 1..Fragments(s, i) :
    k < Fragments(s, i) /\ Holds(c, s, i, k, start) /\ Stopped(s, i, k)
Owner(c, s) == channels[c].is_used /\ channels[c].id = s
EliChannels(start) ==
  /\ \A c \in DOMAIN channels : channels[c].is_used =>
       \E s \in Sender : Owner(c, s) /\ (channels[c].counter = 0 \/ Filling(c, s, start))
  /\ \A s \in Sender : \A b, c \in DOMAIN channels : Owner(b, s) /\ Owner(c, s) => b = c

(* A message is given when its last fragment is read, and never again.     *)
EliGiven ==
  /\ \A r \in DOMAIN received : \E s \in Sender : \E i \in 1..sent[s] :
       received[r] = MessageBytes(s, i) /\ EliGone(s, i, Fragments(s, i))
  /\ \A q, r \in DOMAIN received : q # r => received[q] # received[r]

(* A message of which nothing is lost is given, or its channel holds the    *)
(* fragments of it that were read.                                         *)
ReadOf(s, i, k) == \A l \in 1..Fragments(s, i) : EliGone(s, i, l) <=> l < k
Arriving(s, i, start) ==
  \E k \in 1..Fragments(s, i) :
    /\ ReadOf(s, i, k)
    /\ k # 1 => \E c \in DOMAIN channels : Owner(c, s) /\ Holds(c, s, i, k - 1, start)
EliReaches(start) ==
  Cardinality(Sender) <= Len(channels) => \A s \in Sender : \A i \in 1..sent[s] :
    \/ \E k \in 1..Fragments(s, i) : LostPart(s, i, k)
    \/ \E r \in DOMAIN received : received[r] = MessageBytes(s, i)
    \/ Arriving(s, i, start)

EndInv(start) == EliChannels(start) /\ EliGiven /\ EliReaches(start)

(* The messages sent meanwhile change nothing of it.                       *)
LEMMA GrowsEnd ==
  ASSUME EliTypes, EliTypes', NEW start, NEW later, EndInv(start), Grows(start, later),
         UNCHANGED <<lostDatagrams, channels, received>>
  PROVE  EndInv(later)'
<1>1. EliChannels(start) /\ EliGiven /\ EliReaches(start)
  BY DEF EndInv
<1>2. \A s \in Sender : \A i \in 1..sent[s] :
        /\ i \in 1..sent'[s] /\ later[s][i] = start[s][i]
        /\ \A k \in 1..Fragments(s, i) : EliGone(s, i, k)' <=> EliGone(s, i, k)
  BY DEF Grows, EliTypes
<1>3. \A s \in Sender : \A i \in 1..sent'[s] : i \notin 1..sent[s] =>
        \A k \in 1..Fragments(s, i) : ~EliGone(s, i, k)'
  BY DEF Grows
<1>4. \A s \in Sender : \A i \in 1..sent'[s] :
        Fragments(s, i) \in Nat \ {0} /\ 1 \in 1..Fragments(s, i) /\ i \in Nat
  <2> SUFFICES ASSUME NEW s \in Sender, NEW i \in 1..sent'[s]
               PROVE  Fragments(s, i) \in Nat \ {0} /\ 1 \in 1..Fragments(s, i) /\ i \in Nat
    OBVIOUS
  <2>1. i \in 1..Len(Sizes[s])
    BY EliAssumption DEF EliTypes
  <2>2. QED
    BY <2>1, SentNumbers
<1>5. \A s, i, k : LostPart(s, i, k)' <=> LostPart(s, i, k)
  BY DEF LostPart
<1>6. \A c, s : Owner(c, s)' <=> Owner(c, s)
  BY DEF Owner
<1>7. \A c : \A s \in Sender : \A i \in 1..sent[s] : \A k :
        Holds(c, s, i, k, later)' <=> Holds(c, s, i, k, start)
  BY <1>2 DEF Holds
<1>8. ASSUME NEW s \in Sender, NEW i \in 1..sent[s], NEW k \in 1..Fragments(s, i),
             k < Fragments(s, i), Stopped(s, i, k)
      PROVE  Stopped(s, i, k)'
  <2>1. k + 1 \in 1..Fragments(s, i)
    BY <1>2, <1>4, <1>8
  <2>2. EliGone(s, i, k)' /\ (EliGone(s, i, k + 1)' => LostPart(s, i, k + 1)')
    BY <1>2, <1>5, <1>8, <2>1 DEF Stopped
  <2>3. ASSUME NEW j \in 1..sent'[s], i < j, EliGone(s, j, 1)'
        PROVE  LostPart(s, j, 1)'
    <3>1. j \in 1..sent[s] /\ 1 \in 1..Fragments(s, j)
      BY <1>3, <1>4, <2>3
    <3>2. QED
      BY <1>2, <1>5, <1>8, <2>3, <3>1 DEF Stopped
  <2>4. QED
    BY <2>2, <2>3 DEF Stopped
<1>9. EliChannels(later)'
  <2>1. ASSUME NEW c \in DOMAIN channels, NEW s \in Sender, Filling(c, s, start)
        PROVE  Filling(c, s, later)'
    <3>1. PICK i \in 1..sent[s] : \E k \in 1..Fragments(s, i) :
            k < Fragments(s, i) /\ Holds(c, s, i, k, start) /\ Stopped(s, i, k)
      BY <2>1 DEF Filling
    <3>2. PICK k \in 1..Fragments(s, i) :
            k < Fragments(s, i) /\ Holds(c, s, i, k, start) /\ Stopped(s, i, k)
      BY <3>1
    <3>3. i \in 1..sent'[s] /\ Holds(c, s, i, k, later)' /\ Stopped(s, i, k)'
      BY <1>2, <1>7, <1>8, <3>2
    <3>4. QED
      BY <3>2, <3>3 DEF Filling
  <2>2. QED
    BY <1>1, <1>6, <2>1 DEF EliChannels
<1>10. EliGiven'
  <2>1. ASSUME NEW r \in DOMAIN received
        PROVE  \E s \in Sender : \E i \in 1..sent'[s] :
                 received[r] = MessageBytes(s, i) /\ EliGone(s, i, Fragments(s, i))'
    <3>1. PICK s \in Sender : \E i \in 1..sent[s] :
            received[r] = MessageBytes(s, i) /\ EliGone(s, i, Fragments(s, i))
      BY <1>1 DEF EliGiven
    <3>2. PICK i \in 1..sent[s] : received[r] = MessageBytes(s, i) /\ EliGone(s, i, Fragments(s, i))
      BY <3>1
    <3>3. i \in 1..sent'[s] /\ Fragments(s, i) \in 1..Fragments(s, i)
      BY <1>2, <1>4
    <3>4. QED
      BY <1>2, <3>2, <3>3
  <2>2. QED
    BY <1>1, <2>1 DEF EliGiven
<1>11. EliReaches(later)'
  <2>1. ASSUME NEW s \in Sender, NEW i \in 1..sent[s], Arriving(s, i, start)
        PROVE  Arriving(s, i, later)'
    <3>1. PICK k \in 1..Fragments(s, i) :
            /\ ReadOf(s, i, k)
            /\ k # 1 => \E c \in DOMAIN channels : Owner(c, s) /\ Holds(c, s, i, k - 1, start)
      BY <2>1 DEF Arriving
    <3>2. ReadOf(s, i, k)'
      BY <1>2, <3>1 DEF ReadOf
    <3>3. k # 1 => \E c \in DOMAIN channels : Owner(c, s)' /\ Holds(c, s, i, k - 1, later)'
      BY <1>6, <1>7, <3>1
    <3>4. QED
      BY <3>2, <3>3 DEF Arriving
  <2>2. ASSUME NEW s \in Sender, NEW i \in 1..sent'[s], i \notin 1..sent[s]
        PROVE  Arriving(s, i, later)'
    <3>1. \A l \in 1..Fragments(s, i) : ~EliGone(s, i, l)' /\ ~(l < 1)
      BY <1>3, <1>4, <2>2
    <3>2. ReadOf(s, i, 1)'
      BY <3>1 DEF ReadOf
    <3>3. QED
      BY <1>4, <3>2 DEF Arriving
  <2>3. ASSUME NEW s \in Sender, NEW i \in 1..sent'[s], Cardinality(Sender) <= Len(channels)
        PROVE  \/ \E k \in 1..Fragments(s, i) : LostPart(s, i, k)'
               \/ \E r \in DOMAIN received : received[r] = MessageBytes(s, i)
               \/ Arriving(s, i, later)'
    <3>1. CASE i \in 1..sent[s]
      <4>1. \/ \E k \in 1..Fragments(s, i) : LostPart(s, i, k)
            \/ \E r \in DOMAIN received : received[r] = MessageBytes(s, i)
            \/ Arriving(s, i, start)
        BY <1>1, <2>3, <3>1 DEF EliReaches
      <4>2. QED
        BY <1>5, <2>1, <3>1, <4>1
    <3>2. QED
      BY <2>2, <3>1
  <2>4. QED
    BY <2>3 DEF EliReaches
<1>12. QED
  BY <1>9, <1>10, <1>11 DEF EndInv

(* A fragment lost is one that its message lacks.                          *)
LEMMA LoseEnd ==
  ASSUME EliTypes, NEW start, EndInv(start), LoseDatagram,
         NEW s \in Sender, NEW j \in 1..sent[s], NEW l \in 1..Fragments(s, j),
         Head(datagrams) = Fragment(s, j, l, start[s][j]), HeadIs(s, j, l)
  PROVE  EndInv(start)'
<1>1. /\ UNCHANGED <<counting, sent, toSend, counter, channels, received>>
      /\ lostDatagrams' = lostDatagrams \cup {Head(datagrams).payload[1]}
  BY DEF LoseDatagram
<1>2. EliChannels(start) /\ EliGiven /\ EliReaches(start)
  BY DEF EndInv
<1>3. \A t \in Sender : \A i \in 1..sent[t] :
        /\ Fragments(t, i) \in Nat \ {0} /\ 1 \in 1..Fragments(t, i)
        /\ Fragments(t, i) \in 1..Fragments(t, i) /\ i \in Nat
  <2> SUFFICES ASSUME NEW t \in Sender, NEW i \in 1..sent[t]
               PROVE  /\ Fragments(t, i) \in Nat \ {0} /\ 1 \in 1..Fragments(t, i)
                      /\ Fragments(t, i) \in 1..Fragments(t, i) /\ i \in Nat
    OBVIOUS
  <2>1. Fragments(t, i) \in Nat \ {0} /\ i \in Nat
    BY SentIs
  <2>2. QED
    BY <2>1
<1>4. LostPart(s, j, l)' /\ \A t, i, k : LostPart(t, i, k) => LostPart(t, i, k)'
  <2>1. Head(datagrams).payload[1] = <<s, j, Begin(l) + 1>>
    <3>1. j \in 1..Len(Sizes[s])
      BY SentIs
    <3>2. QED
      BY <3>1, PieceIs DEF Fragment
  <2>2. QED
    BY <1>1, <2>1 DEF LostPart
<1>5. \A t \in Sender : \A i \in 1..sent[t] : \A k \in 1..Fragments(t, i) :
        EliGone(t, i, k)' <=> EliGone(t, i, k) \/ (t = s /\ i = j /\ k = l)
  BY DEF HeadIs
<1>6. /\ \A c, t : Owner(c, t)' <=> Owner(c, t)
      /\ \A c, t, i, k : Holds(c, t, i, k, start)' <=> Holds(c, t, i, k, start)
  BY <1>1 DEF Owner, Holds
<1>7. ASSUME NEW t \in Sender, NEW i \in 1..sent[t], NEW k \in 1..Fragments(t, i),
             k < Fragments(t, i), Stopped(t, i, k)
      PROVE  Stopped(t, i, k)'
  <2>1. k + 1 \in 1..Fragments(t, i)
    BY <1>3, <1>7
  <2>2. EliGone(t, i, k)' /\ (EliGone(t, i, k + 1)' => LostPart(t, i, k + 1)')
    BY <1>4, <1>5, <1>7, <2>1 DEF Stopped
  <2>3. ASSUME NEW x \in 1..sent[t], i < x, EliGone(t, x, 1)'
        PROVE  LostPart(t, x, 1)'
    BY <1>3, <1>4, <1>5, <1>7, <2>3 DEF Stopped
  <2>4. QED
    BY <1>1, <2>2, <2>3 DEF Stopped
<1>8. EliChannels(start)'
  <2>1. ASSUME NEW c \in DOMAIN channels, NEW t \in Sender, Filling(c, t, start)
        PROVE  Filling(c, t, start)'
    <3>1. PICK i \in 1..sent[t] : \E k \in 1..Fragments(t, i) :
            k < Fragments(t, i) /\ Holds(c, t, i, k, start) /\ Stopped(t, i, k)
      BY <2>1 DEF Filling
    <3>2. PICK k \in 1..Fragments(t, i) :
            k < Fragments(t, i) /\ Holds(c, t, i, k, start) /\ Stopped(t, i, k)
      BY <3>1
    <3>3. i \in 1..sent'[t] /\ Holds(c, t, i, k, start)' /\ Stopped(t, i, k)'
      BY <1>1, <1>6, <1>7, <3>2
    <3>4. QED
      BY <3>2, <3>3 DEF Filling
  <2>2. QED
    BY <1>1, <1>2, <1>6, <2>1 DEF EliChannels
<1>9. EliGiven'
  BY <1>1, <1>2, <1>3, <1>5 DEF EliGiven
<1>10. EliReaches(start)'
  <2>1. ASSUME NEW t \in Sender, NEW i \in 1..sent[t], t # s \/ i # j, Arriving(t, i, start)
        PROVE  Arriving(t, i, start)'
    <3>1. PICK k \in 1..Fragments(t, i) :
            /\ ReadOf(t, i, k)
            /\ k # 1 => \E c \in DOMAIN channels : Owner(c, t) /\ Holds(c, t, i, k - 1, start)
      BY <2>1 DEF Arriving
    <3>2. ReadOf(t, i, k)'
      BY <1>5, <2>1, <3>1 DEF ReadOf
    <3>3. k # 1 => \E c \in DOMAIN channels' : Owner(c, t)' /\ Holds(c, t, i, k - 1, start)'
      BY <1>1, <1>6, <3>1
    <3>4. QED
      BY <3>2, <3>3 DEF Arriving
  <2>2. ASSUME NEW t \in Sender, NEW i \in 1..sent[t], Cardinality(Sender) <= Len(channels)
        PROVE  \/ \E k \in 1..Fragments(t, i) : LostPart(t, i, k)'
               \/ \E r \in DOMAIN received : received[r] = MessageBytes(t, i)
               \/ Arriving(t, i, start)'
    <3>1. CASE t = s /\ i = j
      BY <1>4, <3>1
    <3>2. CASE t # s \/ i # j
      <4>1. \/ \E k \in 1..Fragments(t, i) : LostPart(t, i, k)
            \/ \E r \in DOMAIN received : received[r] = MessageBytes(t, i)
            \/ Arriving(t, i, start)
        BY <1>2, <2>2 DEF EliReaches
      <4>2. QED
        BY <1>4, <2>1, <3>2, <4>1
    <3>3. QED
      BY <3>1, <3>2
  <2>3. QED
    BY <1>1, <2>2 DEF EliReaches
<1>11. QED
  BY <1>8, <1>9, <1>10 DEF EndInv

(* The fragment that follows the ones in a channel is of the same message.  *)
OneLost == "restarted" \in DOMAIN LostWhen => LostWhen["restarted"] <= 1

LEMMA FollowsIs ==
  ASSUME EliTypes, OneLost, NEW most \in Nat, NEW start, NetInv(start, most), NEW s \in Sender,
         NEW j \in 1..sent[s], NEW l \in 1..Fragments(s, j), HeadIs(s, j, l),
         NEW i \in 1..sent[s], NEW k \in 1..Fragments(s, i), k < Fragments(s, i),
         Stopped(s, i, k), start[s][i] + k = start[s][j] + l - 1
  PROVE  i = j /\ k = l - 1
<1> PICK a, b, n, m : a = start[s][i] /\ b = start[s][j] /\ n = Fragments(s, i) /\ m = Fragments(s, j)
  OBVIOUS
<1>1. /\ a \in Nat /\ b \in Nat /\ n \in Nat \ {0} /\ m \in Nat \ {0}
      /\ i \in Nat /\ j \in Nat /\ k \in Nat /\ l \in Nat /\ 1 <= k /\ 1 <= l /\ l <= m
      /\ k < n /\ a + k = b + l - 1 /\ k + 1 \in 1..n
  <2>1. /\ n \in Nat \ {0} /\ m \in Nat \ {0} /\ i \in Nat /\ j \in Nat /\ k \in Nat /\ l \in Nat
    BY SentIs
  <2>2. a \in Nat /\ b \in Nat
    BY <2>1 DEF NetInv, Counters
  <2>3. 1 <= k /\ 1 <= l /\ l <= m /\ k < n /\ a + k = b + l - 1
    BY <2>1
  <2>4. k + 1 \in 1..n
    BY <2>1, <2>3
  <2>5. QED
    BY <2>1, <2>2, <2>3, <2>4
<1>2. Precedes(i, k, j, l)
  BY DEF HeadIs, Stopped
<1>3. CASE i = j
  BY <1>1, <1>3
<1>4. CASE i # j
  <2>1. i < j
    BY <1>2, <1>4 DEF Precedes
  <2>2. CASE counting = "continued"
    <3>1. a + n <= b
      BY <2>1, <2>2 DEF NetInv, Counters
    <3>2. QED
      BY <1>1, <3>1
  <2>3. CASE counting = "restarted"
    <3>1. a = b
      BY <2>3 DEF NetInv, Counters
    <3>2. k = l - 1 /\ 1 < l /\ 1 \in 1..m
      BY <1>1, <3>1
    <3>3. EliGone(s, i, k + 1)
      BY <1>1, <2>1 DEF HeadIs, Precedes
    <3>4. EliGone(s, j, 1)
      BY <3>2 DEF HeadIs, Precedes
    <3>5. LostPart(s, i, k + 1) /\ LostPart(s, j, 1)
      BY <2>1, <3>3, <3>4 DEF Stopped
    <3>6. PICK x, y : x = <<s, i, Begin(k + 1) + 1>> /\ y = <<s, j, Begin(1) + 1>>
      OBVIOUS
    <3>7. x \in lostDatagrams /\ y \in lostDatagrams /\ x # y
      BY <1>4, <3>5, <3>6 DEF LostPart
    <3>8. IsFiniteSet(lostDatagrams) /\ Cardinality(lostDatagrams) <= LostWhen["restarted"]
      BY <2>3 DEF EliTypes
    <3>9. LostWhen["restarted"] <= 1 /\ LostWhen["restarted"] \in Nat
      BY <2>3, EliAssumption DEF OneLost, EliTypes
    <3>10. {x, y} \subseteq lostDatagrams
      BY <3>7
    <3>11. Cardinality({x, y}) = 2
      <4>1. IsFiniteSet({x}) /\ Cardinality({x}) = 1 /\ y \notin {x} /\ {x, y} = {x} \cup {y}
        BY <3>7, FS_Singleton
      <4>2. Cardinality({x} \cup {y}) = Cardinality({x}) + 1
        BY <4>1, FS_AddElement
      <4>3. QED
        BY <4>1, <4>2
    <3>12. Cardinality({x, y}) <= Cardinality(lostDatagrams) /\ Cardinality(lostDatagrams) \in Nat
      BY <3>8, <3>10, FS_Subset, FS_CardinalityType
    <3>13. QED
      BY <3>8, <3>9, <3>11, <3>12
  <2>4. QED
    BY <2>2, <2>3, EliAssumption DEF EliTypes
<1>5. QED
  BY <1>3, <1>4

(* What reading a fragment does: it is not the next one and its channel    *)
(* keeps what it has, or it is and its channel takes it.                   *)
NoOwner(s) == \A b \in DOMAIN channels : ~Owner(b, s)
Into(c, n, s) ==
  /\ channels' = [channels EXCEPT ![c] = n] /\ n.id = s
  /\ Owner(c, s) \/ (~channels[c].is_used /\ NoOwner(s))
Keeps(c, n, s, j, l, start) ==
  /\ l # 1 /\ n.is_used /\ received' = received
  /\ Owner(c, s) => /\ n.counter = channels[c].counter /\ n.buffer = channels[c].buffer
                    /\ n.counter # start[s][j] + l - 1
  /\ ~Owner(c, s) => n.counter = 0
Takes(c, n, s, j, l, start) ==
  /\ n.counter = start[s][j] + l /\ n.buffer = Prefix(s, j, l)
  /\ n.is_used <=> l # Fragments(s, j)
  /\ received' = IF l = Fragments(s, j) THEN Append(received, MessageBytes(s, j)) ELSE received

Outcome(s, j, l, start) ==
  \/ /\ UNCHANGED <<channels, received>> /\ NoOwner(s)
     /\ \A b \in DOMAIN channels : channels[b].is_used
  \/ \E c \in DOMAIN channels, n \in EliChannel :
       /\ Into(c, n, s)
       /\ Keeps(c, n, s, j, l, start) \/ Takes(c, n, s, j, l, start)

LEMMA ReadOutcome ==
  ASSUME EliTypes, OneLost, NEW most \in Nat, NEW start, NetInv(start, most), EliChannels(start),
         PDReadMsg, NEW s \in Sender, NEW j \in 1..sent[s], NEW l \in 1..Fragments(s, j),
         Head(datagrams) = Fragment(s, j, l, start[s][j]), HeadIs(s, j, l)
  PROVE  Outcome(s, j, l, start)
<1> PICK d, b, p : d = Head(datagrams) /\ b = start[s][j] /\ p = Piece(s, j, l)
  OBVIOUS
<1>1. /\ j \in 1..Len(Sizes[s]) /\ j \in Nat /\ l \in Nat /\ l >= 1
      /\ Fragments(s, j) \in Nat \ {0} /\ b \in Nat
  <2>1. /\ j \in 1..Len(Sizes[s]) /\ j \in Nat /\ l \in Nat /\ l >= 1
        /\ Fragments(s, j) \in Nat \ {0}
    BY SentIs
  <2>2. b \in Nat
    BY <2>1 DEF NetInv, Counters
  <2>3. QED
    BY <2>1, <2>2
<1>2. /\ d \in EliDatagram
      /\ \/ Chosen(d) = {} /\ UNCHANGED <<channels, received>>
         \/ \E c \in DOMAIN channels, ch \in EliChannel, n \in EliChannel : ReadInto(d, c, ch, n)
  BY ReadIs
<1>3. /\ d.id = s /\ d.counter = b + l /\ d.payload = p
      /\ StartsMessage(d) <=> l = 1
      /\ d.msg_part \in {"FULL", "END"} <=> l = Fragments(s, j)
  <2>1. d = Fragment(s, j, l, b)
    OBVIOUS
  <2>2. QED
    BY <1>1, <2>1, FragmentIs
<1>4. CASE Chosen(d) = {} /\ UNCHANGED <<channels, received>>
  <2>1. NoOwner(s) /\ \A x \in DOMAIN channels : channels[x].is_used
    BY <1>3, <1>4 DEF Chosen, InUse, NoOwner, Owner
  <2>2. QED
    BY <1>4, <2>1 DEF Outcome
<1>5. ASSUME NEW c \in DOMAIN channels, NEW ch \in EliChannel, NEW n \in EliChannel,
             ReadInto(d, c, ch, n)
      PROVE  Into(c, n, s) /\ (Keeps(c, n, s, j, l, start) \/ Takes(c, n, s, j, l, start))
  <2>1. PICK r, given :
          /\ r = Defragment(Rewound(ch, d), d) /\ given = (r.complete /\ HasItsSize(r.channel.buffer))
          /\ \/ /\ channels[c].is_used /\ channels[c].id = d.id /\ ch = channels[c]
             \/ /\ ~channels[c].is_used /\ ch.id = d.id /\ ch.counter = 0 /\ ch.is_used
                /\ \A x \in DOMAIN channels : channels[x].is_used => channels[x].id # d.id
          /\ n.is_used = ~given /\ n.id = d.id
          /\ n.counter = r.channel.counter /\ n.buffer = r.channel.buffer
          /\ channels' = [channels EXCEPT ![c] = n]
          /\ received' = IF given THEN Append(received, n.buffer) ELSE received
    BY <1>5 DEF ReadInto
  <2>2. Into(c, n, s) /\ (Owner(c, s) => ch = channels[c]) /\ (~Owner(c, s) => ch.counter = 0)
    BY <1>3, <2>1 DEF Into, Owner, NoOwner
  <2> PICK w : w = Rewound(ch, d)
    OBVIOUS
  <2>3. /\ w \in EliChannel /\ w.counter = ch.counter
        /\ w.buffer = IF StartsMessage(d) THEN <<>> ELSE ch.buffer
        /\ ~StartsMessage(d) /\ ~Follows(w, d) => r.channel = ch /\ ~r.complete
        /\ StartsMessage(d) \/ Follows(w, d) =>
             (Fits(w, d) => /\ r.channel.counter = d.counter
                            /\ r.channel.buffer = w.buffer \o d.payload
                            /\ r.complete <=> d.msg_part \in {"FULL", "END"})
    BY <1>2, <2>1, DefragmentIs
  <2>4. Follows(w, d) <=> ch.counter = b + l - 1
    <3>1. w.counter = ch.counter /\ d.counter = b + l /\ (b + l) - 1 = b + l - 1
      BY <1>1, <1>3, <2>3
    <3>2. QED
      BY <3>1 DEF Follows
  <2>5. CASE l # 1 /\ ch.counter # b + l - 1
    <3>1. r.channel = ch /\ ~r.complete
      BY <1>3, <2>3, <2>4, <2>5
    <3>2. ~given
      BY <2>1, <3>1
    <3>3. n.is_used /\ received' = received /\ n.counter = ch.counter /\ n.buffer = ch.buffer
      BY <2>1, <3>1, <3>2
    <3>4. Keeps(c, n, s, j, l, start)
      BY <2>2, <2>5, <3>3 DEF Keeps
    <3>5. QED
      BY <2>2, <3>4
  <2>6. CASE l = 1 \/ ch.counter = b + l - 1
    <3>1. w.buffer \o p = Prefix(s, j, l) /\ w.buffer \in Seq(Byte)
      <4>1. CASE l = 1
        <5>1. w.buffer = <<>>
          BY <1>3, <2>3, <4>1
        <5>2. <<>> \o Piece(s, j, l) = Prefix(s, j, l)
          BY <1>1, <4>1, PrefixGrows
        <5>3. <<>> \in Seq(Byte)
          OBVIOUS
        <5>4. PICK e : e = <<>> /\ e \o Piece(s, j, l) = Prefix(s, j, l) /\ e \in Seq(Byte)
          BY <5>2, <5>3
        <5>5. w.buffer = e
          BY <5>1, <5>4
        <5>6. QED
          BY <5>4, <5>5
      <4>2. CASE l # 1
        <5>1. ch.counter = b + l - 1 /\ ch.counter # 0
          BY <1>1, <2>6, <4>2
        <5>2. Owner(c, s) /\ ch = channels[c]
          BY <2>2, <5>1
        <5>3. Filling(c, s, start)
          <6>1. PICK t \in Sender : Owner(c, t) /\ (channels[c].counter = 0 \/ Filling(c, t, start))
            BY <5>2 DEF EliChannels, Owner
          <6>2. t = s
            BY <5>2, <6>1 DEF Owner
          <6>3. QED
            BY <5>1, <5>2, <6>1, <6>2
        <5>4. PICK i \in 1..sent[s] : \E k \in 1..Fragments(s, i) :
                k < Fragments(s, i) /\ Holds(c, s, i, k, start) /\ Stopped(s, i, k)
          BY <5>3 DEF Filling
        <5>5. PICK k \in 1..Fragments(s, i) :
                k < Fragments(s, i) /\ Holds(c, s, i, k, start) /\ Stopped(s, i, k)
          BY <5>4
        <5>6. start[s][i] + k = start[s][j] + l - 1
          BY <5>1, <5>2, <5>5 DEF Holds
        <5>7. i = j /\ k = l - 1
          BY <5>5, <5>6, FollowsIs
        <5>8. ch.buffer = Prefix(s, j, l - 1)
          BY <5>2, <5>5, <5>7 DEF Holds
        <5>9. w.buffer = ch.buffer
          BY <1>3, <2>3, <4>2
        <5>10. w.buffer \in Seq(Byte)
          BY <2>3 DEF EliChannel, EliBuffer
        <5>11. QED
          BY <1>1, <4>2, <5>8, <5>9, <5>10, PrefixGrows
      <4>3. QED
        BY <4>1, <4>2
    <3>2. p \in Seq(Byte) /\ Len(Prefix(s, j, l)) <= BufferSize
      BY <1>1, EliAssumption, PieceIs, PrefixGrows
    <3>3. Fits(w, d)
      <4>1. Len(w.buffer \o p) = Len(w.buffer) + Len(p)
        BY <3>1, <3>2
      <4>2. QED
        BY <1>3, <3>1, <3>2, <4>1 DEF Fits
    <3>4. /\ r.channel.counter = b + l /\ r.channel.buffer = Prefix(s, j, l)
          /\ r.complete <=> l = Fragments(s, j)
      BY <1>3, <2>3, <2>4, <2>6, <3>1, <3>3
    <3>5. l = Fragments(s, j) => /\ Prefix(s, j, l) = MessageBytes(s, j)
                                 /\ HasItsSize(Prefix(s, j, l))
      <4> SUFFICES ASSUME l = Fragments(s, j)
                   PROVE  Prefix(s, j, l) = MessageBytes(s, j) /\ HasItsSize(Prefix(s, j, l))
        OBVIOUS
      <4>1. Prefix(s, j, l) = MessageBytes(s, j) /\ Prefix(s, j, l)[1] = <<s, j, 1>>
            /\ Len(Prefix(s, j, l)) = Sizes[s][j]
        BY <1>1, PrefixGrows DEF End
      <4>2. QED
        BY <4>1 DEF HasItsSize
    <3>6. given <=> l = Fragments(s, j)
      BY <2>1, <3>4, <3>5
    <3>7. /\ n.counter = b + l /\ n.buffer = Prefix(s, j, l)
          /\ n.is_used <=> l # Fragments(s, j)
      BY <2>1, <3>4, <3>6
    <3>8. received' = IF l = Fragments(s, j) THEN Append(received, MessageBytes(s, j)) ELSE received
      BY <2>1, <3>5, <3>6, <3>7
    <3>9. Takes(c, n, s, j, l, start)
      BY <3>7, <3>8 DEF Takes
    <3>10. QED
      BY <2>2, <3>9
  <2>7. QED
    BY <2>5, <2>6
<1>6. QED
  <2>1. CASE \E c \in DOMAIN channels, ch \in EliChannel, n \in EliChannel : ReadInto(d, c, ch, n)
    BY <1>5, <2>1 DEF Outcome
  <2>2. QED
    BY <1>2, <1>4, <2>1

(* Every channel is in use for another sender only when they are too few.  *)
LEMMA FreeChannel ==
  ASSUME EliTypes, NEW start, EliChannels(start), NEW s \in Sender, NoOwner(s),
         Cardinality(Sender) <= Len(channels)
  PROVE  \E b \in DOMAIN channels : ~channels[b].is_used
<1> SUFFICES ASSUME \A b \in DOMAIN channels : channels[b].is_used
             PROVE  FALSE
  OBVIOUS
<1>1. PICK q \in Nat : q = Len(channels) /\ DOMAIN channels = 1..q
  BY DEF EliTypes
<1>2. \A b \in 1..q : \E t \in Sender \ {s} : Owner(b, t) /\ channels[b].id = t
  BY <1>1 DEF EliChannels, NoOwner, Owner
<1> DEFINE f == [b \in 1..q |-> channels[b].id]
<1>3. f \in [1..q -> Sender \ {s}] /\ \A b \in 1..q : f[b] = channels[b].id
  BY <1>2
<1> HIDE DEF f
<1>4. PICK a, b \in 1..q : a # b /\ f[a] = f[b]
  <2>1. Cardinality(Sender) <= q /\ IsFiniteSet(Sender)
    BY <1>1, EliAssumption
  <2>2. \E a, b \in 1..q : a # b /\ f[a] = f[b]
    BY <1>3, <2>1, RoomForOne
  <2>3. QED
    BY <2>2
<1>5. PICK t \in Sender : Owner(a, t) /\ channels[a].id = t
  BY <1>2
<1>6. Owner(b, t)
  BY <1>2, <1>3, <1>4, <1>5 DEF Owner
<1>7. QED
  BY <1>1, <1>4, <1>5, <1>6 DEF EliChannels

(* The channels after a fragment is read.                                  *)
LEMMA IntoIs ==
  ASSUME EliTypes, NEW start, EliChannels(start), NEW s \in Sender,
         NEW c \in DOMAIN channels, NEW n \in EliChannel, Into(c, n, s)
  PROVE  /\ DOMAIN channels' = DOMAIN channels /\ Len(channels') = Len(channels)
         /\ channels'[c] = n
         /\ \A t : Owner(c, t)' <=> n.is_used /\ t = s
         /\ \A b \in DOMAIN channels : b # c =>
              /\ channels'[b] = channels[b] /\ ~Owner(b, s)
              /\ \A t : Owner(b, t)' <=> Owner(b, t)
              /\ \A t, i, k : Holds(b, t, i, k, start)' <=> Holds(b, t, i, k, start)
<1>1. channels \in Seq(EliChannel) /\ channels' = [channels EXCEPT ![c] = n] /\ n.id = s
  BY DEF EliTypes, Into
<1>2. /\ DOMAIN channels' = DOMAIN channels /\ Len(channels') = Len(channels)
      /\ channels'[c] = n /\ \A b \in DOMAIN channels : b # c => channels'[b] = channels[b]
  <2>1. Len(channels') = Len(channels)
    BY <1>1
  <2>2. QED
    BY <1>1, <2>1
<1>3. \A b \in DOMAIN channels : b # c => ~Owner(b, s)
  BY DEF Into, NoOwner, EliChannels
<1>4. \A t : Owner(c, t)' <=> n.is_used /\ t = s
  BY <1>1, <1>2 DEF Owner
<1>5. \A b \in DOMAIN channels : b # c =>
        /\ \A t : Owner(b, t)' <=> Owner(b, t)
        /\ \A t, i, k : Holds(b, t, i, k, start)' <=> Holds(b, t, i, k, start)
  BY <1>2 DEF Owner, Holds
<1>6. QED
  BY <1>2, <1>3, <1>4, <1>5

(* What an incomplete message of another sender, or of this one, still is. *)
LEMMA StopsStill ==
  ASSUME EliTypes, NEW s \in Sender, NEW j \in 1..sent[s], NEW l \in 1..Fragments(s, j),
         HeadIs(s, j, l), UNCHANGED <<sent, lostDatagrams>>,
         NEW t \in Sender, NEW i \in 1..sent[t], NEW k \in 1..Fragments(t, i),
         k < Fragments(t, i), Stopped(t, i, k),
         t = s => l # 1 /\ ~(i = j /\ k + 1 = l)
  PROVE  Stopped(t, i, k)'
<1>1. \A x \in 1..sent[t] : Fragments(t, x) \in Nat \ {0} /\ 1 \in 1..Fragments(t, x)
  <2> SUFFICES ASSUME NEW x \in 1..sent[t]
               PROVE  Fragments(t, x) \in Nat \ {0} /\ 1 \in 1..Fragments(t, x)
    OBVIOUS
  <2>1. Fragments(t, x) \in Nat \ {0}
    BY SentIs
  <2>2. QED
    BY <2>1
<1>2. k + 1 \in 1..Fragments(t, i)
  BY <1>1
<1>3. EliGone(t, i, k)' /\ (EliGone(t, i, k + 1)' <=> EliGone(t, i, k + 1))
  BY <1>2 DEF HeadIs, Stopped
<1>4. \A x \in 1..sent[t] : EliGone(t, x, 1)' <=> EliGone(t, x, 1)
  BY <1>1 DEF HeadIs
<1>5. QED
  BY <1>3, <1>4 DEF Stopped, LostPart

LEMMA ReadChannels ==
  ASSUME EliTypes, NEW most \in Nat, NEW start, NetInv(start, most), EliChannels(start),
         NEW s \in Sender, NEW j \in 1..sent[s], NEW l \in 1..Fragments(s, j),
         HeadIs(s, j, l), UNCHANGED <<sent, lostDatagrams>>, Outcome(s, j, l, start)
  PROVE  EliChannels(start)'
<1>1. \A c \in DOMAIN channels : channels[c].is_used =>
        \E t \in Sender : Owner(c, t) /\ (channels[c].counter = 0 \/ Filling(c, t, start))
  BY DEF EliChannels
<1>2. \A t \in Sender : \A b, c \in DOMAIN channels : Owner(b, t) /\ Owner(c, t) => b = c
  BY DEF EliChannels
<1>3. ASSUME NEW c \in DOMAIN channels, NEW t \in Sender, t # s, channels'[c] = channels[c],
             Filling(c, t, start)
      PROVE  Filling(c, t, start)'
  <2>1. PICK i \in 1..sent[t] : \E k \in 1..Fragments(t, i) :
          k < Fragments(t, i) /\ Holds(c, t, i, k, start) /\ Stopped(t, i, k)
    BY <1>3 DEF Filling
  <2>2. PICK k \in 1..Fragments(t, i) :
          k < Fragments(t, i) /\ Holds(c, t, i, k, start) /\ Stopped(t, i, k)
    BY <2>1
  <2>3. Stopped(t, i, k)'
    BY <1>3, <2>2, StopsStill
  <2>4. Holds(c, t, i, k, start)'
    BY <1>3, <2>2 DEF Holds
  <2>5. QED
    BY <2>2, <2>3, <2>4 DEF Filling
<1>4. CASE UNCHANGED <<channels, received>> /\ NoOwner(s)
  <2>1. ASSUME NEW c \in DOMAIN channels, channels[c].is_used
        PROVE  \E t \in Sender : Owner(c, t)' /\ (channels[c].counter = 0 \/ Filling(c, t, start)')
    <3>1. PICK t \in Sender : Owner(c, t) /\ (channels[c].counter = 0 \/ Filling(c, t, start))
      BY <1>1, <2>1
    <3>2. t # s /\ Owner(c, t)'
      BY <1>4, <3>1 DEF NoOwner, Owner
    <3>3. QED
      BY <1>3, <1>4, <3>1, <3>2
  <2>2. \A t \in Sender : \A b, c \in DOMAIN channels : Owner(b, t)' /\ Owner(c, t)' => b = c
    BY <1>2, <1>4 DEF Owner
  <2>3. QED
    BY <1>4, <2>1, <2>2 DEF EliChannels
<1>5. ASSUME NEW c \in DOMAIN channels, NEW n \in EliChannel, Into(c, n, s),
             Keeps(c, n, s, j, l, start) \/ Takes(c, n, s, j, l, start)
      PROVE  EliChannels(start)'
  <2>1. /\ DOMAIN channels' = DOMAIN channels /\ channels'[c] = n
        /\ \A t : Owner(c, t)' <=> n.is_used /\ t = s
        /\ \A b \in DOMAIN channels : b # c =>
             /\ channels'[b] = channels[b] /\ ~Owner(b, s)
             /\ \A t : Owner(b, t)' <=> Owner(b, t)
    BY <1>5, IntoIs
  <2>2. ASSUME NEW b \in DOMAIN channels, b # c, channels'[b].is_used
        PROVE  \E t \in Sender : Owner(b, t)' /\ (channels'[b].counter = 0 \/ Filling(b, t, start)')
    <3>1. channels'[b] = channels[b]
      BY <2>1, <2>2
    <3>2. PICK t \in Sender : Owner(b, t) /\ (channels[b].counter = 0 \/ Filling(b, t, start))
      BY <1>1, <2>2, <3>1
    <3>3. t # s /\ Owner(b, t)'
      BY <2>1, <2>2, <3>2
    <3>4. QED
      BY <1>3, <3>1, <3>2, <3>3
  <2>3. CASE Keeps(c, n, s, j, l, start)
    <3>1. n.counter = 0 \/ Filling(c, s, start)'
      <4>1. CASE ~Owner(c, s)
        BY <2>3, <4>1 DEF Keeps
      <4>2. CASE Owner(c, s)
        <5>1. /\ n.counter = channels[c].counter /\ n.buffer = channels[c].buffer
              /\ n.counter # start[s][j] + l - 1 /\ l # 1
          BY <2>3, <4>2 DEF Keeps
        <5>2. channels[c].counter = 0 \/ Filling(c, s, start)
          <6>1. PICK t \in Sender : Owner(c, t) /\ (channels[c].counter = 0 \/ Filling(c, t, start))
            BY <1>1, <4>2 DEF Owner
          <6>2. t = s
            BY <4>2, <6>1 DEF Owner
          <6>3. QED
            BY <6>1, <6>2
        <5>3. ASSUME Filling(c, s, start)
              PROVE  Filling(c, s, start)'
          <6>1. PICK i \in 1..sent[s] : \E k \in 1..Fragments(s, i) :
                  k < Fragments(s, i) /\ Holds(c, s, i, k, start) /\ Stopped(s, i, k)
            BY <5>3 DEF Filling
          <6>2. PICK k \in 1..Fragments(s, i) :
                  k < Fragments(s, i) /\ Holds(c, s, i, k, start) /\ Stopped(s, i, k)
            BY <6>1
          <6>3. ~(i = j /\ k + 1 = l)
            <7>1. k \in Nat /\ l \in Nat /\ j \in Nat
              BY SentIs
            <7>2. start[s][j] \in Nat
              BY <7>1 DEF NetInv, Counters
            <7>3. PICK x \in Nat : x = start[s][j]
              BY <7>2
            <7>4. n.counter # x + l - 1
              BY <5>1, <7>3
            <7>5. i = j => n.counter = x + k
              BY <5>1, <6>2, <7>3 DEF Holds
            <7>6. x + (k + 1) - 1 = x + k
              BY <7>1, <7>3
            <7>7. QED
              BY <7>4, <7>5, <7>6
          <6>4. Stopped(s, i, k)'
            BY <5>1, <6>2, <6>3, StopsStill
          <6>5. Holds(c, s, i, k, start)'
            BY <2>1, <5>1, <6>2 DEF Holds
          <6>6. QED
            BY <6>2, <6>4, <6>5 DEF Filling
        <5>4. QED
          BY <5>1, <5>2, <5>3
      <4>3. QED
        BY <4>1, <4>2
    <3>2. QED
      BY <2>1, <2>2, <3>1, <1>2 DEF EliChannels
  <2>4. CASE Takes(c, n, s, j, l, start)
    <3>1. ASSUME n.is_used
          PROVE  Filling(c, s, start)'
      <4>1. n.counter = start[s][j] + l /\ n.buffer = Prefix(s, j, l) /\ l # Fragments(s, j)
        BY <2>4, <3>1 DEF Takes
      <4>2. /\ l < Fragments(s, j) /\ l + 1 \in 1..Fragments(s, j) /\ ~(l + 1 < l) /\ l + 1 # l
            /\ l \in Nat /\ j \in Nat
        <5>1. Fragments(s, j) \in Nat /\ l \in Nat /\ j \in Nat
          BY SentIs
        <5>2. QED
          BY <4>1, <5>1
      <4>3. Stopped(s, j, l)'
        <5>1. EliGone(s, j, l)'
          BY DEF HeadIs
        <5>2. ~EliGone(s, j, l + 1)'
          BY <4>2 DEF HeadIs, Precedes
        <5>3. ASSUME NEW x \in 1..sent[s], j < x
              PROVE  ~EliGone(s, x, 1)'
          <6>1. x \in Nat /\ Fragments(s, x) \in Nat \ {0}
            BY SentIs
          <6>2. 1 \in 1..Fragments(s, x)
            BY <6>1
          <6>3. x # j /\ ~(x < j)
            BY <4>2, <5>3, <6>1
          <6>4. ~EliGone(s, x, 1)
            BY <6>2, <6>3 DEF HeadIs, Precedes
          <6>5. QED
            BY <6>2, <6>3, <6>4 DEF HeadIs
        <5>4. QED
          BY <5>1, <5>2, <5>3 DEF Stopped
      <4>4. Holds(c, s, j, l, start)'
        BY <2>1, <4>1 DEF Holds
      <4>5. QED
        BY <4>2, <4>3, <4>4 DEF Filling
    <3>2. QED
      BY <2>1, <2>2, <3>1, <1>2 DEF EliChannels
  <2>5. QED
    BY <1>5, <2>3, <2>4
<1>6. QED
  BY <1>4, <1>5 DEF Outcome

LEMMA MessagesDiffer ==
  ASSUME NEW s \in Sender, NEW i \in 1..Len(Sizes[s]), NEW t \in Sender, NEW j \in 1..Len(Sizes[t]),
         MessageBytes(s, i) = MessageBytes(t, j)
  PROVE  s = t /\ i = j
<1>1. Sizes[s][i] \in 1..BufferSize /\ Sizes[t][j] \in 1..BufferSize /\ BufferSize \in Nat
  BY Cut
<1>2. 1 \in 1..Sizes[s][i] /\ 1 \in 1..Sizes[t][j]
  BY <1>1
<1>3. MessageBytes(s, i)[1] = <<s, i, 1>> /\ MessageBytes(t, j)[1] = <<t, j, 1>>
  BY <1>2 DEF MessageBytes
<1>4. QED
  BY <1>3

LEMMA ReadGiven ==
  ASSUME EliTypes, NEW start, EliGiven,
         NEW s \in Sender, NEW j \in 1..sent[s], NEW l \in 1..Fragments(s, j),
         HeadIs(s, j, l), UNCHANGED sent, Outcome(s, j, l, start)
  PROVE  EliGiven'
<1> PICK m : m = Len(received)
  OBVIOUS
<1>1. received \in Seq(EliBuffer) /\ DOMAIN received = 1..m /\ m \in Nat
  BY DEF EliTypes
<1>2. \A t \in Sender : \A i \in 1..sent[t] :
        i \in 1..Len(Sizes[t]) /\ Fragments(t, i) \in 1..Fragments(t, i)
  <2> SUFFICES ASSUME NEW t \in Sender, NEW i \in 1..sent[t]
               PROVE  i \in 1..Len(Sizes[t]) /\ Fragments(t, i) \in 1..Fragments(t, i)
    OBVIOUS
  <2>1. i \in 1..Len(Sizes[t]) /\ Fragments(t, i) \in Nat \ {0}
    BY SentIs
  <2>2. QED
    BY <2>1
<1>3. \A r \in DOMAIN received : \E t \in Sender : \E i \in 1..sent[t] :
        received[r] = MessageBytes(t, i) /\ EliGone(t, i, Fragments(t, i))
  BY DEF EliGiven
<1>4. \A r \in DOMAIN received : \E t \in Sender : \E i \in 1..sent[t] :
        received[r] = MessageBytes(t, i) /\ EliGone(t, i, Fragments(t, i))'
  BY <1>2, <1>3 DEF HeadIs
<1>5. \A q, r \in DOMAIN received : q # r => received[q] # received[r]
  BY DEF EliGiven
<1>6. CASE received' = received
  BY <1>4, <1>5, <1>6 DEF EliGiven
<1>7. CASE l = Fragments(s, j) /\ received' = Append(received, MessageBytes(s, j))
  <2>1. /\ DOMAIN received' = 1..(m + 1) /\ received'[m + 1] = MessageBytes(s, j)
        /\ \A r \in 1..m : received'[r] = received[r]
    BY <1>1, <1>7
  <2>2. \A r \in 1..(m + 1) : r \in 1..m \/ r = m + 1
    BY <1>1
  <2>3. EliGone(s, j, Fragments(s, j))'
    BY <1>7 DEF HeadIs
  <2>4. ASSUME NEW r \in 1..m
        PROVE  received[r] # MessageBytes(s, j)
    <3>1. PICK t \in Sender : \E i \in 1..sent[t] :
            received[r] = MessageBytes(t, i) /\ EliGone(t, i, Fragments(t, i))
      BY <1>1, <1>3
    <3>2. PICK i \in 1..sent[t] : received[r] = MessageBytes(t, i) /\ EliGone(t, i, Fragments(t, i))
      BY <3>1
    <3>3. ~EliGone(s, j, l)
      <4>1. j \in Nat /\ l \in Nat
        BY SentIs
      <4>2. QED
        BY <4>1 DEF HeadIs, Precedes
    <3>4. ~(t = s /\ i = j)
      BY <1>7, <3>2, <3>3
    <3>5. QED
      BY <1>2, <3>2, <3>4, MessagesDiffer
  <2>5. \A r \in DOMAIN received' : \E t \in Sender : \E i \in 1..sent'[t] :
          received'[r] = MessageBytes(t, i) /\ EliGone(t, i, Fragments(t, i))'
    <3>1. ASSUME NEW r \in 1..m
          PROVE  \E t \in Sender : \E i \in 1..sent[t] :
                   received'[r] = MessageBytes(t, i) /\ EliGone(t, i, Fragments(t, i))'
      BY <1>1, <1>4, <2>1
    <3>2. QED
      BY <2>1, <2>2, <2>3, <3>1
  <2>6. ASSUME NEW q \in 1..(m + 1), NEW r \in 1..(m + 1), q # r
        PROVE  received'[q] # received'[r]
    BY <1>1, <1>5, <2>1, <2>2, <2>4, <2>6
  <2>7. QED
    BY <2>1, <2>5, <2>6 DEF EliGiven
<1>8. received' = received \/ (l = Fragments(s, j) /\ received' = Append(received, MessageBytes(s, j)))
  BY DEF Outcome, Keeps, Takes
<1>9. QED
  BY <1>6, <1>7, <1>8

(* The message of the fragment read goes on, or is given; another one is   *)
(* not begun yet, or was given or lost a fragment before.                  *)
LEMMA ReadReaches ==
  ASSUME EliTypes, NEW most \in Nat, NEW start, NetInv(start, most), EliChannels(start),
         EliReaches(start), NEW s \in Sender, NEW j \in 1..sent[s], NEW l \in 1..Fragments(s, j),
         HeadIs(s, j, l), UNCHANGED <<sent, lostDatagrams>>, Outcome(s, j, l, start)
  PROVE  EliReaches(start)'
<1>1. \A t \in Sender : \A i \in 1..sent[t] :
        /\ i \in Nat /\ Fragments(t, i) \in Nat \ {0} /\ 1 \in 1..Fragments(t, i)
        /\ \A k \in 1..Fragments(t, i) : k \in Nat
  <2> SUFFICES ASSUME NEW t \in Sender, NEW i \in 1..sent[t]
               PROVE  /\ i \in Nat /\ Fragments(t, i) \in Nat \ {0} /\ 1 \in 1..Fragments(t, i)
                      /\ \A k \in 1..Fragments(t, i) : k \in Nat
    OBVIOUS
  <2>1. i \in Nat /\ Fragments(t, i) \in Nat \ {0} /\ \A k \in 1..Fragments(t, i) : k \in Nat
    BY SentIs
  <2>2. QED
    BY <2>1
<1>2. j \in Nat /\ l \in Nat /\ l >= 1
  BY <1>1
<1>3. /\ Len(channels') = Len(channels) /\ DOMAIN channels' = DOMAIN channels
      /\ \A b \in DOMAIN channels : \A t \in Sender : t # s =>
           /\ Owner(b, t) => Owner(b, t)'
           /\ \A i, k : Owner(b, t) /\ Holds(b, t, i, k, start) => Holds(b, t, i, k, start)'
      /\ \A x : (\E r \in DOMAIN received : received[r] = x)
                  => \E r \in DOMAIN received' : received'[r] = x
  <2>1. ASSUME NEW x, NEW r \in DOMAIN received, received[r] = x
        PROVE  \E q \in DOMAIN received' : received'[q] = x
    <3>1. received' = received \/ received' = Append(received, MessageBytes(s, j))
      BY DEF Outcome, Keeps, Takes
    <3>2. CASE received' = received
      BY <2>1, <3>2
    <3>3. CASE received' = Append(received, MessageBytes(s, j))
      <4>1. received \in Seq(EliBuffer)
        BY DEF EliTypes
      <4>2. r \in DOMAIN received' /\ received'[r] = received[r]
        BY <3>3, <4>1
      <4>3. QED
        BY <2>1, <4>2
    <3>4. QED
      BY <3>1, <3>2, <3>3
  <2>2. CASE UNCHANGED channels
    BY <2>1, <2>2 DEF Owner, Holds
  <2>3. ASSUME NEW c \in DOMAIN channels, NEW n \in EliChannel, Into(c, n, s)
        PROVE  /\ Len(channels') = Len(channels) /\ DOMAIN channels' = DOMAIN channels
               /\ \A b \in DOMAIN channels : \A t \in Sender : t # s =>
                    /\ Owner(b, t) => Owner(b, t)'
                    /\ \A i, k : Owner(b, t) /\ Holds(b, t, i, k, start) => Holds(b, t, i, k, start)'
    <3>1. \A t \in Sender : Owner(c, t) => t = s
      BY <2>3 DEF Into, Owner
    <3>2. QED
      BY <2>3, <3>1, IntoIs
  <2>4. QED
    BY <2>1, <2>2, <2>3 DEF Outcome
<1>4. ASSUME NEW t \in Sender, NEW i \in 1..sent[t], t # s, Arriving(t, i, start)
      PROVE  Arriving(t, i, start)'
  <2>1. PICK k \in 1..Fragments(t, i) :
          /\ ReadOf(t, i, k)
          /\ k # 1 => \E c \in DOMAIN channels : Owner(c, t) /\ Holds(c, t, i, k - 1, start)
    BY <1>4 DEF Arriving
  <2>2. ReadOf(t, i, k)'
    BY <1>4, <2>1 DEF ReadOf, HeadIs
  <2>3. k # 1 => \E c \in DOMAIN channels' : Owner(c, t)' /\ Holds(c, t, i, k - 1, start)'
    BY <1>3, <1>4, <2>1
  <2>4. QED
    BY <2>2, <2>3 DEF Arriving
<1>5. ASSUME NEW i \in 1..sent[s], i # j, Arriving(s, i, start)
      PROVE  Arriving(s, i, start)'
  <2>1. PICK k \in 1..Fragments(s, i) : ReadOf(s, i, k)
    BY <1>5 DEF Arriving
  <2>2. k \in Nat /\ ~EliGone(s, i, k)
    BY <1>1, <2>1 DEF ReadOf
  <2>3. ~(i < j)
    BY <2>2 DEF HeadIs, Precedes
  <2>4. \A x \in 1..Fragments(s, i) : ~EliGone(s, i, x)
    BY <1>5, <2>3 DEF HeadIs, Precedes
  <2>5. \A x \in 1..Fragments(s, i) : ~EliGone(s, i, x)'
    BY <1>5, <2>4 DEF HeadIs
  <2>6. \A x \in 1..Fragments(s, i) : ~(x < 1)
    BY <1>1
  <2>7. 1 \in 1..Fragments(s, i) /\ ReadOf(s, i, 1)'
    BY <1>1, <2>5, <2>6 DEF ReadOf
  <2>8. QED
    BY <2>7 DEF Arriving
<1>6. ASSUME Arriving(s, j, start), Cardinality(Sender) <= Len(channels)
      PROVE  (\E r \in DOMAIN received' : received'[r] = MessageBytes(s, j)) \/ Arriving(s, j, start)'
  <2>1. PICK k \in 1..Fragments(s, j) :
          /\ ReadOf(s, j, k)
          /\ k # 1 => \E c \in DOMAIN channels : Owner(c, s) /\ Holds(c, s, j, k - 1, start)
    BY <1>6 DEF Arriving
  <2>2. k = l
    <3>1. \A x \in 1..Fragments(s, j) : EliGone(s, j, x) <=> x < l
      BY <1>2 DEF HeadIs, Precedes
    <3>2. k \in Nat /\ ~(k < l) /\ ~(l < k)
      BY <1>1, <1>2, <2>1, <3>1 DEF ReadOf
    <3>3. QED
      BY <1>2, <3>2
  <2>3. ~(UNCHANGED channels /\ NoOwner(s) /\ \A b \in DOMAIN channels : channels[b].is_used)
    BY <1>6, FreeChannel
  <2>4. PICK c \in DOMAIN channels, n \in EliChannel :
          Into(c, n, s) /\ (Keeps(c, n, s, j, l, start) \/ Takes(c, n, s, j, l, start))
    BY <2>3 DEF Outcome
  <2>5. Takes(c, n, s, j, l, start)
    <3>1. ASSUME Keeps(c, n, s, j, l, start)
          PROVE  FALSE
      <4>1. l # 1
        BY <3>1 DEF Keeps
      <4>2. PICK b \in DOMAIN channels : Owner(b, s) /\ Holds(b, s, j, l - 1, start)
        BY <2>1, <2>2, <4>1
      <4>3. b = c
        BY <2>4, <4>2, IntoIs
      <4>4. n.counter = channels[c].counter /\ n.counter # start[s][j] + l - 1
        BY <3>1, <4>2, <4>3 DEF Keeps
      <4>5. n.counter = start[s][j] + (l - 1)
        BY <4>2, <4>3, <4>4 DEF Holds
      <4>6. start[s][j] \in Nat
        BY <1>2 DEF NetInv, Counters
      <4>7. PICK x \in Nat : x = start[s][j]
        BY <4>6
      <4>8. x + (l - 1) = x + l - 1
        BY <1>2
      <4>9. QED
        BY <4>4, <4>5, <4>7, <4>8
    <3>2. QED
      BY <2>4, <3>1
  <2>6. CASE l = Fragments(s, j)
    <3>1. received' = Append(received, MessageBytes(s, j)) /\ received \in Seq(EliBuffer)
      BY <2>5, <2>6 DEF Takes, EliTypes
    <3>2. Len(received) + 1 \in DOMAIN received' /\ received'[Len(received) + 1] = MessageBytes(s, j)
      BY <3>1
    <3>3. QED
      BY <3>2
  <2>7. CASE l # Fragments(s, j)
    <3>1. l + 1 \in 1..Fragments(s, j) /\ (l + 1) - 1 = l
      BY <1>1, <1>2, <2>7
    <3>2. ReadOf(s, j, l + 1)'
      <4>1. \A x \in 1..Fragments(s, j) : EliGone(s, j, x)' <=> x < l \/ x = l
        BY <1>2 DEF HeadIs, Precedes
      <4>2. \A x \in 1..Fragments(s, j) : x < l + 1 <=> x < l \/ x = l
        BY <1>1, <1>2
      <4>3. QED
        BY <4>1, <4>2 DEF ReadOf
    <3>3. n.is_used /\ n.counter = start[s][j] + l /\ n.buffer = Prefix(s, j, l)
      BY <2>5, <2>7 DEF Takes
    <3>4. Owner(c, s)' /\ channels'[c] = n /\ c \in DOMAIN channels'
      BY <2>4, <3>3, IntoIs
    <3>5. Holds(c, s, j, l, start)'
      BY <3>3, <3>4 DEF Holds
    <3>6. \E b \in DOMAIN channels' : Owner(b, s)' /\ Holds(b, s, j, (l + 1) - 1, start)'
      BY <3>1, <3>4, <3>5
    <3>7. QED
      BY <3>1, <3>2, <3>6 DEF Arriving
  <2>8. QED
    BY <2>6, <2>7
<1>7. ASSUME NEW t \in Sender, NEW i \in 1..sent[t], Cardinality(Sender) <= Len(channels)
      PROVE  \/ \E k \in 1..Fragments(t, i) : LostPart(t, i, k)'
             \/ \E r \in DOMAIN received' : received'[r] = MessageBytes(t, i)
             \/ Arriving(t, i, start)'
  <2>1. \/ \E k \in 1..Fragments(t, i) : LostPart(t, i, k)
        \/ \E r \in DOMAIN received : received[r] = MessageBytes(t, i)
        \/ Arriving(t, i, start)
    BY <1>7 DEF EliReaches
  <2>2. CASE \E k \in 1..Fragments(t, i) : LostPart(t, i, k)
    BY <2>2 DEF LostPart
  <2>3. CASE \E r \in DOMAIN received : received[r] = MessageBytes(t, i)
    BY <1>3, <2>3
  <2>4. CASE Arriving(t, i, start)
    BY <1>4, <1>5, <1>6, <1>7, <2>4
  <2>5. QED
    BY <2>1, <2>2, <2>3, <2>4
<1>8. QED
  BY <1>3, <1>7 DEF EliReaches

(* The fragments of the messages, wherever they are.                       *)
EliInv(most) == EliTypes /\ \E start : NetInv(start, most) /\ EndInv(start)

LEMMA EliInitially ==
  ASSUME EliInit, NEW most \in Nat
  PROVE  EliInv(most)
<1> PICK start : start = [s \in Sender |-> [i \in Nat |-> FirstCounter]]
  OBVIOUS
<1>1. /\ sent = [s \in Sender |-> 0] /\ toSend = [s \in Sender |-> <<>>]
      /\ counter = [s \in Sender |-> FirstCounter] /\ FirstCounter \in Nat
      /\ datagrams = <<>> /\ lostDatagrams = {} /\ received = <<>>
  BY EliAssumption DEF EliInit
<1>2. /\ \A s \in Sender : 1..sent[s] = {} /\ sent[s] = 0 /\ toSend[s] = <<>>
      /\ \A s \in Sender : counter[s] = FirstCounter
  BY <1>1
<1>3. Counters(start, most)
  <2>1. start \in [Sender -> [Nat -> Nat]]
    BY <1>1
  <2>2. \A s \in Sender : counter[s] <= FirstCounter + sent[s] * most
    <3>1. 0 * most = 0 /\ FirstCounter <= FirstCounter + 0
      BY <1>1
    <3>2. QED
      BY <1>2, <3>1
  <2>3. QED
    BY <1>2, <2>1, <2>2 DEF Counters
<1>4. NetInv(start, most)
  BY <1>1, <1>2, <1>3 DEF NetInv, Queue, Known, InTurn, Closed
<1>5. \A c \in DOMAIN channels : ~channels[c].is_used
  <2>1. PICK n \in 1..ChannelNum :
          channels = [c \in 1..n |-> [is_used |-> FALSE, id |-> 0, counter |-> 0, buffer |-> <<>>]]
    BY DEF EliInit
  <2>2. QED
    BY <2>1
<1>6. EndInv(start)
  BY <1>1, <1>2, <1>5 DEF EndInv, EliChannels, EliGiven, EliReaches, Owner
<1>7. QED
  BY <1>4, <1>6, EliTypesInitially DEF EliInv

LEMMA EliKept ==
  ASSUME OneLost, NEW most \in Nat, FitWith(most), EliInv(most), [EliNext]_eliVars
  PROVE  EliInv(most)'
<1>1. EliTypes /\ EliTypes'
  BY EliTypesKept DEF EliInv
<1>2. PICK start : NetInv(start, most) /\ EndInv(start)
  BY DEF EliInv
<1>3. CASE UNCHANGED eliVars
  <2>1. NetInv(start, most)'
    BY <1>2, <1>3 DEF eliVars, NetInv, Counters, Queue, Known, InTurn, Closed, Waits, EliTravels, EliGone
  <2>2. Grows(start, start)
    BY <1>1, <1>3 DEF eliVars, Grows, Waits, EliTravels, EliGone, EliTypes
  <2>3. EndInv(start)'
    BY <1>1, <1>2, <1>3, <2>2, GrowsEnd DEF eliVars
  <2>4. QED
    BY <1>1, <2>1, <2>3 DEF EliInv
<1>4. ASSUME NEW s \in Sender, FragmentMessage(s)
      PROVE  EliInv(most)'
  <2>1. PICK later : NetInv(later, most)' /\ Grows(start, later)
    BY <1>1, <1>2, <1>4, FragmentNet
  <2>2. EndInv(later)'
    BY <1>1, <1>2, <1>4, <2>1, GrowsEnd DEF FragmentMessage
  <2>3. QED
    BY <1>1, <2>1, <2>2 DEF EliInv
<1>5. ASSUME NEW s \in Sender, SendDatagram(s)
      PROVE  EliInv(most)'
  <2>1. NetInv(start, most)' /\ Grows(start, start)
    BY <1>1, <1>2, <1>5, SendNet
  <2>2. EndInv(start)'
    BY <1>1, <1>2, <1>5, <2>1, GrowsEnd DEF SendDatagram
  <2>3. QED
    BY <1>1, <2>1, <2>2 DEF EliInv
<1>6. ASSUME PDReadMsg \/ LoseDatagram
      PROVE  EliInv(most)'
  <2>1. /\ datagrams # <<>> /\ datagrams' = Tail(datagrams)
        /\ UNCHANGED <<counting, sent, toSend, counter>>
        /\ PDReadMsg => UNCHANGED lostDatagrams
    BY <1>6 DEF PDReadMsg, LoseDatagram
  <2>2. /\ NetInv(start, most)'
        /\ \E s \in Sender : \E j \in 1..sent[s] : \E l \in 1..Fragments(s, j) :
             Head(datagrams) = Fragment(s, j, l, start[s][j]) /\ HeadIs(s, j, l)
    BY <1>1, <1>2, <2>1, HeadNet
  <2>3. PICK s \in Sender : \E j \in 1..sent[s] : \E l \in 1..Fragments(s, j) :
          Head(datagrams) = Fragment(s, j, l, start[s][j]) /\ HeadIs(s, j, l)
    BY <2>2
  <2>4. PICK j \in 1..sent[s] : \E l \in 1..Fragments(s, j) :
          Head(datagrams) = Fragment(s, j, l, start[s][j]) /\ HeadIs(s, j, l)
    BY <2>3
  <2>5. PICK l \in 1..Fragments(s, j) :
          Head(datagrams) = Fragment(s, j, l, start[s][j]) /\ HeadIs(s, j, l)
    BY <2>4
  <2>6. CASE LoseDatagram
    <3>1. EndInv(start)'
      BY <1>1, <1>2, <2>5, <2>6, LoseEnd
    <3>2. QED
      BY <1>1, <2>2, <3>1 DEF EliInv
  <2>7. CASE PDReadMsg
    <3>1. EliChannels(start) /\ EliGiven /\ EliReaches(start)
      BY <1>2 DEF EndInv
    <3>2. Outcome(s, j, l, start)
      BY <1>1, <1>2, <2>5, <2>7, <3>1, ReadOutcome
    <3>3. UNCHANGED sent /\ UNCHANGED lostDatagrams /\ UNCHANGED <<sent, lostDatagrams>>
      BY <2>1, <2>7
    <3>4. EliChannels(start)'
      BY <1>1, <1>2, <2>5, <3>1, <3>2, <3>3, ReadChannels
    <3>5. EliGiven'
      BY <1>1, <2>5, <3>1, <3>2, <3>3, ReadGiven
    <3>6. EliReaches(start)'
      BY <1>1, <1>2, <2>5, <3>1, <3>2, <3>3, ReadReaches
    <3>7. QED
      BY <1>1, <2>2, <3>4, <3>5, <3>6 DEF EliInv, EndInv
  <2>8. QED
    BY <1>6, <2>6, <2>7
<1>7. QED
  BY <1>3, <1>4, <1>5, <1>6 DEF EliNext

LEMMA EliGives ==
  ASSUME NEW most, EliInv(most)
  PROVE  EliWhole /\ EliArrives
<1>1. EliTypes
  BY DEF EliInv
<1>2. PICK start : NetInv(start, most) /\ EliChannels(start) /\ EliGiven /\ EliReaches(start)
  BY DEF EliInv, EndInv
<1>3. EliWhole
  BY <1>2 DEF EliGiven, EliWhole
<1>4. ASSUME Cardinality(Sender) <= Len(channels), NEW s \in Sender, NEW i \in 1..sent[s]
      PROVE  \/ \E b \in lostDatagrams : b[1] = s /\ b[2] = i
             \/ toSend[s] # <<>> \/ \E k \in DOMAIN datagrams : datagrams[k].id = s
             \/ Contains(received, MessageBytes(s, i))
  <2>1. \/ \E k \in 1..Fragments(s, i) : LostPart(s, i, k)
        \/ \E r \in DOMAIN received : received[r] = MessageBytes(s, i)
        \/ Arriving(s, i, start)
    BY <1>2, <1>4 DEF EliReaches
  <2>2. CASE \E k \in 1..Fragments(s, i) : LostPart(s, i, k)
    <3>1. PICK k \in 1..Fragments(s, i) : <<s, i, Begin(k) + 1>> \in lostDatagrams
      BY <2>2 DEF LostPart
    <3>2. PICK b : b = <<s, i, Begin(k) + 1>>
      OBVIOUS
    <3>3. b \in lostDatagrams /\ b[1] = s /\ b[2] = i
      BY <3>1, <3>2
    <3>4. QED
      BY <3>3
  <2>3. CASE \E r \in DOMAIN received : received[r] = MessageBytes(s, i)
    <3>1. received \in Seq(EliBuffer)
      BY <1>1 DEF EliTypes
    <3>2. \E r \in 1..Len(received) : received[r] = MessageBytes(s, i)
      BY <2>3, <3>1
    <3>3. QED
      BY <3>2 DEF Contains
  <2>4. CASE Arriving(s, i, start) /\ toSend[s] = <<>>
    <3>1. PICK k \in 1..Fragments(s, i) : ReadOf(s, i, k)
      BY <2>4 DEF Arriving
    <3>2. k \in Nat /\ Fragments(s, i) \in Nat /\ k <= Fragments(s, i) /\ i \in 1..Len(Sizes[s])
      BY <1>1, SentIs
    <3>3. ~EliGone(s, i, k)
      BY <3>1, <3>2 DEF ReadOf
    <3>4. ~Waits(s, i, k)
      <4>1. Len(toSend[s]) = 0
        BY <2>4
      <4>2. QED
        BY <3>2, <4>1 DEF Waits
    <3>5. PICK q \in DOMAIN datagrams : datagrams[q].payload = Piece(s, i, k)
      BY <3>3, <3>4 DEF EliGone, EliTravels
    <3>6. PICK t \in Sender : \E j \in 1..sent[t] : \E l \in 1..Fragments(t, j) :
            datagrams[q] = Fragment(t, j, l, start[t][j])
      BY <1>2 DEF NetInv, Known
    <3>7. PICK j \in 1..sent[t] : \E l \in 1..Fragments(t, j) :
            datagrams[q] = Fragment(t, j, l, start[t][j])
      BY <3>6
    <3>8. PICK l \in 1..Fragments(t, j) : datagrams[q] = Fragment(t, j, l, start[t][j])
      BY <3>7
    <3>9. Piece(t, j, l) = Piece(s, i, k) /\ datagrams[q].id = t
      BY <3>5, <3>8 DEF Fragment
    <3>10. j \in 1..Len(Sizes[t])
      BY <1>1, SentIs
    <3>11. t = s
      BY <3>2, <3>9, <3>10, PiecesDiffer
    <3>12. QED
      BY <3>9, <3>11
  <2>5. QED
    BY <2>1, <2>2, <2>3, <2>4
<1>5. EliArrives
  BY <1>4 DEF EliArrives
<1>6. QED
  BY <1>3, <1>5
-----------------------------------------------------------------------------
(* What stays true of a connection also when its peer disappears within a  *)
(* message: the numbers that the reader works with.                        *)
TornInv ==
  /\ TcpTypeOK
  /\ writing \in [Writer -> Seq(Message \X Nat)] /\ stream \in Seq(Message \X Nat)
  /\ DOMAIN buffer = 0..(BufSize - 1) /\ offset <= bytes_read
  /\ rpc = "header" => Message # {}
  /\ rpc = "body" => Remaining >= Header
  /\ rpc = "consume" => \E m \in Message : HeaderAt(m) /\ Remaining >= Size(m)

LEMMA TornNumbers ==
  ASSUME TornInv
  PROVE  /\ Len(stream) \in Nat /\ offset \in Nat /\ bytes_read \in Nat /\ BufSize \in Nat
         /\ bytes_read <= BufSize /\ Remaining \in Nat /\ Header \in Nat \ {0}
         /\ \A m \in Message : Size(m) \in Nat /\ Size(m) >= Header /\ Size(m) <= BufSize
<1>1. /\ offset \in 0..BufSize /\ bytes_read \in 0..BufSize /\ offset <= bytes_read
      /\ stream \in Seq(Message \X Nat)
  BY DEF TornInv, TcpTypeOK
<1>2. BufSize \in Nat /\ Header \in Nat \ {0}
  BY StreamAssumption
<1>3. \A m \in Message : Size(m) \in Nat /\ Size(m) >= Header /\ Size(m) <= BufSize
  BY <1>2, StreamAssumption DEF Size, Message
<1>4. Remaining \in Nat
  BY <1>1, <1>2 DEF Remaining
<1>5. QED
  BY <1>1, <1>2, <1>3, <1>4

LEMMA TornInitially == TcpInit => TornInv
<1> SUFFICES ASSUME TcpInit
             PROVE  TornInv
  OBVIOUS
<1>1. BufSize \in Nat
  BY StreamAssumption
<1>2. QED
  BY <1>1 DEF TcpInit, TornInv, TcpTypeOK

(* A header tells its message.                                             *)
LEMMA OneHeader ==
  ASSUME NEW m \in Message, NEW n \in Message, HeaderAt(m), HeaderAt(n)
  PROVE  m = n
<1>1. 1 \in 1..Header
  BY StreamAssumption
<1>2. buffer[offset + 1 - 1] = <<m, 1>> /\ buffer[offset + 1 - 1] = <<n, 1>>
  BY <1>1 DEF HeaderAt
<1>3. QED
  BY <1>2

(* ldp_complete_msg: the buffer holds n bytes, and the header that it held. *)
LEMMA TornCompletes ==
  ASSUME TornInv, NEW n \in Nat, n <= BufSize, NEW next, CompleteMsg(n, next)
  PROVE  /\ rpc' = next /\ DOMAIN buffer' = DOMAIN buffer
         /\ offset' \in 0..BufSize /\ bytes_read' \in 0..BufSize /\ offset' <= bytes_read'
         /\ stream' \in Seq(Message \X Nat) /\ Remaining' >= n
         /\ \A m \in Message : HeaderAt(m) /\ Remaining >= Header => HeaderAt(m)'
<1>1. /\ Len(stream) \in Nat /\ offset \in Nat /\ bytes_read \in Nat /\ BufSize \in Nat
      /\ bytes_read <= BufSize /\ Remaining \in Nat /\ Header \in Nat \ {0}
      /\ offset <= bytes_read /\ stream \in Seq(Message \X Nat)
      /\ DOMAIN buffer = 0..(BufSize - 1)
  BY TornNumbers DEF TornInv
<1>2. CASE Remaining >= n /\ rpc' = next /\ UNCHANGED <<buffer, offset, bytes_read, stream>>
  <2>1. Remaining' = Remaining
    BY <1>2 DEF Remaining
  <2>2. \A m \in Message : HeaderAt(m) => HeaderAt(m)'
    BY <1>2 DEF HeaderAt
  <2>3. QED
    BY <1>1, <1>2, <2>1, <2>2
<1>3. CASE /\ Remaining < n /\ rpc' = next
           /\ LET missing == n - Remaining
                  got == Exactly(missing) IN
                /\ buffer' = [i \in DOMAIN buffer |->
                                IF i \in Remaining..(Remaining + got - 1)
                                THEN stream[i - Remaining + 1] ELSE Moved[i]]
                /\ stream' = Rest(stream, got)
           /\ offset' = 0 /\ bytes_read' = n
  <2>1. PICK got : /\ got = Exactly(n - Remaining)
                   /\ buffer' = [i \in DOMAIN buffer |->
                                   IF i \in Remaining..(Remaining + got - 1)
                                   THEN stream[i - Remaining + 1] ELSE Moved[i]]
                   /\ stream' = Rest(stream, got)
    BY <1>3
  <2>2. got \in 0..Len(stream)
    <3>1. n - Remaining \in Nat
      BY <1>1, <1>3
    <3>2. got = IF n - Remaining <= Len(stream) THEN n - Remaining ELSE Len(stream)
      BY <1>1, <2>1, <3>1, LeastOfTwo DEF Exactly
    <3>3. QED
      BY <1>1, <3>1, <3>2
  <2>3. stream' \in Seq(Message \X Nat)
    BY <1>1, <2>1, <2>2, RestOf
  <2>4. Remaining' = n
    BY <1>1, <1>3 DEF Remaining
  <2>5. ASSUME NEW m \in Message, HeaderAt(m), Remaining >= Header
        PROVE  HeaderAt(m)'
    <3>1. ASSUME NEW k \in 1..Header
          PROVE  buffer'[offset' + k - 1] = <<m, k>>
      <4>1. k - 1 \in 0..(BufSize - 1) /\ k - 1 < Remaining /\ offset' + k - 1 = k - 1
            /\ offset + (k - 1) = offset + k - 1
        <5>1. Remaining <= BufSize
          BY <1>1 DEF Remaining
        <5>2. QED
          BY <1>1, <1>3, <2>5, <5>1
      <4>2. k - 1 \notin Remaining..(Remaining + got - 1)
        BY <1>1, <2>2, <4>1
      <4>3. buffer'[k - 1] = Moved[k - 1]
        BY <1>1, <2>1, <4>1, <4>2
      <4>4. Moved[k - 1] = buffer[offset + (k - 1)]
        BY <1>1, <4>1 DEF Moved
      <4>5. buffer[offset + k - 1] = <<m, k>>
        BY <2>5 DEF HeaderAt
      <4>6. QED
        BY <4>1, <4>3, <4>4, <4>5
    <3>2. QED
      BY <3>1 DEF HeaderAt
  <2>6. DOMAIN buffer' = DOMAIN buffer
    BY <2>1
  <2>7. QED
    BY <1>1, <1>3, <2>3, <2>4, <2>5, <2>6
<1>4. QED
  BY <1>2, <1>3 DEF CompleteMsg

LEMMA TornReads ==
  ASSUME TornInv, Reader
  PROVE  TornInv'
<1>1. /\ Len(stream) \in Nat /\ offset \in Nat /\ bytes_read \in Nat /\ BufSize \in Nat
      /\ bytes_read <= BufSize /\ Remaining \in Nat /\ Header \in Nat \ {0}
      /\ \A m \in Message : Size(m) \in Nat /\ Size(m) >= Header /\ Size(m) <= BufSize
  BY TornNumbers
<1>2. CASE Poll
  <2>1. UNCHANGED <<tcpPartial, todo, writing, written, peer, delivered>>
    BY <1>2 DEF Poll
  <2>2. CASE /\ stream = <<>> /\ peer = "closed" /\ rpc' = "closed"
             /\ UNCHANGED <<buffer, offset, bytes_read, stream>>
    BY <2>1, <2>2 DEF TornInv, TcpTypeOK
  <2>3. ASSUME stream # <<>>, NEW n \in 1..Min({Len(stream), BufSize}),
               buffer' = Received(0, n), bytes_read' = n, stream' = Rest(stream, n),
               offset' = 0, rpc' = "header"
        PROVE  TornInv'
    <3>1. n \in Nat /\ n <= BufSize /\ n \in 0..Len(stream)
      BY <1>1, <2>3, LeastOfTwo
    <3>2. stream' \in Seq(Message \X Nat)
      BY <2>3, <3>1, RestOf DEF TornInv
    <3>3. Message # {}
      BY <2>3 DEF TornInv
    <3>4. DOMAIN buffer' = DOMAIN buffer
      BY <2>3 DEF Received
    <3>5. QED
      BY <1>1, <2>1, <2>3, <3>1, <3>2, <3>3, <3>4 DEF TornInv, TcpTypeOK
  <2>4. QED
    BY <1>2, <2>2, <2>3 DEF Poll
<1>3. CASE ReadHeader
  <2>1. /\ rpc = "header" /\ CompleteMsg(Header, "body")
        /\ UNCHANGED <<tcpPartial, todo, writing, written, peer, delivered>>
    BY <1>3 DEF ReadHeader
  <2>2. Header <= BufSize
    BY <1>1, <2>1 DEF TornInv
  <2>3. /\ rpc' = "body" /\ DOMAIN buffer' = DOMAIN buffer
        /\ offset' \in 0..BufSize /\ bytes_read' \in 0..BufSize /\ offset' <= bytes_read'
        /\ stream' \in Seq(Message \X Nat) /\ Remaining' >= Header
    BY <1>1, <2>1, <2>2, TornCompletes
  <2>4. QED
    BY <2>1, <2>3 DEF TornInv, TcpTypeOK
<1>4. CASE ReadBody
  <2>1. PICK m \in Message : HeaderAt(m) /\ CompleteMsg(Size(m), "consume")
    BY <1>4 DEF ReadBody
  <2>2. rpc = "body" /\ UNCHANGED <<tcpPartial, todo, writing, written, peer, delivered>>
    BY <1>4 DEF ReadBody
  <2>3. Remaining >= Header
    BY <2>2 DEF TornInv
  <2>4. PICK size \in Nat : size = Size(m) /\ size <= BufSize
    BY <1>1
  <2>5. /\ rpc' = "consume" /\ DOMAIN buffer' = DOMAIN buffer
        /\ offset' \in 0..BufSize /\ bytes_read' \in 0..BufSize /\ offset' <= bytes_read'
        /\ stream' \in Seq(Message \X Nat) /\ Remaining' >= size
        /\ HeaderAt(m)'
    <3>1. CompleteMsg(size, "consume")
      BY <2>1, <2>4
    <3>2. QED
      BY <2>1, <2>3, <2>4, <3>1, TornCompletes
  <2>6. Size(m)' = size
    BY <2>4 DEF Size
  <2>7. (\E n \in Message : HeaderAt(n) /\ Remaining >= Size(n))'
    BY <2>5, <2>6
  <2>8. QED
    BY <2>2, <2>5, <2>7 DEF TornInv, TcpTypeOK
<1>5. CASE Consume
  <2>1. PICK m \in Message : /\ HeaderAt(m) /\ delivered' = Append(delivered, Consumed(m))
                             /\ offset' = offset + Step(m)
                             /\ rpc' = IF offset' < bytes_read THEN "header" ELSE "poll"
    BY <1>5 DEF Consume
  <2>2. rpc = "consume" /\ UNCHANGED <<tcpPartial, todo, writing, written, stream, peer, buffer, bytes_read>>
    BY <1>5 DEF Consume
  <2>3. PICK n \in Message : HeaderAt(n) /\ Remaining >= Size(n)
    BY <2>2 DEF TornInv
  <2>4. m = n
    BY <2>1, <2>3, OneHeader
  <2>5. Step(m) = Size(m)
    BY StreamAssumption DEF Step, Size, Message
  <2>6. Remaining >= Size(m) /\ Size(m) \in Nat
    BY <1>1, <2>3, <2>4
  <2>7. offset' \in Nat /\ offset' <= bytes_read
    BY <1>1, <2>1, <2>5, <2>6 DEF Remaining
  <2>8. Consumed(m) \in Message \cup {Torn}
    BY DEF Consumed
  <2>9. delivered' \in Seq(Message \cup {Torn})
    BY <2>1, <2>8 DEF TornInv, TcpTypeOK
  <2>10. offset' \in 0..BufSize
    BY <1>1, <2>7
  <2>11. rpc' \in {"header", "poll"} /\ Message # {}
    BY <2>1
  <2>12. QED
    BY <2>2, <2>7, <2>9, <2>10, <2>11 DEF TornInv, TcpTypeOK
<1>6. QED
  BY <1>2, <1>3, <1>4, <1>5 DEF Reader

LEMMA TornWrites ==
  ASSUME TornInv, NEW w \in Writer, IPWrite(w) \/ SocketSend(w) \/ SendFails(w) \/ PeerCloses
  PROVE  TornInv'
<1>1. /\ writing \in [Writer -> Seq(Message \X Nat)] /\ stream \in Seq(Message \X Nat)
      /\ TcpTypeOK
  BY DEF TornInv
<1>2. ASSUME UNCHANGED <<tcpPartial, rpc, buffer, offset, bytes_read, delivered>>,
             todo' \subseteq Message, written' \in Seq(Message), peer' \in {"open", "closed"},
             writing' \in [Writer -> Seq(Message \X Nat)], stream' \in Seq(Message \X Nat)
      PROVE  TornInv'
  <2>1. /\ Remaining' = Remaining
        /\ \A m : (HeaderAt(m)' <=> HeaderAt(m)) /\ Size(m)' = Size(m)
    BY <1>2 DEF Remaining, HeaderAt, Size
  <2>2. TcpTypeOK'
    BY <1>1, <1>2 DEF TcpTypeOK
  <2>3. (rpc = "consume" => \E m \in Message : HeaderAt(m) /\ Remaining >= Size(m))'
    BY <1>2, <2>1 DEF TornInv
  <2>4. QED
    BY <1>2, <2>1, <2>2, <2>3 DEF TornInv
<1>3. CASE IPWrite(w)
  <2>1. PICK m \in todo : todo' = todo \ {m} /\ writing' = [writing EXCEPT ![w] = Bytes(m)]
    BY <1>3 DEF IPWrite
  <2>2. UNCHANGED <<tcpPartial, written, stream, peer, rpc, buffer, offset, bytes_read, delivered>>
    BY <1>3 DEF IPWrite
  <2>3. m \in Message /\ Size(m) \in Nat
    BY <1>1, TornNumbers DEF TcpTypeOK
  <2>4. PICK b : b = Bytes(m)
    OBVIOUS
  <2>5. b \in Seq(Message \X Nat)
    BY <2>3, <2>4 DEF Bytes
  <2>6. writing' \in [Writer -> Seq(Message \X Nat)]
    BY <1>1, <2>1, <2>4, <2>5
  <2>7. QED
    BY <1>1, <1>2, <2>1, <2>2, <2>6 DEF TcpTypeOK
<1>4. CASE SocketSend(w)
  <2> PICK s : s = writing[w]
    OBVIOUS
  <2>1. PICK n \in 1..Len(s) : /\ stream' = stream \o SubSeq(s, 1, n)
                               /\ writing' = [writing EXCEPT ![w] = Rest(@, n)]
    BY <1>4 DEF SocketSend
  <2>2. /\ s # <<>>
        /\ written' = LET b == Head(s) IN IF b[2] = 1 THEN Append(written, b[1]) ELSE written
        /\ UNCHANGED <<tcpPartial, todo, peer, rpc, buffer, offset, bytes_read, delivered>>
    BY <1>4 DEF SocketSend
  <2>3. s \in Seq(Message \X Nat)
    BY <1>1
  <2>4. Len(s) \in Nat /\ n \in Nat /\ n <= Len(s) /\ n \in 0..Len(s)
    BY <2>3
  <2>5. PICK r : r = Rest(s, n)
    OBVIOUS
  <2>6. r \in Seq(Message \X Nat)
    BY <2>3, <2>4, <2>5, RestOf
  <2>7. writing' \in [Writer -> Seq(Message \X Nat)]
    <3>1. writing' = [writing EXCEPT ![w] = r]
      BY <2>1, <2>5
    <3>2. QED
      BY <1>1, <2>6, <3>1
  <2>8. SubSeq(s, 1, n) \in Seq(Message \X Nat)
    BY <2>3, <2>4
  <2>9. stream' \in Seq(Message \X Nat)
    BY <1>1, <2>1, <2>8
  <2>10. Head(s) \in Message \X Nat
    BY <2>2, <2>3
  <2>11. written' \in Seq(Message)
    BY <1>1, <2>2, <2>10 DEF TcpTypeOK
  <2>12. QED
    BY <1>1, <1>2, <2>2, <2>7, <2>9, <2>11 DEF TcpTypeOK
<1>5. CASE PeerCloses
  <2>1. /\ peer' = "closed" /\ todo' = {} /\ writing' = [v \in Writer |-> <<>>]
        /\ UNCHANGED <<tcpPartial, written, stream, rpc, buffer, offset, bytes_read, delivered>>
    BY <1>5 DEF PeerCloses
  <2>2. writing' \in [Writer -> Seq(Message \X Nat)]
    BY <2>1
  <2>3. QED
    BY <1>1, <1>2, <2>1, <2>2 DEF TcpTypeOK
<1>6. CASE SendFails(w)
  <2>1. /\ writing' = [writing EXCEPT ![w] = <<>>]
        /\ UNCHANGED <<tcpPartial, todo, written, stream, peer, rpc, buffer, offset, bytes_read,
                       delivered>>
    BY <1>6 DEF SendFails
  <2>2. writing' \in [Writer -> Seq(Message \X Nat)]
    BY <1>1, <2>1
  <2>3. QED
    BY <1>1, <1>2, <2>1, <2>2 DEF TcpTypeOK
<1>7. QED
  BY <1>3, <1>4, <1>5, <1>6

LEMMA TornKept == TornInv /\ [TcpNext]_tcpVars => TornInv'
<1>1. ASSUME TornInv, UNCHANGED tcpVars
      PROVE  TornInv'
  <2>1. UNCHANGED <<tcpPartial, todo, writing, written, stream, peer, rpc, buffer, offset,
                    bytes_read, delivered>>
    BY <1>1 DEF tcpVars
  <2>2. QED
    BY <1>1, <2>1 DEF TornInv, TcpTypeOK, Remaining, HeaderAt, Size
<1>2. \E w : w \in Writer
  BY StreamAssumption
<1>3. QED
  BY <1>1, <1>2, TornReads, TornWrites DEF TcpNext

-----------------------------------------------------------------------------
(* The links together.                                                     *)
LinksInv ==
  /\ TornInv /\ LinkInv /\ UdpInv /\ ArriveInv /\ PortInv /\ EliTypes /\ StatusInv

(* A step is of one link; the others stay as they are.                     *)
LEMMA StepOfALink ==
  ASSUME [Next]_vars
  PROVE  /\ [TcpNext]_tcpVars /\ [LinkNext]_linkVars /\ [UdpNext]_udpVars /\ [PortNext]_portVars
         /\ [EliNext]_eliVars /\ [StatusNext]_statusVars
<1>1. UNCHANGED localVars =>
        UNCHANGED tcpVars /\ UNCHANGED linkVars /\ UNCHANGED udpVars /\ UNCHANGED portVars
  BY DEF localVars
<1>2. CASE UNCHANGED vars
  BY <1>1, <1>2 DEF vars
<1>3. CASE Tcp /\ TcpNext
  BY <1>3 DEF Tcp, OtherPlatforms
<1>4. CASE Connections /\ LinkNext
  BY <1>4 DEF Connections, OtherPlatforms
<1>5. CASE Udp /\ UdpNext
  BY <1>5 DEF Udp, OtherPlatforms
<1>6. CASE Port /\ PortNext
  BY <1>6 DEF Port, OtherPlatforms
<1>7. CASE Datagrams /\ EliNext
  BY <1>1, <1>7 DEF Datagrams
<1>8. CASE Status /\ StatusNext
  BY <1>1, <1>8 DEF Status
<1>9. QED
  BY <1>2, <1>3, <1>4, <1>5, <1>6, <1>7, <1>8 DEF Next

(* The invariant of the links.                                             *)
LEMMA LinksInvariant == Spec => []LinksInv
<1>1. Init => LinksInv
  BY TornInitially, LinkInitially, UdpInitially, PortInitially, EliTypesInitially, StatusInitially
     DEF Init, LinksInv
<1>2. LinksInv /\ [Next]_vars => LinksInv'
  BY StepOfALink, TornKept, LinkKept, UdpKept, PortKept, EliTypesKept, StatusKept DEF LinksInv
<1>3. QED
  BY <1>1, <1>2, PTL DEF Spec

(* What the servers know of their links is well formed, for any processes, *)
(* sizes and numbers of buffers, whoever dies and whatever is lost: each   *)
(* interface is in the list of those to connect or has a connection, and a *)
(* domain is attached to all its ports or to none (ldp_tcp.c, apr_port.c,  *)
(* ldp_core_udp.c, ldp_ELI_udp.c).                                         *)
THEOREM LinksKeepTheirForm == Spec => []LinksWellFormed
<1>1. LinksInv => LinksWellFormed
  BY LinkInvGives, UdpInvGives, PortInvGives, EliTypesGive, StatusInvGives
     DEF LinksInv, TornInv, LinksWellFormed
<1>2. QED
  BY <1>1, LinksInvariant, PTL

(* The counters of the messages of a sender fit in 16 bits.                *)
CountersFit == \E most \in Nat : FitWith(most)

LEMMA EliInvariant ==
  ASSUME OneLost, NEW most \in Nat, FitWith(most)
  PROVE  Spec => []EliInv(most)
<1>1. Init => EliInv(most)
  BY EliInitially DEF Init
<1>2. EliInv(most) /\ [Next]_vars => EliInv(most)'
  BY StepOfALink, EliKept
<1>3. QED
  BY <1>1, <1>2, PTL DEF Spec

(* A message is delivered as one sender sent it, whole and at most once,   *)
(* whatever fragments are lost or overtaken, between the domains of a      *)
(* platform (ldp_core_udp.c) and between platforms (ldp_ELI_udp.c).  It     *)
(* needs the counters of ELI not to wrap around, and, where every message  *)
(* starts the same counter, that no more than one of its fragments is lost:*)
(* two are too many, as the run EliLostPair shows.                         *)
THEOREM MessagesAreWhole == OneLost /\ CountersFit => (Spec => []MessagesWhole)
<1>1. ASSUME OneLost, NEW most \in Nat, FitWith(most)
      PROVE  Spec => []MessagesWhole
  <2>1. LinksInv /\ EliInv(most) => MessagesWhole
    BY UdpInvGives, EliGives DEF LinksInv, MessagesWhole
  <2>2. Spec => []EliInv(most)
    BY <1>1, EliInvariant
  <2>3. QED
    BY <2>1, <2>2, LinksInvariant, PTL
<1>2. QED
  BY <1>1 DEF CountersFit

(* A message none of whose fragments is lost is given, when there is a     *)
(* buffer or a channel for each sender, however many before it were left   *)
(* incomplete: an incomplete one gives its place back (ldp_core_udp.c,      *)
(* ldp_ELI_udp.c).                                                         *)
THEOREM MessagesDoArrive == OneLost /\ CountersFit => (Spec => []MessagesArrive)
<1>1. ASSUME OneLost, NEW most \in Nat, FitWith(most)
      PROVE  Spec => []MessagesArrive
  <2>1. LinksInv /\ EliInv(most) => MessagesArrive
    BY ArriveInvGives, EliGives DEF LinksInv, MessagesArrive
  <2>2. Spec => []EliInv(most)
    BY <1>1, EliInvariant
  <2>3. QED
    BY <2>1, <2>2, LinksInvariant, PTL
<1>2. QED
  BY <1>1 DEF CountersFit
=============================================================================
