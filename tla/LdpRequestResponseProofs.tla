---------------------- MODULE LdpRequestResponseProofs ----------------------
(***************************************************************************)
(* Proofs about LdpRequestResponse, for any numbers of entries, requests   *)
(* and elements.  Two uses of the tables are safe: no date passes while a  *)
(* request is outstanding, or the answering threads preempt the client's.  *)
(***************************************************************************)
EXTENDS LdpRequestResponse, FiniteSetTheorems, FunctionTheorems,
        SequenceTheorems, TLAPS

(* The requests that are somewhere, entries no longer in use included.     *)
Known ==
  {creq, treq} \cup {areq[a] : a \in Answerer} \cup network
    \cup {requests[i] : i \in 1..Len(requests)} \cup armed \cup {data[n] : n \in Node}

(* An identifier is that of one request.                                   *)
Identified ==
  /\ \A r, s \in Known : r.id = s.id => r = s
  /\ \A r \in Known : r.id <= last_id
  /\ \A r \in armed \cup {treq} : ~r.sync

(* A node is unused once, a request has one node.                          *)
EntriesDiffer ==
  /\ \A i, j \in 1..Len(unused) : unused[i] = unused[j] => i = j
  /\ \A m, n \in Node : data[m] = data[n] /\ data[m] # NoReq => m = n
  /\ \A n \in Node : InUse(n) => data[n] # NoReq
  /\ Outstanding <= MaxConcurrent

(* No message with the identifier of a request is in the client's FIFO.    *)
NoAnswer(r) == \A i \in 1..Len(fifo) : fifo[i].id # r.id

(* The requests that get one message at most: with dates that pass, an     *)
(* asynchronous one may get its timeout beside its answer.                 *)
Single(r) == r.sync \/ ~Expiry

(* A request is with one thread or queue at a time on its way to its       *)
(* answer: the client, the network or the server's FIFO, the thread that   *)
(* answers it, the client's FIFO.                                          *)
Unsent ==
  cpc \in {"add_received", "send", "undo", "undo_free"} =>
    /\ Single(creq) => NoAnswer(creq)
    /\ creq \notin network /\ \A i \in 1..Len(requests) : requests[i] # creq
    /\ \A a \in Answerer : apc[a] # "idle" => areq[a] # creq

InNetwork ==
  \A r \in network :
    /\ r # NoReq /\ r.server = "remote" /\ (Single(r) => NoAnswer(r))
    /\ apc["remote"] # "idle" => areq["remote"] # r

InQueue ==
  \A i \in 1..Len(requests) :
    /\ requests[i] # NoReq /\ requests[i].server = "local"
    /\ Single(requests[i]) => NoAnswer(requests[i])
    /\ apc["local"] # "idle" => areq["local"] # requests[i]
    /\ \A j \in 1..Len(requests) : requests[i] = requests[j] => i = j

BeingAnswered ==
  \A a \in Answerer : apc[a] # "idle" =>
    /\ areq[a] # NoReq /\ areq[a].server = a
    /\ apc[a] \in {"find", "check", "push", "fallback"} /\ Single(areq[a]) => NoAnswer(areq[a])

SingleKinds == IF Expiry THEN {"sync"} ELSE {"sync", "async"}
Once(f) ==
  \A i, j \in 1..Len(f) :
    f[i].kind \in SingleKinds /\ f[i].kind = f[j].kind /\ f[i].id = f[j].id => i = j

Messages ==
  /\ \A i \in 1..Len(fifo) :
       fifo[i].id <= last_id /\ (fifo[i].kind = "event" <=> fifo[i].id = 0)
  /\ Once(fifo)

(* What the client, the trigger and the answering threads have at each of  *)
(* their steps.                                                            *)
ClientAt ==
  /\ cpc # "idle" => creq # NoReq
  /\ cpc \in {"wait", "waiting", "woken", "timed_out", "free_sent"} => creq.sync
  /\ cpc \in {"add_received", "undo", "undo_free"} => creq.server = "local"
  /\ tpc # "idle" => treq # NoReq

Handling == {"check", "push", "fallback", "free", "signal"}
AnswererAt ==
  /\ \A a \in Answerer : apc[a] \in Handling => anode[a] \in Node /\ data[anode[a]] = areq[a]
  /\ \A a \in Answerer :
       apc[a] \in {"fallback", "signal"} \/ (a = "local" /\ apc[a] = "free") => areq[a].sync
  /\ apc["remote"] # "done"

TableInv ==
  /\ TypeOK /\ Identified /\ EntriesDiffer
  /\ Unsent /\ InNetwork /\ InQueue /\ BeingAnswered /\ Messages
  /\ ClientAt /\ AnswererAt

-----------------------------------------------------------------------------
(* No date passes, no wait ends for no reason, the client's FIFO has an    *)
(* element for each of its asynchronous requests, and the table has an     *)
(* entry for each, one for a synchronous request and one for the last that *)
(* the router has yet to free (lib/ldp_request_response.c gives every      *)
(* table two at least).                                                    *)
InTime ==
  /\ ~Expiry /\ ~SpuriousWakeups
  /\ MaxConcurrent <= AnswerPool /\ MaxConcurrent + 2 <= Cardinality(Node)

HasEntry(r) == \E n \in Node : InUse(n) /\ data[n] = r

(* The request of a thread on its way has its entry, which it alone frees. *)
EntryOfClient ==
  /\ cpc \in {"add_received", "send", "undo"} => HasEntry(creq)
  /\ cpc = "undo_free" => cnode \in Node /\ InUse(cnode) /\ data[cnode] = creq
  /\ cpc \notin {"timed_out", "free_sent"}

EntryOfAnswerer ==
  /\ \A r \in network : HasEntry(r)
  /\ \A i \in 1..Len(requests) : HasEntry(requests[i])
  /\ \A a \in Answerer :
       /\ apc[a] = "find" => HasEntry(areq[a])
       /\ apc[a] \in Handling => (InUse(anode[a]) <=> ~(a = "local" /\ apc[a] = "signal"))
  /\ apc["remote"] = "free" => areq["remote"].sync

(* A synchronous request that is to be signalled is the one the client     *)
(* waits for.                                                              *)
WaitsFor(r) == creq = r /\ cpc \in {"wait", "waiting"}
ToSignal(a) ==
  apc[a] \in {"find", "check", "push", "fallback", "signal"} \/ (a = "local" /\ apc[a] = "free")
OneWait ==
  /\ \A r \in network : r.sync => WaitsFor(r)
  /\ \A i \in 1..Len(requests) : requests[i].sync => WaitsFor(requests[i])
  /\ \A a \in Answerer : ToSignal(a) /\ areq[a].sync => WaitsFor(areq[a])

(* An entry in use is that of a request on its way, or answered and not    *)
(* taken by the client; a message is for an entry.                         *)
EntriesHeld ==
  \A n \in Node : InUse(n) =>
    LET r == data[n] IN
    \/ r = creq /\ cpc \in {"add_received", "send", "undo", "undo_free"}
    \/ r \in network
    \/ \E i \in 1..Len(requests) : requests[i] = r
    \/ \E a \in Answerer : areq[a] = r /\ apc[a] \notin {"idle", "done"}
    \/ ~r.sync /\ ~NoAnswer(r)
MessagesHaveEntries ==
  \A i \in 1..Len(fifo) : fifo[i].kind = "async" =>
    \E n \in Node : InUse(n) /\ data[n].id = fifo[i].id /\ ~data[n].sync

(* A message is of the kind of the request it answers.                     *)
KindsMatch ==
  \A i \in 1..Len(fifo) : \A r \in Known :
    r # NoReq /\ fifo[i].id = r.id => fifo[i].kind = Kind(r)

InTimeInv ==
  /\ TableInv
  /\ fault = "none" /\ passed = {} /\ tpc = "idle"
  /\ EntryOfClient /\ EntryOfAnswerer /\ OneWait /\ EntriesHeld
  /\ MessagesHaveEntries /\ KindsMatch

-----------------------------------------------------------------------------
(* Counting messages, entries and requests.                                *)
Message == [kind : {"sync", "async", "event"}, id : 0..MaxID]
OfKind(f, kind) == {i \in 1..Len(f) : f[i].kind = kind}
Falling(kind) == {a \in Answerer : apc[a] = "fallback" /\ Kind(data[anode[a]]) = kind}

(* The messages of a kind are finitely many.                               *)
LEMMA KindsFinite ==
  ASSUME NEW f \in Seq(Message), NEW kind
  PROVE  IsFiniteSet(OfKind(f, kind)) /\ Cardinality(OfKind(f, kind)) \in Nat
<1>1. Len(f) \in Nat
  OBVIOUS
<1>2. IsFiniteSet(1..Len(f))
  BY <1>1, FS_Interval
<1>3. OfKind(f, kind) \in SUBSET (1..Len(f))
  BY DEF OfKind
<1>4. QED
  BY <1>2, <1>3, FS_Subset, FS_CardinalityType

(* So are the messages that are being pushed again.                        *)
LEMMA FallingFinite ==
  ASSUME NEW kind
  PROVE  IsFiniteSet(Falling(kind)) /\ Cardinality(Falling(kind)) \in Nat
<1>1. IsFiniteSet({"local"})
  BY FS_Singleton
<1>2. IsFiniteSet({"local"} \cup {"remote"})
  BY <1>1, FS_AddElement
<1>3. Answerer = {"local"} \cup {"remote"}
  BY DEF Answerer
<1>4. Falling(kind) \in SUBSET Answerer
  BY DEF Falling
<1>5. QED
  BY <1>2, <1>3, <1>4, FS_Subset, FS_CardinalityType

(* A message at the end of the FIFO counts once,                           *)
LEMMA AppendCounts ==
  ASSUME NEW f \in Seq(Message), NEW m \in Message, NEW kind
  PROVE  Cardinality(OfKind(Append(f, m), kind)) =
           Cardinality(OfKind(f, kind)) + (IF m.kind = kind THEN 1 ELSE 0)
<1>1. Len(f) \in Nat /\ Len(Append(f, m)) = Len(f) + 1
      /\ Append(f, m)[Len(f) + 1] = m /\ \A i \in 1..Len(f) : Append(f, m)[i] = f[i]
  OBVIOUS
<1>2. IsFiniteSet(OfKind(f, kind)) /\ Cardinality(OfKind(f, kind)) \in Nat
  BY KindsFinite
<1>3. CASE m.kind = kind
  <2>1. OfKind(Append(f, m), kind) = OfKind(f, kind) \cup {Len(f) + 1}
    BY <1>1, <1>3 DEF OfKind
  <2>2. Len(f) + 1 \notin OfKind(f, kind)
    BY <1>1 DEF OfKind
  <2>3. QED
    BY <1>2, <1>3, <2>1, <2>2, FS_AddElement
<1>4. CASE m.kind # kind
  <2>1. OfKind(Append(f, m), kind) = OfKind(f, kind)
    BY <1>1, <1>4 DEF OfKind
  <2>2. QED
    BY <1>2, <1>4, <2>1
<1>5. QED
  BY <1>3, <1>4

(* without its first message the FIFO has one fewer of its kind,           *)
LEMMA TailCounts ==
  ASSUME NEW f \in Seq(Message), f # <<>>, NEW kind
  PROVE  Cardinality(OfKind(f, kind)) =
           Cardinality(OfKind(Tail(f), kind)) + (IF Head(f).kind = kind THEN 1 ELSE 0)
<1>1. /\ Len(f) \in Nat \ {0} /\ Len(Tail(f)) = Len(f) - 1 /\ Head(f) = f[1]
      /\ Tail(f) \in Seq(Message) /\ \A i \in 1..(Len(f) - 1) : Tail(f)[i] = f[i + 1]
  OBVIOUS
<1> DEFINE S == OfKind(Tail(f), kind)
           T == {i \in 2..Len(f) : f[i].kind = kind}
           g == [i \in S |-> i + 1]
<1>2. IsFiniteSet(S) /\ Cardinality(S) \in Nat
  BY <1>1, KindsFinite
<1>3. g \in Bijection(S, T)
  <2>1. \A i \in S : i \in Nat /\ i + 1 \in T
    BY <1>1 DEF OfKind
  <2>2. \A t \in T : t - 1 \in S /\ g[t - 1] = t
    BY <1>1 DEF OfKind
  <2>3. g \in [S -> T] /\ \A i, j \in S : g[i] = g[j] => i = j
    BY <2>1
  <2>4. QED
    BY <2>2, <2>3, Fun_IsBij
<1>4. IsFiniteSet(T) /\ Cardinality(T) = Cardinality(S)
  <2>1. ExistsBijection(S, T)
    BY <1>3 DEF ExistsBijection
  <2>2. QED
    BY <1>2, <2>1, FS_Bijection
<1>5. CASE f[1].kind = kind
  <2>1. OfKind(f, kind) = T \cup {1} /\ 1 \notin T
    BY <1>1, <1>5 DEF OfKind
  <2>2. QED
    BY <1>1, <1>2, <1>4, <1>5, <2>1, FS_AddElement
<1>6. CASE f[1].kind # kind
  <2>1. OfKind(f, kind) = T
    BY <1>1, <1>6 DEF OfKind
  <2>2. QED
    BY <1>1, <1>2, <1>4, <1>6, <2>1
<1>7. QED
  BY <1>5, <1>6

(* and one that is pushed in front of it counts once.                      *)
LEMMA FirstCounts ==
  ASSUME NEW f \in Seq(Message), NEW m \in Message, NEW kind
  PROVE  Cardinality(OfKind(<<m>> \o f, kind)) =
           Cardinality(OfKind(f, kind)) + (IF m.kind = kind THEN 1 ELSE 0)
<1>1. <<m>> \o f \in Seq(Message) /\ <<m>> \o f # <<>> /\ Head(<<m>> \o f) = m
  OBVIOUS
<1>2. Tail(<<m>> \o f) = f
  OBVIOUS
<1>3. QED
  BY <1>1, <1>2, TailCounts
-----------------------------------------------------------------------------
(* A node is not in a list of nodes.                                       *)
NotIn(s, n) == \A i \in 1..Len(s) : s[i] # n
Distinct(s) == \A i, j \in 1..Len(s) : s[i] = s[j] => i = j

(* A list without repetition is no longer than there are nodes.            *)
LEMMA DistinctFits ==
  ASSUME NEW s \in Seq(Node), Distinct(s)
  PROVE  Len(s) <= Cardinality(Node) /\ Cardinality(Node) \in Nat
<1> DEFINE D == 1..Len(s)
<1>1. Len(s) \in Nat
  OBVIOUS
<1>2. IsFiniteSet(D) /\ Cardinality(D) = Len(s)
  BY <1>1, FS_Interval
<1>3. IsFiniteSet(Node) /\ Cardinality(Node) \in Nat
  BY RequestAssumption, FS_CardinalityType
<1>4. [i \in D |-> s[i]] \in Injection(D, Node)
  <2>1. [i \in D |-> s[i]] \in [D -> Node]
    OBVIOUS
  <2>2. QED
    BY <2>1, Fun_IsInj DEF Distinct
<1>5. Cardinality(D) <= Cardinality(Node)
  BY <1>3, <1>4, FS_Injection
<1>6. QED
  BY <1>2, <1>3, <1>5

(* A list of all the nodes leaves none in use.                             *)
LEMMA AllUnused ==
  ASSUME NEW s \in [1..Cardinality(Node) -> Node],
         \A i, j \in DOMAIN s : s[i] = s[j] => i = j
  PROVE  s \in Seq(Node) /\ Distinct(s) /\ Len(s) = Cardinality(Node) /\ \A n \in Node : ~NotIn(s, n)
<1> DEFINE D == 1..Cardinality(Node)
<1>1. IsFiniteSet(Node) /\ Cardinality(Node) \in Nat
  BY RequestAssumption, FS_CardinalityType
<1>2. s \in Seq(Node) /\ Len(s) = Cardinality(Node)
  BY <1>1
<1>3. s \in Injection(D, Node)
  BY Fun_IsInj
<1>4. IsFiniteSet(D) /\ Cardinality(D) = Cardinality(Node)
  BY <1>1, FS_Interval
<1>5. s \in Surjection(D, Node)
  BY <1>1, <1>3, <1>4, FS_Injection
<1>6. \A n \in Node : \E i \in D : s[i] = n
  BY <1>5 DEF Surjection
<1>7. QED
  BY <1>2, <1>6 DEF NotIn, Distinct

(* Putting a node back, and taking the last one.                           *)
LEMMA PutBack ==
  ASSUME NEW s \in Seq(Node), Distinct(s), NEW n \in Node, NotIn(s, n)
  PROVE  /\ Append(s, n) \in Seq(Node) /\ Distinct(Append(s, n))
         /\ \A x : NotIn(Append(s, n), x) <=> NotIn(s, x) /\ x # n
         /\ Len(Append(s, n)) <= Cardinality(Node)
<1>1. Append(s, n) \in Seq(Node) /\ Len(s) \in Nat /\ Len(Append(s, n)) = Len(s) + 1
      /\ Append(s, n)[Len(s) + 1] = n /\ \A i \in 1..Len(s) : Append(s, n)[i] = s[i]
  OBVIOUS
<1>2. Distinct(Append(s, n))
  <2> SUFFICES ASSUME NEW i \in 1..(Len(s) + 1), NEW j \in 1..(Len(s) + 1),
                      Append(s, n)[i] = Append(s, n)[j]
               PROVE  i = j
    BY <1>1 DEF Distinct
  <2>1. i \in 1..Len(s) \/ i = Len(s) + 1
    BY <1>1
  <2>2. j \in 1..Len(s) \/ j = Len(s) + 1
    BY <1>1
  <2>3. QED
    BY <1>1, <2>1, <2>2 DEF Distinct, NotIn
<1>3. ASSUME NEW x PROVE NotIn(Append(s, n), x) <=> NotIn(s, x) /\ x # n
  <2>1. 1..(Len(s) + 1) = (1..Len(s)) \cup {Len(s) + 1}
    BY <1>1
  <2>2. QED
    BY <1>1, <2>1 DEF NotIn
<1>4. QED
  BY <1>1, <1>2, <1>3, DistinctFits

(* Taking the last node of a list puts it, and no other, in use.           *)
LEMMA TakeLast ==
  ASSUME NEW s \in Seq(Node), Distinct(s), s # <<>>
  PROVE  LET n == s[Len(s)]
             t == SubSeq(s, 1, Len(s) - 1) IN
         /\ n \in Node /\ ~NotIn(s, n)
         /\ t \in Seq(Node) /\ Distinct(t) /\ Len(t) <= Cardinality(Node)
         /\ \A x : NotIn(t, x) <=> NotIn(s, x) \/ x = n
<1> DEFINE n == s[Len(s)]
           t == SubSeq(s, 1, Len(s) - 1)
<1>1. Len(s) \in Nat \ {0} /\ n \in Node /\ Len(s) \in 1..Len(s)
  OBVIOUS
<1>2. t \in Seq(Node) /\ Len(t) = Len(s) - 1 /\ \A i \in 1..(Len(s) - 1) : t[i] = s[i]
  <2>1. 1 \in 1..(Len(s) + 1) /\ Len(s) - 1 \in (1 - 1)..Len(s)
    BY <1>1
  <2>2. /\ t \in Seq(Node)
        /\ Len(t) = IF 1 <= Len(s) - 1 THEN Len(s) - 1 - 1 + 1 ELSE 0
        /\ \A i \in 1..(Len(s) - 1 - 1 + 1) : t[i] = s[1 + i - 1]
    BY <2>1, SubSeqProperties
  <2> HIDE DEF t
  <2>3. Len(t) = Len(s) - 1
    <3>1. PICK k, l : k = Len(s) /\ l = Len(t)
      OBVIOUS
    <3>2. k \in Nat /\ k > 0 /\ l = IF 1 <= k - 1 THEN k - 1 - 1 + 1 ELSE 0
      BY <1>1, <2>2, <3>1
    <3>3. l = k - 1
      BY ONLY <3>2
    <3>4. QED
      BY <3>1, <3>3
  <2>4. ASSUME NEW i \in 1..(Len(s) - 1) PROVE t[i] = s[i]
    <3>1. i \in 1..(Len(s) - 1 - 1 + 1) /\ 1 + i - 1 = i
      BY <1>1
    <3>2. t[i] = s[1 + i - 1]
      BY <2>2, <3>1
    <3>3. QED
      BY <3>1, <3>2
  <2>5. QED
    BY <2>2, <2>3, <2>4
<1>3. Distinct(t)
  BY <1>1, <1>2 DEF Distinct
<1>4. ASSUME NEW x PROVE NotIn(t, x) <=> NotIn(s, x) \/ x = n
  <2>1. 1..Len(s) = (1..(Len(s) - 1)) \cup {Len(s)}
    BY <1>1
  <2>2. \A i \in 1..(Len(s) - 1) : s[i] # n
    BY <1>1 DEF Distinct
  <2> HIDE DEF t
  <2>3. QED
    BY <1>1, <1>2, <2>1, <2>2 DEF NotIn
<1>5. QED
  BY <1>1, <1>2, <1>3, <1>4, DistinctFits DEF NotIn
-----------------------------------------------------------------------------
(* The asynchronous requests with an entry, which are outstanding.         *)
Async == {n \in Node : InUse(n) /\ ~data[n].sync}

(* They are finitely many, in this state and in the next one.              *)
LEMMA OutstandingFinite ==
  /\ IsFiniteSet(Async) /\ Outstanding = Cardinality(Async) /\ Outstanding \in Nat
  /\ Outstanding' = Cardinality(Async') /\ Outstanding' \in Nat
<1>1. IsFiniteSet(Node) /\ Async \in SUBSET Node /\ Async' \in SUBSET Node
  BY RequestAssumption DEF Async
<1>2. IsFiniteSet(Async) /\ Cardinality(Async) \in Nat
  BY <1>1, FS_Subset, FS_CardinalityType
<1>3. IsFiniteSet(Async') /\ Cardinality(Async') \in Nat
  BY <1>1, FS_Subset, FS_CardinalityType
<1>4. QED
  BY <1>2, <1>3 DEF Outstanding, Async

(* Fewer entries in use leave fewer requests outstanding.                  *)
LEMMA FewerOutstanding ==
  ASSUME Async' \subseteq Async
  PROVE  Outstanding' <= Outstanding
<1>1. IsFiniteSet(Async) /\ Async' \in SUBSET Async
  BY OutstandingFinite
<1>2. Cardinality(Async') <= Cardinality(Async)
  BY <1>1, FS_Subset
<1>3. QED
  BY <1>2, OutstandingFinite

(* An entry that is freed is the only one that leaves the table.           *)
LEMMA OneFreed ==
  ASSUME EntriesDiffer, unused \in Seq(Node), NEW n \in Node, InUse(n),
         unused' = Append(unused, n), UNCHANGED data
  PROVE  /\ unused' \in Seq(Node) /\ Len(unused') <= Cardinality(Node)
         /\ \A x \in Node : InUse(x)' <=> InUse(x) /\ x # n
         /\ EntriesDiffer'
<1>1. Distinct(unused) /\ NotIn(unused, n)
  BY DEF EntriesDiffer, InUse, Distinct, NotIn
<1>2. /\ unused' \in Seq(Node) /\ Distinct(unused')
      /\ \A x : NotIn(unused', x) <=> NotIn(unused, x) /\ x # n
      /\ Len(unused') <= Cardinality(Node)
  BY <1>1, PutBack
<1>3. \A x \in Node : InUse(x)' <=> InUse(x) /\ x # n
  BY <1>2 DEF InUse, NotIn
<1>4. Outstanding' <= MaxConcurrent
  <2>1. Async' \subseteq Async
    BY <1>3 DEF Async
  <2>2. QED
    BY <2>1, FewerOutstanding, OutstandingFinite, RequestAssumption DEF EntriesDiffer
<1>5. EntriesDiffer'
  BY <1>2, <1>3, <1>4 DEF EntriesDiffer, Distinct
<1>6. QED
  BY <1>2, <1>3, <1>5

(* What a step that leaves the table and the client's FIFO alone keeps.    *)
LEMMA Framed ==
  ASSUME EntriesDiffer, UNCHANGED listVars
  PROVE  EntriesDiffer' /\ \A n : InUse(n)' <=> InUse(n)
<1>1. \A n : InUse(n)' <=> InUse(n)
  BY DEF InUse, listVars
<1>2. Async' \subseteq Async
  BY <1>1 DEF Async, listVars
<1>3. Outstanding' <= MaxConcurrent
  BY <1>2, FewerOutstanding, OutstandingFinite, RequestAssumption DEF EntriesDiffer
<1>4. QED
  BY <1>1, <1>3 DEF EntriesDiffer, listVars

(* A step that brings no new request keeps what identifies them.           *)
LEMMA NoneNew ==
  ASSUME Identified, Known' \subseteq Known, UNCHANGED last_id,
         armed' \cup {treq'} \subseteq armed \cup {treq}
  PROVE  Identified'
BY DEF Identified

(* A step that pushes no message and answers none keeps the counts.        *)
LEMMA SameCounts ==
  ASSUME UNCHANGED fifo,
         \A a \in Answerer : apc'[a] = "fallback" <=> apc[a] = "fallback",
         \A a \in Answerer : apc[a] = "fallback" => data'[anode'[a]] = data[anode[a]]
  PROVE  \A kind : Count(kind)' = Count(kind)
<1> SUFFICES ASSUME NEW kind PROVE Count(kind)' = Count(kind)
  OBVIOUS
<1>1. Falling(kind)' = Falling(kind)
  BY DEF Falling
<1>2. QED
  BY <1>1 DEF Falling, Count

(* The pools of the client's FIFO are not exceeded.                        *)
Kinded == {"sync", "async", "event"}
Room == \A kind \in Kinded : Count(kind) <= PoolSize(kind)

(* The client's FIFO and the table as they were: what the other parts of   *)
(* the invariant then keep.                                                *)
LEMMA LocalStep ==
  ASSUME TableInv, UNCHANGED <<listVars, fifo, last_id>>, Known' \subseteq Known,
         armed' \cup {treq'} \subseteq armed \cup {treq},
         \A a \in Answerer : apc'[a] = "fallback" <=> apc[a] = "fallback",
         \A a \in Answerer : apc[a] = "fallback" => anode'[a] = anode[a]
  PROVE  /\ Identified' /\ EntriesDiffer' /\ Messages' /\ Room'
         /\ \A n : InUse(n)' <=> InUse(n)
         /\ \A r : NoAnswer(r)' <=> NoAnswer(r)
<1>1. Identified' /\ EntriesDiffer' /\ \A n : InUse(n)' <=> InUse(n)
  BY NoneNew, Framed DEF TableInv
<1>2. Messages' /\ \A r : NoAnswer(r)' <=> NoAnswer(r)
  BY DEF TableInv, Messages, NoAnswer
<1>3. Room'
  <2>1. \A kind : Count(kind)' = Count(kind)
    BY SameCounts DEF listVars
  <2>2. QED
    BY <2>1 DEF TableInv, TypeOK, Room, Kinded
<1>4. QED
  BY <1>1, <1>2, <1>3

(* What every known request is.                                            *)
LEMMA KnownTypes ==
  ASSUME TypeOK
  PROVE  \A r \in Known : r \in Request \cup {NoReq}
<1>1. \A i \in 1..Len(requests) : requests[i] \in Request
  <2>1. requests \in Seq(Request)
    BY DEF TypeOK
  <2>2. QED
    BY <2>1
<1>2. /\ \A a \in Answerer : areq[a] \in Request \cup {NoReq}
      /\ \A n \in Node : data[n] \in Request \cup {NoReq}
      /\ {creq, treq} \cup network \cup armed \subseteq Request \cup {NoReq}
  BY DEF TypeOK
<1>3. QED
  BY <1>1, <1>2 DEF Known

(* The client's own steps keep the table: it knows no new request.         *)
LEMMA ClientKeepsTable ==
  ASSUME TableInv, AddReceived \/ Undo \/ Wait \/ TimeUp \/ TimedOut \/ ReturnOK
  PROVE  TableInv'
<1>1. /\ UNCHANGED <<listVars, last_id, passed, requests, network, fifo, creq, answererVars,
                     triggerVars, fault>>
      /\ received' = received \/ (cpc = "add_received" /\ received' = received \cup {creq})
  BY DEF AddReceived, Undo, Wait, TimeUp, TimedOut, ReturnOK, queueVars
<1>2. /\ cpc # "idle"
      /\ cpc' \in {"send", "undo_free", "waiting", "woken", "timed_out", "idle", "free_sent"}
      /\ cpc' = "send" => cpc = "add_received"
      /\ cpc' = "undo_free" => cpc = "undo"
      /\ cpc' \in {"waiting", "woken", "timed_out", "free_sent"} =>
           cpc \in {"wait", "waiting", "timed_out"}
      /\ cnode' = cnode \/ cnode' = Found(creq)
  BY DEF AddReceived, Undo, Wait, TimeUp, TimedOut, ReturnOK, Client
<1>3. Found(creq) \in Node \cup {NoNode}
  BY DEF Found, Find
<1>4. Known' \subseteq Known
  BY <1>1 DEF Known, listVars, answererVars, triggerVars
<1>5. /\ Identified' /\ EntriesDiffer' /\ Messages' /\ Room'
      /\ \A r : NoAnswer(r)' <=> NoAnswer(r)
  BY <1>1, <1>4, LocalStep DEF answererVars, triggerVars
<1>6. TypeOK'
  BY <1>1, <1>2, <1>3, <1>5
    DEF TableInv, TypeOK, ClientAt, Room, Kinded, listVars, answererVars, triggerVars
<1>7. Unsent' /\ InNetwork' /\ InQueue' /\ BeingAnswered'
  BY <1>1, <1>2, <1>5
    DEF TableInv, Unsent, InNetwork, InQueue, BeingAnswered, Single, answererVars
<1>8. ClientAt' /\ AnswererAt'
  BY <1>1, <1>2 DEF TableInv, ClientAt, AnswererAt, listVars, answererVars, triggerVars
<1>9. QED
  BY <1>5, <1>6, <1>7, <1>8 DEF TableInv

(* Sending keeps it: the request goes to the network or to the queue of    *)
(* the server.                                                             *)
LEMMA SendKeepsTable ==
  ASSUME TableInv, Send
  PROVE  TableInv'
<1>1. /\ cpc = "send" /\ cpc' \in {"wait", "idle", "undo"}
      /\ cpc' = "wait" => creq.sync
      /\ cpc' = "undo" => creq.server = "local" /\ network' = network /\ requests' = requests
      /\ UNCHANGED <<listVars, last_id, passed, fifo, creq, cnode, answererVars, triggerVars,
                     fault>>
  BY DEF Send, Client
<1>2. /\ creq \in Request /\ creq # NoReq /\ requests \in Seq(Request)
      /\ received \subseteq Request
  BY <1>1 DEF TableInv, TypeOK, ClientAt
<1>3. \/ network' = network \cup {creq} /\ creq.server = "remote" /\ requests' = requests
         /\ received' = received
      \/ requests' = Append(requests, creq) /\ creq.server = "local" /\ network' = network
         /\ received' = received /\ Len(requests) < RequestPool
      \/ requests' = requests /\ network' = network /\ received' = received \ {creq}
  BY DEF Send, ServerHasRoom
<1>4. /\ requests' \in Seq(Request) /\ Len(requests') <= RequestPool
      /\ \A i \in 1..Len(requests') : \/ i \in 1..Len(requests) /\ requests'[i] = requests[i]
                                      \/ i = Len(requests) + 1 /\ requests'[i] = creq
      /\ \A i, j \in 1..Len(requests') : requests'[i] = creq /\ requests'[j] = creq => i = j
  <2>1. \A i \in 1..Len(requests) : requests[i] # creq
    BY <1>1 DEF TableInv, Unsent
  <2>2. CASE requests' = requests
    BY <1>2, <2>1, <2>2 DEF TableInv, TypeOK
  <2>3. CASE requests' = Append(requests, creq) /\ Len(requests) < RequestPool
    BY <1>2, <2>1, <2>3, RequestAssumption
  <2>4. QED
    BY <1>3, <2>2, <2>3
<1>5. network' \subseteq network \cup {creq}
  BY <1>3
<1>6. Known' \subseteq Known
  BY <1>1, <1>4, <1>5 DEF Known, listVars, answererVars, triggerVars
<1>7. /\ Identified' /\ EntriesDiffer' /\ Messages' /\ Room'
      /\ \A r : NoAnswer(r)' <=> NoAnswer(r)
  BY <1>1, <1>6, LocalStep DEF answererVars, triggerVars
<1>8. TypeOK'
  BY <1>1, <1>2, <1>3, <1>4, <1>5, <1>7
    DEF TableInv, TypeOK, Room, Kinded, listVars, answererVars, triggerVars
<1>9. Unsent' /\ BeingAnswered' /\ ClientAt' /\ AnswererAt'
  BY <1>1, <1>2, <1>7
    DEF TableInv, Unsent, BeingAnswered, ClientAt, AnswererAt, Single, listVars, answererVars,
        triggerVars
<1>10. InNetwork'
  BY <1>1, <1>2, <1>3, <1>7 DEF TableInv, Unsent, InNetwork, Single, Answerer, answererVars
<1>11. InQueue'
  <2>1. CASE requests' = Append(requests, creq) /\ creq.server = "local"
    <3>1. ASSUME NEW i \in 1..Len(requests')
          PROVE  (/\ requests[i] # NoReq /\ requests[i].server = "local"
                  /\ Single(requests[i]) => NoAnswer(requests[i])
                  /\ apc["local"] # "idle" => areq["local"] # requests[i])'
      <4>1. CASE i \in 1..Len(requests) /\ requests'[i] = requests[i]
        BY <1>1, <4>1 DEF TableInv, InQueue, Single, NoAnswer, answererVars
      <4>2. CASE requests'[i] = creq
        BY <1>1, <1>2, <2>1, <4>2 DEF TableInv, Unsent, Single, NoAnswer, Answerer, answererVars
      <4>3. QED
        BY <1>4, <4>1, <4>2
    <3>2. ASSUME NEW i \in 1..Len(requests'), NEW j \in 1..Len(requests'),
                 requests'[i] = requests'[j]
          PROVE  i = j
      <4>1. CASE requests'[i] = creq
        BY <1>4, <3>2, <4>1
      <4>2. CASE requests'[i] # creq
        BY <1>4, <3>2, <4>2 DEF TableInv, InQueue
      <4>3. QED
        BY <4>1, <4>2
    <3>3. QED
      BY <3>1, <3>2 DEF InQueue
  <2>2. CASE requests' = requests
    BY <1>1, <1>7, <2>2 DEF TableInv, InQueue, Single, answererVars
  <2>3. QED
    BY <1>3, <2>1, <2>2
<1>12. QED
  BY <1>7, <1>8, <1>9, <1>10, <1>11 DEF TableInv
-----------------------------------------------------------------------------
(* The request that is added, and the node that it takes.                  *)
Asked(k) == [id |-> last_id + 1, server |-> k.server, sync |-> k.sync]
Taken == unused[Len(unused)]

(* Unless no node is unused, the request is a new one and gets a node that *)
(* no other has.                                                           *)
LEMMA AddTakes ==
  ASSUME TableInv, NEW k \in Kinds, AddSent(k), unused # <<>>
  PROVE  /\ cpc = "idle" /\ last_id < MaxID /\ Admitted(k)
         /\ last_id' = last_id + 1 /\ creq' = Asked(k)
         /\ armed' = armed \/ (~k.sync /\ armed' = armed \cup {Asked(k)})
         /\ cpc' = IF k.server = "local" THEN "add_received" ELSE "send"
         /\ UNCHANGED <<fault, passed, queueVars, cnode, answererVars, tpc, treq, tnode>>
         /\ last_id \in 0..MaxID /\ MaxID \in Nat /\ k.server \in Answerer /\ k.sync \in BOOLEAN
         /\ Asked(k) \in Request /\ Asked(k) # NoReq
         /\ Asked(k).id = last_id + 1 /\ Asked(k).server = k.server /\ Asked(k).sync = k.sync
         /\ Taken \in Node /\ ~InUse(Taken)
         /\ unused' \in Seq(Node) /\ Distinct(unused') /\ Len(unused') <= Cardinality(Node)
         /\ \A x : InUse(x)' <=> InUse(x) \/ x = Taken
         /\ data \in [Node -> Request \cup {NoReq}] /\ data' \in [Node -> Request \cup {NoReq}]
         /\ data'[Taken] = Asked(k) /\ \A x \in Node \ {Taken} : data'[x] = data[x]
         /\ \A x \in Known : x \in Request \cup {NoReq} /\ x.id < Asked(k).id /\ x # Asked(k)
         /\ Known' \subseteq Known \cup {Asked(k)}
         /\ \A i \in 1..Len(fifo) : fifo[i].id \in Nat
         /\ NoAnswer(Asked(k))
<1> DEFINE r == Asked(k)
           n == Taken
<1>1. /\ cpc = "idle" /\ last_id < MaxID /\ Admitted(k)
      /\ data' = [data EXCEPT ![n] = r] /\ unused' = SubSeq(unused, 1, Len(unused) - 1)
      /\ last_id' = last_id + 1 /\ creq' = r
      /\ armed' = armed \/ (~k.sync /\ armed' = armed \cup {r})
      /\ cpc' = IF k.server = "local" THEN "add_received" ELSE "send"
      /\ UNCHANGED <<fault, passed, queueVars, cnode, answererVars, tpc, treq, tnode>>
  BY DEF AddSent, Client, Asked, Taken
<1>2. /\ last_id \in 0..MaxID /\ last_id + 1 \in ID /\ MaxID \in Nat
      /\ k.server \in Answerer /\ k.sync \in BOOLEAN
  <2>1. last_id \in 0..MaxID
    BY DEF TableInv, TypeOK
  <2>2. MaxID \in Nat /\ k.server \in Answerer /\ k.sync \in BOOLEAN
    BY RequestAssumption
  <2>3. QED
    BY <1>1, <2>1, <2>2 DEF ID
<1>3. /\ r \in Request /\ r # NoReq /\ r.id = last_id + 1 /\ r.server = k.server
      /\ r.sync = k.sync
  BY <1>2 DEF Request, NoReq, ID, Asked
<1>4. /\ n \in Node /\ ~InUse(n) /\ unused' \in Seq(Node) /\ Distinct(unused')
      /\ Len(unused') <= Cardinality(Node)
      /\ \A x : InUse(x)' <=> InUse(x) \/ x = n
  <2>1. unused \in Seq(Node) /\ Distinct(unused) /\ unused # <<>>
    BY DEF TableInv, TypeOK, EntriesDiffer, Distinct
  <2>2. /\ n \in Node /\ ~NotIn(unused, n)
        /\ unused' \in Seq(Node) /\ Distinct(unused') /\ Len(unused') <= Cardinality(Node)
        /\ \A x : NotIn(unused', x) <=> NotIn(unused, x) \/ x = n
    BY <1>1, <2>1, TakeLast DEF Taken
  <2>3. QED
    BY <2>2 DEF NotIn, InUse
<1> HIDE DEF r, n
<1>5. data \in [Node -> Request \cup {NoReq}] /\ data' \in [Node -> Request \cup {NoReq}]
      /\ data'[n] = r /\ \A x \in Node \ {n} : data'[x] = data[x]
  BY <1>1, <1>3, <1>4 DEF TableInv, TypeOK
<1>6. \A x \in Known : x \in Request \cup {NoReq} /\ x.id < r.id /\ x # r
  <2>1. \A x \in Request \cup {NoReq} : x.id \in Nat
    BY DEF Request, NoReq, ID
  <2>2. QED
    BY <1>2, <1>3, <2>1, KnownTypes DEF TableInv, Identified
<1>7. Known' \subseteq Known \cup {r}
  <2>1. UNCHANGED <<areq, network, requests, treq>>
    BY <1>1 DEF answererVars, queueVars
  <2>2. QED
    BY <1>1, <1>5, <2>1 DEF Known
<1>8. \A i \in 1..Len(fifo) : fifo[i].id \in Nat
  <2>1. fifo \in Seq(Message)
    BY DEF TableInv, TypeOK, Message
  <2>2. \A i \in 1..Len(fifo) : fifo[i] \in Message
    BY <2>1
  <2>3. QED
    BY <1>2, <2>2 DEF Message
<1>9. NoAnswer(r)
  BY <1>2, <1>3, <1>8 DEF TableInv, Messages, NoAnswer
<1>10. QED
  BY <1>1, <1>2, <1>3, <1>4, <1>5, <1>6, <1>7, <1>8, <1>9 DEF r, n

(* Adding a request keeps the table, when the node it takes is not one     *)
(* that an answering thread is using: an unused node, or no thread at work.*)
LEMMA AddKeepsTable ==
  ASSUME TableInv, NEW k \in Kinds, AddSent(k),
         unused # <<>> =>
           \A a \in Answerer : apc[a] \in Handling => anode[a] # Taken
  PROVE  TableInv'
<1> DEFINE r == Asked(k)
           n == Taken
<1>1. CASE unused = <<>>
  <2>1. /\ UNCHANGED <<listVars, last_id, passed, queueVars, cpc, creq, cnode, answererVars,
                       armed, tpc, treq, tnode>>
        /\ fault' = "assertion ret == 0"
    BY <1>1 DEF AddSent
  <2>2. Known' \subseteq Known
    BY <2>1 DEF Known, listVars, answererVars, queueVars
  <2>3. /\ Identified' /\ EntriesDiffer' /\ Messages' /\ Room'
        /\ \A x : NoAnswer(x)' <=> NoAnswer(x)
    BY <2>1, <2>2, LocalStep DEF answererVars, queueVars
  <2>4. TypeOK'
    BY <2>1, <2>3 DEF TableInv, TypeOK, Room, Kinded, listVars, answererVars, queueVars
  <2>5. Unsent' /\ InNetwork' /\ InQueue' /\ BeingAnswered' /\ ClientAt' /\ AnswererAt'
    BY <2>1, <2>3 DEF TableInv, Unsent, InNetwork, InQueue, BeingAnswered, ClientAt, AnswererAt,
                     Single, listVars, answererVars, queueVars
  <2>6. QED
    BY <2>3, <2>4, <2>5 DEF TableInv
<1>2. CASE unused # <<>>
  <2>1. /\ cpc = "idle" /\ last_id' = last_id + 1 /\ creq' = r
        /\ armed' = armed \/ (~k.sync /\ armed' = armed \cup {r})
        /\ cpc' = IF k.server = "local" THEN "add_received" ELSE "send"
        /\ UNCHANGED <<fault, passed, queueVars, cnode, answererVars, tpc, treq, tnode>>
    BY <1>2, AddTakes
  <2>2. /\ last_id \in 0..MaxID /\ last_id < MaxID /\ MaxID \in Nat
        /\ k.server \in Answerer /\ k.sync \in BOOLEAN /\ Admitted(k)
    BY <1>2, AddTakes
  <2>3. /\ r \in Request /\ r # NoReq /\ r.id = last_id + 1 /\ r.server = k.server
        /\ r.sync = k.sync
    BY <1>2, AddTakes
  <2>4. /\ n \in Node /\ ~InUse(n) /\ unused' \in Seq(Node) /\ Distinct(unused')
        /\ Len(unused') <= Cardinality(Node)
        /\ \A x : InUse(x)' <=> InUse(x) \/ x = n
    BY <1>2, AddTakes
  <2>5. data \in [Node -> Request \cup {NoReq}] /\ data' \in [Node -> Request \cup {NoReq}]
        /\ data'[n] = r /\ \A x \in Node \ {n} : data'[x] = data[x]
    BY <1>2, AddTakes
  <2>6. \A x \in Known : x \in Request \cup {NoReq} /\ x.id < r.id /\ x # r
    BY <1>2, AddTakes
  <2>7. Known' \subseteq Known \cup {r} /\ NoAnswer(r) /\ \A i \in 1..Len(fifo) : fifo[i].id \in Nat
    BY <1>2, AddTakes
  <2> HIDE DEF r, n
  <2>8. Identified'
    <3>1. \A x, y \in Known \cup {r} : x.id = y.id => x = y
      BY <2>2, <2>3, <2>6 DEF TableInv, Identified
    <3>2. \A x \in Known \cup {r} : x.id <= last_id'
      <4>1. \A x \in Known : x.id <= last_id /\ x.id \in Nat
        <5>1. \A x \in Request \cup {NoReq} : x.id \in Nat
          BY DEF Request, NoReq, ID
        <5>2. QED
          BY <5>1, <2>6 DEF TableInv, Identified
      <4>2. QED
        BY <2>1, <2>2, <2>3, <4>1
    <3>3. \A x \in (armed \cup {treq})' : ~x.sync
      BY <2>1, <2>3 DEF TableInv, Identified
    <3>4. QED
      BY <2>7, <3>1, <3>2, <3>3 DEF Identified
  <2>9. EntriesDiffer'
    <3>1. ASSUME NEW x \in Node, NEW y \in Node, data'[x] = data'[y], data'[x] # NoReq
          PROVE  x = y
      <4>1. \A z \in Node : data[z] # r
        BY <2>6 DEF Known
      <4>2. QED
        BY <2>4, <2>5, <3>1, <4>1 DEF TableInv, EntriesDiffer
    <3>2. \A x \in Node : InUse(x)' => data'[x] # NoReq
      BY <2>3, <2>4, <2>5 DEF TableInv, EntriesDiffer
    <3>3. Outstanding' <= MaxConcurrent
      <4>1. CASE k.sync
        <5>1. Async' \subseteq Async
          BY <2>3, <2>4, <2>5, <4>1 DEF Async
        <5>2. QED
          BY <5>1, FewerOutstanding, OutstandingFinite, RequestAssumption
            DEF TableInv, EntriesDiffer
      <4>2. CASE ~k.sync
        <5>1. Async' \subseteq Async \cup {n}
          BY <2>4, <2>5 DEF Async
        <5>2. Outstanding < MaxConcurrent
          BY <2>2, <4>2 DEF Admitted
        <5>3. IsFiniteSet(Async \cup {n}) /\ Cardinality(Async \cup {n}) <= Outstanding + 1
          <6>1. IsFiniteSet(Async) /\ n \notin Async
            BY <2>4, OutstandingFinite DEF Async
          <6>2. IsFiniteSet(Async \cup {n}) /\ Cardinality(Async \cup {n}) = Cardinality(Async) + 1
            BY <6>1, FS_AddElement
          <6>3. QED
            BY <6>2, OutstandingFinite
        <5>4. Outstanding' <= Cardinality(Async \cup {n}) /\ Cardinality(Async \cup {n}) \in Nat
          BY <5>1, <5>3, OutstandingFinite, FS_Subset, FS_CardinalityType
        <5>5. QED
          BY <5>2, <5>3, <5>4, OutstandingFinite, RequestAssumption
      <4>3. QED
        BY <4>1, <4>2, <2>2
    <3>4. QED
      BY <2>4, <3>1, <3>2, <3>3 DEF EntriesDiffer, Distinct
  <2>10. Messages' /\ \A x : NoAnswer(x)' <=> NoAnswer(x)
    <3>1. \A i \in 1..Len(fifo) : fifo[i].id <= last_id'
      BY <2>1, <2>2, <2>7 DEF TableInv, Messages
    <3>2. QED
      BY <2>1, <2>7, <3>1 DEF TableInv, Messages, NoAnswer, queueVars
  <2>11. \A a \in Answerer : apc[a] \in Handling =>
           anode[a] \in Node \ {n} /\ data'[anode[a]] = data[anode[a]]
    BY <1>2, <2>5 DEF TableInv, AnswererAt, n
  <2>12. Room'
    <3>1. \A a \in Answerer : apc[a] = "fallback" => data'[anode'[a]] = data[anode[a]]
      BY <2>1, <2>11 DEF Handling, answererVars
    <3>2. \A kind : Count(kind)' = Count(kind)
      BY <2>1, <3>1, SameCounts DEF answererVars, queueVars
    <3>3. QED
      BY <3>2 DEF TableInv, TypeOK, Room, Kinded
  <2>13. TypeOK'
    <3>1. Request \subseteq Request \cup {NoReq} /\ last_id' \in 0..MaxID
      BY <2>1, <2>2
    <3>2. armed' \subseteq Request
      BY <2>1, <2>3 DEF TableInv, TypeOK
    <3>3. unused' \in Seq(Node) /\ Len(unused') <= Cardinality(Node)
      BY <2>4
    <3>4. QED
      BY <2>1, <2>3, <2>5, <2>12, <3>1, <3>2, <3>3
        DEF TableInv, TypeOK, Room, Kinded, answererVars, queueVars
  <2>14. /\ r \notin network /\ \A i \in 1..Len(requests) : requests[i] # r
         /\ \A a \in Answerer : areq[a] # r
    BY <2>6 DEF Known
  <2>15. Unsent'
    BY <2>1, <2>7, <2>10, <2>14 DEF Unsent, Single, answererVars, queueVars
  <2>16. InNetwork' /\ InQueue' /\ BeingAnswered'
    BY <2>1, <2>10 DEF TableInv, InNetwork, InQueue, BeingAnswered, Single, answererVars, queueVars
  <2>17. ClientAt'
    BY <2>1, <2>2, <2>3 DEF TableInv, ClientAt, Answerer
  <2>18. AnswererAt'
    BY <2>1, <2>11 DEF TableInv, AnswererAt, answererVars
  <2>19. QED
    BY <2>8, <2>9, <2>10, <2>13, <2>15, <2>16, <2>17, <2>18 DEF TableInv
<1>3. QED
  BY <1>1, <1>2
-----------------------------------------------------------------------------
Lacks(f, id) == \A i \in 1..Len(f) : f[i].id # id

(* A message pushed at either end of the FIFO is its only new one.         *)
LEMMA OneMore ==
  ASSUME NEW f \in Seq(Message), NEW m \in Message, Once(f),
         m.kind \in SingleKinds => Lacks(f, m.id),
         NEW g, g = Append(f, m) \/ g = <<m>> \o f
  PROVE  /\ g \in Seq(Message) /\ Once(g)
         /\ \A x : Lacks(g, x) <=> Lacks(f, x) /\ m.id # x
         /\ \A i \in 1..Len(g) : g[i] = m \/ \E j \in 1..Len(f) : g[i] = f[j]
         /\ \A kind : Cardinality(OfKind(g, kind)) =
                        Cardinality(OfKind(f, kind)) + (IF m.kind = kind THEN 1 ELSE 0)
<1>1. CASE g = Append(f, m)
  <2>1. /\ g \in Seq(Message) /\ Len(f) \in Nat /\ Len(g) = Len(f) + 1
        /\ g[Len(f) + 1] = m /\ \A i \in 1..Len(f) : g[i] = f[i]
    BY <1>1
  <2>2. 1..Len(g) = (1..Len(f)) \cup {Len(f) + 1}
    BY <2>1
  <2>3. \A kind : Cardinality(OfKind(g, kind)) =
                    Cardinality(OfKind(f, kind)) + (IF m.kind = kind THEN 1 ELSE 0)
    BY <1>1, AppendCounts
  <2>4. Once(g)
    BY <2>1, <2>2 DEF Once, Lacks
  <2>5. \A x : Lacks(g, x) <=> Lacks(f, x) /\ m.id # x
    BY <2>1, <2>2 DEF Lacks
  <2>6. QED
    BY <2>1, <2>2, <2>3, <2>4, <2>5
<1>2. CASE g = <<m>> \o f
  <2>1. /\ g \in Seq(Message) /\ Len(f) \in Nat /\ Len(g) = Len(f) + 1
        /\ g[1] = m /\ \A i \in 1..Len(f) : g[i + 1] = f[i]
    BY <1>2
  <2>2. \A i \in 1..Len(g) : i = 1 \/ \E j \in 1..Len(f) : i = j + 1
    <3>1. ASSUME NEW i \in 1..Len(g), i # 1 PROVE i - 1 \in 1..Len(f) /\ i = (i - 1) + 1
      BY <2>1, <3>1
    <3>2. QED
      BY <3>1
  <2>3. 1 \in 1..Len(g) /\ \A i \in 1..Len(f) : i + 1 \in 1..Len(g)
    BY <2>1
  <2>4. \A kind : Cardinality(OfKind(g, kind)) =
                    Cardinality(OfKind(f, kind)) + (IF m.kind = kind THEN 1 ELSE 0)
    BY <1>2, FirstCounts
  <2>5. Once(g)
    <3> SUFFICES ASSUME NEW i \in 1..Len(g), NEW j \in 1..Len(g), g[i].kind \in SingleKinds,
                        g[i].kind = g[j].kind, g[i].id = g[j].id
                 PROVE  i = j
      BY DEF Once
    <3>1. CASE i = 1 \/ j = 1
      <4>1. \A k \in 1..Len(f) : g[k + 1].id = m.id => m.kind \notin SingleKinds
        BY <2>1 DEF Lacks
      <4>2. QED
        BY <2>1, <2>2, <3>1, <4>1
    <3>2. CASE i # 1 /\ j # 1
      <4>1. PICK k, l \in 1..Len(f) : i = k + 1 /\ j = l + 1
        BY <2>2, <3>2
      <4>2. g[i] = f[k] /\ g[j] = f[l]
        BY <2>1, <4>1
      <4>3. QED
        BY <4>1, <4>2 DEF Once
    <3>3. QED
      BY <3>1, <3>2
  <2>6. ASSUME NEW x
        PROVE  Lacks(g, x) <=> Lacks(f, x) /\ m.id # x
    <3>1. ASSUME \A i \in 1..Len(g) : g[i].id # x
          PROVE  (\A i \in 1..Len(f) : f[i].id # x) /\ m.id # x
      <4>1. ASSUME NEW i \in 1..Len(f) PROVE f[i].id # x
        <5>1. g[i + 1].id # x
          BY <2>3, <3>1
        <5>2. QED
          BY <2>1, <5>1
      <4>2. QED
        BY <2>1, <2>3, <3>1, <4>1
    <3>2. ASSUME \A i \in 1..Len(f) : f[i].id # x, m.id # x, NEW i \in 1..Len(g)
          PROVE  g[i].id # x
      BY <2>1, <2>2, <3>2
    <3>3. QED
      BY <3>1, <3>2 DEF Lacks
  <2>7. \A i \in 1..Len(g) : g[i] = m \/ \E j \in 1..Len(f) : g[i] = f[j]
    BY <2>1, <2>2
  <2>8. QED
    BY <2>1, <2>4, <2>5, <2>6, <2>7
<1>3. QED
  BY <1>1, <1>2
-----------------------------------------------------------------------------
(* Freeing an entry, misuses of the list included, keeps the table and its *)
(* entries apart.                                                          *)
LEMMA FreeSentKeeps ==
  ASSUME TableInv, NEW n \in Node \cup {NoNode}, FreeSent(n)
  PROVE  /\ UNCHANGED data /\ EntriesDiffer'
         /\ unused' \in Seq(Node) /\ Len(unused') <= Cardinality(Node)
         /\ fault' \in {fault, "assertion ret == 0", "removed twice"}
         /\ fault' = "none" => /\ n \in Node /\ InUse(n)
                               /\ \A x \in Node : InUse(x)' <=> InUse(x) /\ x # n
         /\ \A x \in Node : InUse(x)' => InUse(x)
<1>1. unused \in Seq(Node) /\ Len(unused) <= Cardinality(Node) /\ EntriesDiffer
  BY DEF TableInv, TypeOK
<1>2. CASE UNCHANGED listVars /\ fault' \in {"assertion ret == 0", "removed twice"}
  <2>1. EntriesDiffer' /\ \A x : InUse(x)' <=> InUse(x)
    BY <1>1, <1>2, Framed
  <2>2. QED
    BY <1>1, <1>2, <2>1 DEF listVars
<1>3. CASE n # NoNode /\ InUse(n) /\ unused' = Append(unused, n) /\ UNCHANGED <<data, fault>>
  <2>1. n \in Node
    BY <1>3
  <2>2. /\ unused' \in Seq(Node) /\ Len(unused') <= Cardinality(Node)
        /\ \A x \in Node : InUse(x)' <=> InUse(x) /\ x # n
        /\ EntriesDiffer'
    BY <1>1, <1>3, <2>1, OneFreed
  <2>3. QED
    BY <1>3, <2>1, <2>2
<1>4. QED
  BY <1>2, <1>3 DEF FreeSent

(* The three threads that free an entry keep the table.                    *)
LEMMA FreeKeepsTable ==
  ASSUME TableInv, ClientFree \/ TriggerFree \/ \E a \in Answerer : AnswererFree(a)
  PROVE  TableInv'
<1>1. /\ UNCHANGED <<last_id, passed, queueVars, creq, cnode, areq, anode, armed, treq, tnode>>
      /\ \E n \in Node \cup {NoNode} : FreeSent(n)
      /\ cpc' = cpc \/ cpc' = "idle"
      /\ tpc' = tpc \/ (tpc = "free" /\ tpc' = "push")
      /\ apc' = apc \/ \E a \in Answerer : /\ apc[a] = "free"
                                           /\ apc' = [apc EXCEPT ![a] = AfterFree(a)]
  <2>1. cnode \in Node \cup {NoNode} /\ tnode \in Node \cup {NoNode}
        /\ \A a \in Answerer : anode[a] \in Node \cup {NoNode}
    BY DEF TableInv, TypeOK
  <2>2. CASE ClientFree
    BY <2>1, <2>2 DEF ClientFree, Client, answererVars, triggerVars
  <2>3. CASE TriggerFree
    BY <2>1, <2>3 DEF TriggerFree, clientVars, answererVars
  <2>4. CASE \E a \in Answerer : AnswererFree(a)
    BY <2>1, <2>4 DEF AnswererFree, Answer, clientVars, triggerVars
  <2>5. QED
    BY <2>2, <2>3, <2>4
<1>2. /\ UNCHANGED data /\ EntriesDiffer'
      /\ unused' \in Seq(Node) /\ Len(unused') <= Cardinality(Node)
      /\ fault' \in {fault, "assertion ret == 0", "removed twice"}
  BY <1>1, FreeSentKeeps
<1>3. /\ apc' \in [Answerer -> {"idle", "find", "check", "push", "fallback", "free", "signal",
                                "done"}]
      /\ \A a \in Answerer : apc'[a] = apc[a]
                             \/ /\ apc[a] = "free"
                                /\ apc'[a] = IF a = "local" THEN "signal" ELSE "idle"
  <2>1. apc \in [Answerer -> {"idle", "find", "check", "push", "fallback", "free", "signal",
                             "done"}]
    BY DEF TableInv, TypeOK
  <2>2. CASE apc' = apc
    BY <2>1, <2>2
  <2>3. ASSUME NEW a \in Answerer, apc[a] = "free", apc' = [apc EXCEPT ![a] = AfterFree(a)]
        PROVE  /\ apc' \in [Answerer -> {"idle", "find", "check", "push", "fallback", "free",
                                          "signal", "done"}]
               /\ \A b \in Answerer : \/ apc'[b] = apc[b]
                                      \/ /\ apc[b] = "free"
                                         /\ apc'[b] = IF b = "local" THEN "signal" ELSE "idle"
    BY <2>1, <2>3 DEF AfterFree
  <2>4. QED
    BY <1>1, <2>2, <2>3
<1>4. Known' \subseteq Known
  BY <1>1, <1>2 DEF Known, queueVars
<1>5. Identified' /\ Messages' /\ Room' /\ \A r : NoAnswer(r)' <=> NoAnswer(r)
  <2>1. Identified'
    BY <1>1, <1>4, NoneNew DEF TableInv
  <2>2. Messages' /\ \A r : NoAnswer(r)' <=> NoAnswer(r)
    BY <1>1 DEF TableInv, Messages, NoAnswer, queueVars
  <2>3. \A kind : Count(kind)' = Count(kind)
    BY <1>1, <1>2, <1>3, SameCounts DEF queueVars
  <2>4. QED
    BY <2>1, <2>2, <2>3 DEF TableInv, TypeOK, Room, Kinded
<1>6. TypeOK'
  <2>1. /\ UNCHANGED <<data, last_id, passed, queueVars, creq, cnode, areq, anode, armed, treq,
                       tnode>>
        /\ cpc' = cpc \/ cpc' = "idle"
        /\ tpc' = tpc \/ tpc' = "push"
    BY <1>1, <1>2
  <2>2. fault' \in {"none", "assertion ret == 0", "removed twice"}
    <3>1. fault \in {"none", "assertion ret == 0", "removed twice"}
      BY Zenon DEF TableInv, TypeOK
    <3>2. QED
      BY <1>2, <3>1, Zenon
  <2>3. \A kind \in {"sync", "async", "event"} : Count(kind)' <= PoolSize(kind)
    BY <1>5 DEF Room, Kinded
  <2>4. unused' \in Seq(Node) /\ Len(unused') <= Cardinality(Node)
    BY <1>2
  <2>5. QED
    BY <1>3, <2>1, <2>2, <2>3, <2>4 DEF TableInv, TypeOK, queueVars
<1>7. Unsent' /\ InNetwork' /\ InQueue' /\ BeingAnswered'
  BY <1>1, <1>3, <1>5
    DEF TableInv, Unsent, InNetwork, InQueue, BeingAnswered, Single, queueVars, Answerer
<1>8. ClientAt' /\ AnswererAt'
  BY <1>1, <1>2, <1>3 DEF TableInv, ClientAt, AnswererAt, Handling, Answerer
<1>9. QED
  BY <1>2, <1>5, <1>6, <1>7, <1>8 DEF TableInv

(* The client's container keeps it: it takes the first message, and the    *)
(* entry of an asynchronous answer.                                        *)
LEMMA ServeKeepsTable ==
  ASSUME TableInv, Serve
  PROVE  TableInv'
<1>1. /\ cpc = "idle" /\ fifo # <<>> /\ fifo' = Tail(fifo)
      /\ UNCHANGED <<data, last_id, passed, received, requests, network, clientVars,
                     answererVars, triggerVars, fault>>
      /\ \/ UNCHANGED unused
         \/ \E n \in Node : InUse(n) /\ unused' = Append(unused, n)
  BY DEF Serve
<1>2. unused \in Seq(Node) /\ Len(unused) <= Cardinality(Node) /\ fifo \in Seq(Message)
  BY DEF TableInv, TypeOK, Message
<1>3. EntriesDiffer' /\ unused' \in Seq(Node) /\ Len(unused') <= Cardinality(Node)
  <2>1. CASE UNCHANGED unused
    BY <1>1, <1>2, <2>1, Framed DEF TableInv, listVars
  <2>2. ASSUME NEW n \in Node, InUse(n), unused' = Append(unused, n)
        PROVE  EntriesDiffer' /\ unused' \in Seq(Node) /\ Len(unused') <= Cardinality(Node)
    BY <1>1, <1>2, <2>2, OneFreed DEF TableInv
  <2>3. QED
    BY <1>1, <2>1, <2>2
<1>4. /\ fifo' \in Seq(Message) /\ Len(fifo) \in Nat \ {0} /\ Len(fifo') = Len(fifo) - 1
      /\ \A i \in 1..Len(fifo') : i + 1 \in 1..Len(fifo) /\ fifo'[i] = fifo[i + 1]
  BY <1>1, <1>2
<1>5. Messages' /\ \A r : NoAnswer(r) => NoAnswer(r)'
  <2>1. Once(fifo')
    BY <1>4 DEF TableInv, Messages, Once
  <2>2. \A i \in 1..Len(fifo') :
          fifo'[i].id <= last_id /\ (fifo'[i].kind = "event" <=> fifo'[i].id = 0)
    BY <1>4 DEF TableInv, Messages
  <2>3. \A r : NoAnswer(r) => NoAnswer(r)'
    BY <1>4 DEF NoAnswer
  <2>4. QED
    BY <1>1, <2>1, <2>2, <2>3 DEF Messages
<1>6. Room'
  <2> SUFFICES ASSUME NEW kind \in Kinded PROVE Count(kind)' <= PoolSize(kind)
    BY DEF Room
  <2>1. Falling(kind)' = Falling(kind)
    BY <1>1 DEF Falling, answererVars
  <2>2. Cardinality(OfKind(fifo', kind)) <= Cardinality(OfKind(fifo, kind))
    <3>1. Cardinality(OfKind(fifo, kind)) =
            Cardinality(OfKind(fifo', kind)) + (IF Head(fifo).kind = kind THEN 1 ELSE 0)
      BY <1>1, <1>2, TailCounts
    <3>2. Cardinality(OfKind(fifo, kind)) \in Nat /\ Cardinality(OfKind(fifo', kind)) \in Nat
      BY <1>2, <1>4, KindsFinite
    <3>3. QED
      BY <3>1, <3>2
  <2>3. /\ Count(kind) = Cardinality(OfKind(fifo, kind)) + Cardinality(Falling(kind))
        /\ Count(kind)' = Cardinality(OfKind(fifo', kind)) + Cardinality(Falling(kind)')
    BY DEF Count, OfKind, Falling
  <2>4. /\ Cardinality(OfKind(fifo, kind)) \in Nat /\ Cardinality(OfKind(fifo', kind)) \in Nat
        /\ Cardinality(Falling(kind)) \in Nat /\ PoolSize(kind) \in Nat
        /\ Count(kind) <= PoolSize(kind)
    BY <1>2, <1>4, KindsFinite, FallingFinite, RequestAssumption
      DEF TableInv, TypeOK, Kinded, PoolSize
  <2> DEFINE c == Cardinality(OfKind(fifo, kind))
             d == Cardinality(OfKind(fifo', kind))
             e == Cardinality(Falling(kind))
  <2>5. Count(kind) = c + e /\ Count(kind)' = d + e /\ d <= c
        /\ c \in Nat /\ d \in Nat /\ e \in Nat
    BY <2>1, <2>2, <2>3, <2>4
  <2> HIDE DEF c, d, e
  <2>6. QED
    BY <2>4, <2>5
<1>7. Known' \subseteq Known
  BY <1>1 DEF Known, clientVars, answererVars, triggerVars
<1>8. Identified'
  BY <1>1, <1>7, NoneNew DEF TableInv, triggerVars
<1>9. TypeOK'
  BY <1>1, <1>3, <1>4, <1>6
    DEF TableInv, TypeOK, Room, Kinded, Message, clientVars, answererVars, triggerVars
<1>10. Unsent' /\ InNetwork' /\ InQueue' /\ BeingAnswered'
  BY <1>1, <1>5
    DEF TableInv, Unsent, InNetwork, InQueue, BeingAnswered, Single, clientVars, answererVars
<1>11. ClientAt' /\ AnswererAt'
  BY <1>1 DEF TableInv, ClientAt, AnswererAt, clientVars, answererVars, triggerVars
<1>12. QED
  BY <1>3, <1>5, <1>6, <1>8, <1>9, <1>10, <1>11 DEF TableInv
-----------------------------------------------------------------------------
Steps == {"idle", "find", "check", "push", "fallback", "free", "signal", "done"}

(* Taking a request from the queue or an answer from the network keeps the *)
(* table: it goes from there to the thread.                                *)
LEMMA TakeKeepsTable ==
  ASSUME TableInv, TakeRequest \/ TakeAnswer
  PROVE  TableInv'
<1>1. PICK a \in Answerer, r \in Request :
        /\ apc[a] = "idle" /\ apc' = [apc EXCEPT ![a] = "find"] /\ areq' = [areq EXCEPT ![a] = r]
        /\ r # NoReq /\ r.server = a
        /\ UNCHANGED <<listVars, last_id, passed, received, fifo, clientVars, anode,
                       triggerVars, fault>>
        /\ \/ a = "local" /\ requests # <<>> /\ r = Head(requests) /\ requests' = Tail(requests)
              /\ network' = network /\ \E i \in 1..Len(requests) : requests[i] = r
           \/ a = "remote" /\ r \in network /\ network' = network \ {r} /\ requests' = requests
  <2>1. CASE TakeRequest
    <3>1. requests \in Seq(Request) /\ requests # <<>> /\ 1 \in 1..Len(requests)
          /\ Head(requests) = requests[1]
      <4>1. requests \in Seq(Request)
        BY DEF TableInv, TypeOK
      <4>2. QED
        BY <2>1, <4>1 DEF TakeRequest
    <3>2. requests[1] \in Request
      BY <3>1
    <3>3. Head(requests) # NoReq /\ Head(requests).server = "local"
      BY <3>1 DEF TableInv, InQueue
    <3>4. QED
      BY <2>1, <3>1, <3>2, <3>3 DEF TakeRequest, Answer, Answerer
  <2>2. CASE TakeAnswer
    BY <2>2 DEF TakeAnswer, Answer, Answerer, TableInv, TypeOK, InNetwork
  <2>3. QED
    BY <2>1, <2>2
<1>2. /\ requests' \in Seq(Request) /\ Len(requests') <= RequestPool
      /\ \A i \in 1..Len(requests') : \E j \in 1..Len(requests) :
           requests'[i] = requests[j] /\ (a = "local" => requests[j] # r)
      /\ \A i, j \in 1..Len(requests') : requests'[i] = requests'[j] => i = j
  <2>1. requests \in Seq(Request) /\ Len(requests) <= RequestPool
    BY DEF TableInv, TypeOK
  <2>2. \A i, j \in 1..Len(requests) : requests[i] = requests[j] => i = j
    BY DEF TableInv, InQueue
  <2>3. CASE requests' = requests /\ a = "remote"
    BY <2>1, <2>2, <2>3
  <2>4. CASE requests # <<>> /\ r = Head(requests) /\ requests' = Tail(requests)
    <3>1. /\ Len(requests) \in Nat \ {0} /\ r = requests[1] /\ requests' \in Seq(Request)
          /\ Len(requests') = Len(requests) - 1
          /\ \A i \in 1..Len(requests') : i + 1 \in 1..Len(requests) /\ i + 1 # 1
                                          /\ requests'[i] = requests[i + 1]
      BY <2>1, <2>4
    <3>2. 1 \in 1..Len(requests)
      BY <3>1
    <3>3. \A i \in 1..Len(requests') : requests[i + 1] # r
      BY <2>2, <3>1, <3>2
    <3>4. \A i, j \in 1..Len(requests') : requests'[i] = requests'[j] => i = j
      BY <2>2, <3>1
    <3>5. Len(requests') <= RequestPool
      BY <2>1, <3>1, RequestAssumption
    <3>6. QED
      BY <3>1, <3>3, <3>4, <3>5
  <2>5. QED
    BY <1>1, <2>3, <2>4
<1>3. /\ apc' \in [Answerer -> Steps] /\ areq' \in [Answerer -> Request \cup {NoReq}]
      /\ apc'[a] = "find" /\ areq'[a] = r
      /\ \A b \in Answerer \ {a} : apc'[b] = apc[b] /\ areq'[b] = areq[b]
  BY <1>1 DEF TableInv, TypeOK, Steps
<1>4. r \in Known /\ network' \subseteq network
  BY <1>1 DEF Known
<1>5. Known' \subseteq Known
  <2>1. \A b \in Answerer : areq'[b] \in Known
    BY <1>3, <1>4 DEF Known
  <2>2. \A i \in 1..Len(requests') : requests'[i] \in Known
    BY <1>2 DEF Known
  <2>3. network' \subseteq Known
    BY <1>4 DEF Known
  <2>4. QED
    BY <1>1, <2>1, <2>2, <2>3 DEF Known, listVars, clientVars, triggerVars
<1>6. /\ Identified' /\ EntriesDiffer' /\ Messages' /\ Room'
      /\ \A x : NoAnswer(x)' <=> NoAnswer(x)
  <2>1. \A b \in Answerer : apc'[b] = "fallback" <=> apc[b] = "fallback"
    BY <1>1, <1>3
  <2>2. QED
    BY <1>1, <1>5, <2>1, LocalStep DEF triggerVars
<1>7. TypeOK'
  <2>1. UNCHANGED <<data, unused, last_id, passed, received, fifo, cpc, creq, cnode, anode,
                    armed, tpc, treq, tnode, fault>>
    BY <1>1 DEF listVars, clientVars, triggerVars
  <2>2. network' \subseteq Request
    BY <1>4 DEF TableInv, TypeOK
  <2>3. requests' \in Seq(Request) /\ Len(requests') <= RequestPool
    BY <1>2
  <2>4. QED
    BY <1>3, <1>6, <2>1, <2>2, <2>3 DEF TableInv, TypeOK, Room, Kinded, Steps
<1>8. Single(r) => NoAnswer(r)
  BY <1>1 DEF TableInv, InNetwork, InQueue
<1>9. BeingAnswered'
  BY <1>1, <1>3, <1>6, <1>8 DEF TableInv, BeingAnswered, Single
<1>10. Unsent'
  <2>1. cpc \in {"add_received", "send", "undo", "undo_free"} => creq # r
    BY <1>1 DEF TableInv, Unsent
  <2>2. QED
    BY <1>1, <1>2, <1>3, <1>4, <1>6, <2>1 DEF TableInv, Unsent, Single, clientVars
<1>11. InNetwork'
  BY <1>1, <1>3, <1>4, <1>6 DEF TableInv, InNetwork, Single, Answerer
<1>12. InQueue'
  <2>1. ASSUME NEW i \in 1..Len(requests')
        PROVE  (/\ requests[i] # NoReq /\ requests[i].server = "local"
                /\ Single(requests[i]) => NoAnswer(requests[i])
                /\ apc["local"] # "idle" => areq["local"] # requests[i])'
    <3>1. PICK j \in 1..Len(requests) :
            requests'[i] = requests[j] /\ (a = "local" => requests[j] # r)
      BY <1>2
    <3>2. QED
      BY <1>1, <1>3, <3>1 DEF TableInv, InQueue, Single, NoAnswer, Answerer
  <2>2. QED
    BY <1>2, <2>1 DEF InQueue
<1>13. ClientAt' /\ AnswererAt'
  BY <1>1, <1>3 DEF TableInv, ClientAt, AnswererAt, Handling, listVars, clientVars,
                         triggerVars
<1>14. QED
  BY <1>6, <1>7, <1>9, <1>10, <1>11, <1>12, <1>13 DEF TableInv

(* The steps of an answering thread that push and free nothing keep it.    *)
LEMMA AnswererKeepsTable ==
  ASSUME TableInv, NEW a \in Answerer,
         FindSent(a) \/ CheckTimeout(a) \/ Signal(a) \/ (a = "local" /\ FreeReceived)
  PROVE  TableInv'
<1>1. /\ UNCHANGED <<listVars, last_id, passed, requests, network, fifo, creq, cnode, areq,
                     triggerVars, fault>>
      /\ received' \subseteq received
      /\ cpc' = cpc \/ (cpc = "waiting" /\ cpc' = "woken")
      /\ \E s \in Steps : apc' = [apc EXCEPT ![a] = s]
      /\ \/ /\ apc[a] = "find" /\ anode' = [anode EXCEPT ![a] = Found(areq[a])]
            /\ \/ Find(areq[a]) # {} /\ apc' = [apc EXCEPT ![a] = "check"]
               \/ apc' = [apc EXCEPT ![a] = GiveUp(a)]
         \/ /\ apc[a] = "check" /\ anode' = anode
            /\ \/ apc' = [apc EXCEPT ![a] = "push"]
               \/ a = "local" /\ apc' = [apc EXCEPT ![a] = "done"]
               \/ a = "remote" /\ apc' = [apc EXCEPT ![a] = "free"]
         \/ /\ apc[a] = "signal" /\ anode' = anode
            /\ apc' = [apc EXCEPT ![a] = IF a = "local" THEN "done" ELSE "free"]
         \/ a = "local" /\ apc[a] = "done" /\ anode' = anode /\ apc' = [apc EXCEPT ![a] = "idle"]
  <2>1. CASE FindSent(a)
    BY <2>1 DEF FindSent, Answer, GiveUp, Steps, clientVars, queueVars
  <2>2. CASE CheckTimeout(a)
    <3>1. a = "local" \/ a = "remote"
      BY DEF Answerer
    <3>2. QED
      BY <2>2, <3>1 DEF CheckTimeout, Answer, GiveUp, Steps, clientVars, queueVars
  <2>3. CASE Signal(a)
    BY <2>3 DEF Signal, Answer, Client, Steps, queueVars
  <2>4. CASE a = "local" /\ FreeReceived
    BY <2>4 DEF FreeReceived, Answer, Steps, clientVars
  <2>5. QED
    BY <2>1, <2>2, <2>3, <2>4
<1>2. /\ apc \in [Answerer -> Steps] /\ anode \in [Answerer -> Node \cup {NoNode}]
      /\ areq \in [Answerer -> Request \cup {NoReq}]
  BY DEF TableInv, TypeOK, Steps
<1>3. Find(areq[a]) # {} =>
        Found(areq[a]) \in Node /\ InUse(Found(areq[a])) /\ data[Found(areq[a])] = areq[a]
  <2> SUFFICES ASSUME Find(areq[a]) # {} PROVE <1>3!2
    OBVIOUS
  <2>1. Found(areq[a]) \in Find(areq[a])
    BY DEF Found
  <2>2. Found(areq[a]) \in Node /\ InUse(Found(areq[a])) /\ data[Found(areq[a])].id = areq[a].id
    BY <2>1 DEF Find
  <2>3. data[Found(areq[a])] \in Known /\ areq[a] \in Known
    BY <2>2 DEF Known
  <2>4. QED
    BY <2>2, <2>3 DEF TableInv, Identified
<1>4. Found(areq[a]) \in Node \cup {NoNode}
  BY DEF Found, Find
<1>5. apc' \in [Answerer -> Steps] /\ anode' \in [Answerer -> Node \cup {NoNode}]
      /\ \A b \in Answerer \ {a} : apc'[b] = apc[b] /\ anode'[b] = anode[b]
  BY <1>1, <1>2, <1>4
<1>6. apc[a] # "idle" /\ apc[a] # "fallback" /\ apc'[a] # "fallback"
  BY <1>1, <1>2 DEF GiveUp
<1>7. Known' \subseteq Known
  BY <1>1 DEF Known, listVars, triggerVars
<1>8. /\ Identified' /\ EntriesDiffer' /\ Messages' /\ Room'
      /\ \A x : NoAnswer(x)' <=> NoAnswer(x)
  <2>1. \A b \in Answerer : (apc'[b] = "fallback" <=> apc[b] = "fallback")
                            /\ (apc[b] = "fallback" => anode'[b] = anode[b])
    BY <1>5, <1>6
  <2>2. QED
    BY <1>1, <1>7, <2>1, LocalStep DEF triggerVars
<1>9. TypeOK'
  <2>1. /\ UNCHANGED <<data, unused, last_id, passed, requests, network, fifo, creq, cnode, areq,
                       armed, tpc, treq, tnode, fault>>
        /\ received' \subseteq received
        /\ cpc' = cpc \/ cpc' = "woken"
    BY <1>1 DEF listVars, triggerVars
  <2>2. QED
    BY <1>5, <1>8, <2>1 DEF TableInv, TypeOK, Room, Kinded, Steps
<1>10. /\ apc'[a] \in {"check", "push"} => apc[a] \in {"find", "check"}
       /\ apc'[a] \notin {"find", "fallback"}
  BY <1>1, <1>2 DEF GiveUp
<1>11. Unsent' /\ InNetwork' /\ InQueue'
  BY <1>1, <1>5, <1>6, <1>8 DEF TableInv, Unsent, InNetwork, InQueue, Single, Answerer
<1>12. BeingAnswered'
  BY <1>1, <1>5, <1>6, <1>8, <1>10 DEF TableInv, BeingAnswered, Single
<1>13. ClientAt'
  BY <1>1 DEF TableInv, ClientAt, triggerVars
<1>14. AnswererAt'
  <2>1. apc'[a] \in Handling => anode'[a] \in Node /\ data'[anode'[a]] = areq'[a]
    BY <1>1, <1>2, <1>3 DEF TableInv, AnswererAt, Handling, GiveUp, listVars
  <2>2. apc'[a] = "signal" \/ (a = "local" /\ apc'[a] = "free") => areq'[a].sync
    BY <1>1, <1>2 DEF GiveUp
  <2>3. apc'["remote"] # "done"
    BY <1>1, <1>2, <1>5 DEF TableInv, AnswererAt, GiveUp, Answerer
  <2>4. QED
    BY <1>1, <1>5, <1>10, <2>1, <2>2, <2>3 DEF TableInv, AnswererAt, listVars
<1>15. QED
  BY <1>8, <1>9, <1>11, <1>12, <1>13, <1>14 DEF TableInv

(* A date that passes, and an event of the trigger that is looked up, keep *)
(* it.                                                                     *)
LEMMA TimeKeepsTable ==
  ASSUME TableInv, Pass \/ TriggerFind
  PROVE  TableInv'
<1>1. /\ UNCHANGED <<listVars, last_id, queueVars, clientVars, answererVars, fault>>
      /\ passed' = passed \/ \E r \in Request : passed' = passed \cup {r}
      /\ armed' \subseteq armed /\ treq' \in armed \cup {treq}
      /\ tnode' \in Node \cup {NoNode} /\ tpc' \in {"idle", "free", tpc}
      /\ (treq' = treq /\ tpc' = tpc) \/ treq' \in armed
  <2>1. CASE Pass
    BY <2>1 DEF Pass, triggerVars, TableInv, TypeOK
  <2>2. CASE TriggerFind
    BY <2>2 DEF TriggerFind, Found, Find
  <2>3. QED
    BY <2>1, <2>2
<1>2. armed' \cup {treq'} \subseteq armed \cup {treq}
  BY <1>1
<1>3. Known' \subseteq Known
  BY <1>1, <1>2 DEF Known, listVars, clientVars, answererVars, queueVars
<1>4. /\ Identified' /\ EntriesDiffer' /\ Messages' /\ Room'
      /\ \A x : NoAnswer(x)' <=> NoAnswer(x)
  BY <1>1, <1>2, <1>3, LocalStep DEF answererVars, queueVars
<1>5. TypeOK'
  <2>1. /\ UNCHANGED <<data, unused, last_id, received, requests, network, fifo, cpc, creq, cnode,
                       apc, areq, anode, fault>>
        /\ armed' \subseteq armed /\ treq' \in armed \cup {treq}
        /\ tnode' \in Node \cup {NoNode} /\ tpc' \in {"idle", "free", tpc}
    BY <1>1 DEF listVars, clientVars, answererVars, queueVars
  <2>2. passed' \subseteq Request
    BY <1>1 DEF TableInv, TypeOK
  <2>3. QED
    BY <1>4, <2>1, <2>2 DEF TableInv, TypeOK, Room, Kinded
<1>6. Unsent' /\ InNetwork' /\ InQueue' /\ BeingAnswered'
  BY <1>1, <1>4 DEF TableInv, Unsent, InNetwork, InQueue, BeingAnswered, Single,
                   clientVars, answererVars, queueVars
<1>7. ClientAt' /\ AnswererAt'
  <2>1. \A r \in armed : r # NoReq
    <3>1. armed \subseteq Request
      BY DEF TableInv, TypeOK
    <3>2. NoReq \notin Request
      <4>1. \A r \in Request : r.id \in ID
        BY DEF Request
      <4>2. NoReq.id \notin ID
        BY RequestAssumption DEF NoReq, ID
      <4>3. QED
        BY <4>1, <4>2
    <3>3. QED
      BY <3>1, <3>2
  <2>2. QED
    BY <1>1, <2>1 DEF TableInv, ClientAt, AnswererAt, listVars, clientVars, answererVars
<1>8. QED
  BY <1>4, <1>5, <1>6, <1>7 DEF TableInv
-----------------------------------------------------------------------------
(* The counts are those of the FIFO and of the messages pushed again.      *)
LEMMA CountParts ==
  ASSUME fifo \in Seq(Message), fifo' \in Seq(Message), NEW kind
  PROVE  /\ Count(kind) = Cardinality(OfKind(fifo, kind)) + Cardinality(Falling(kind))
         /\ Count(kind)' = Cardinality(OfKind(fifo', kind)) + Cardinality(Falling(kind)')
         /\ Cardinality(OfKind(fifo, kind)) \in Nat /\ Cardinality(OfKind(fifo', kind)) \in Nat
         /\ Cardinality(Falling(kind)) \in Nat /\ Cardinality(Falling(kind)') \in Nat
<1>1. /\ Count(kind) = Cardinality(OfKind(fifo, kind)) + Cardinality(Falling(kind))
      /\ Count(kind)' = Cardinality(OfKind(fifo', kind)) + Cardinality(Falling(kind)')
  BY DEF Count, OfKind, Falling
<1>2. Cardinality(Falling(kind)) \in Nat /\ Cardinality(Falling(kind)') \in Nat
  <2>1. IsFiniteSet({"local"})
    BY FS_Singleton
  <2>2. IsFiniteSet({"local"} \cup {"remote"})
    BY <2>1, FS_AddElement
  <2>3. Answerer = {"local"} \cup {"remote"}
    BY DEF Answerer
  <2>4. Falling(kind) \in SUBSET Answerer /\ Falling(kind)' \in SUBSET Answerer
    BY DEF Falling
  <2>5. QED
    BY <2>2, <2>3, <2>4, FS_Subset, FS_CardinalityType
<1>3. QED
  BY <1>1, <1>2, KindsFinite

(* What a step of one answering thread does to the messages pushed again.  *)
LEMMA FallingMoves ==
  ASSUME TypeOK, NEW a \in Answerer, NEW s, apc' = [apc EXCEPT ![a] = s],
         UNCHANGED <<data, anode>>, NEW kind
  PROVE  Cardinality(Falling(kind)') =
           Cardinality(Falling(kind))
             - (IF apc[a] = "fallback" /\ Kind(data[anode[a]]) = kind THEN 1 ELSE 0)
             + (IF s = "fallback" /\ Kind(data[anode[a]]) = kind THEN 1 ELSE 0)
<1> DEFINE F == Falling(kind)
           G == Falling(kind)'
           K == Kind(data[anode[a]]) = kind
<1>1. apc'[a] = s /\ \A b \in Answerer \ {a} : apc'[b] = apc[b]
  BY DEF TypeOK
<1>2. (a \in F <=> apc[a] = "fallback" /\ K) /\ (a \in G <=> s = "fallback" /\ K)
  BY <1>1 DEF Falling, Kind
<1>3. G \ {a} = F \ {a}
  BY <1>1 DEF Falling, Kind
<1>4. IsFiniteSet(F) /\ Cardinality(F) \in Nat
  BY FallingFinite
<1>5. IsFiniteSet(F \ {a}) /\ Cardinality(F \ {a}) = Cardinality(F) - (IF a \in F THEN 1 ELSE 0)
  BY <1>4, FS_RemoveElement
<1>6. Cardinality(G) = Cardinality(F \ {a}) + (IF a \in G THEN 1 ELSE 0)
  <2>1. CASE a \in G
    <3>1. G = (F \ {a}) \cup {a} /\ a \notin F \ {a}
      BY <1>3, <2>1
    <3>2. QED
      BY <1>4, <1>5, <2>1, <3>1, FS_AddElement
  <2>2. CASE a \notin G
    <3>1. G = F \ {a}
      BY <1>3, <2>2
    <3>2. QED
      BY <1>4, <1>5, <2>2, <3>1
  <2>3. QED
    BY <2>1, <2>2
<1> HIDE DEF F, G
<1>7. Cardinality(G) = Cardinality(F) - (IF a \in F THEN 1 ELSE 0) + (IF a \in G THEN 1 ELSE 0)
  BY <1>4, <1>5, <1>6
<1>8. QED
  BY <1>2, <1>7 DEF F, G

(* A message that is pushed is the FIFO's only new one.                    *)
LEMMA PushKeepsMessages ==
  ASSUME TableInv, UNCHANGED last_id, NEW m \in Message, m.id <= last_id,
         m.kind = "event" <=> m.id = 0, m.kind \in SingleKinds => NoAnswer(m),
         fifo' = Append(fifo, m) \/ fifo' = <<m>> \o fifo
  PROVE  /\ fifo' \in Seq(Message) /\ Messages'
         /\ \A x : NoAnswer(x)' <=> NoAnswer(x) /\ m.id # x.id
         /\ \A i \in 1..Len(fifo') : fifo'[i] = m \/ \E j \in 1..Len(fifo) : fifo'[i] = fifo[j]
         /\ \A kind : Cardinality(OfKind(fifo', kind)) =
                        Cardinality(OfKind(fifo, kind)) + (IF m.kind = kind THEN 1 ELSE 0)
<1>1. fifo \in Seq(Message) /\ Once(fifo)
  BY DEF TableInv, TypeOK, Message, Messages
<1>2. m.kind \in SingleKinds => Lacks(fifo, m.id)
  BY DEF NoAnswer, Lacks
<1>3. /\ fifo' \in Seq(Message) /\ Once(fifo')
      /\ \A x : Lacks(fifo', x) <=> Lacks(fifo, x) /\ m.id # x
      /\ \A i \in 1..Len(fifo') : fifo'[i] = m \/ \E j \in 1..Len(fifo) : fifo'[i] = fifo[j]
      /\ \A kind : Cardinality(OfKind(fifo', kind)) =
                     Cardinality(OfKind(fifo, kind)) + (IF m.kind = kind THEN 1 ELSE 0)
  BY <1>1, <1>2, OneMore
<1>4. \A i \in 1..Len(fifo') :
        fifo'[i].id <= last_id /\ (fifo'[i].kind = "event" <=> fifo'[i].id = 0)
  BY <1>3 DEF TableInv, Messages
<1>5. Messages'
  BY <1>3, <1>4 DEF Messages
<1>6. \A x : NoAnswer(x)' <=> NoAnswer(x) /\ m.id # x.id
  BY <1>3 DEF NoAnswer, Lacks
<1>7. QED
  BY <1>3, <1>5, <1>6
-----------------------------------------------------------------------------
(* A message for a request, of its own or of none, leaves the others       *)
(* without an answer.                                                      *)
LEMMA OthersUnanswered ==
  ASSUME TableInv, NEW q,
         UNCHANGED <<cpc, creq, network, requests, areq>>,
         \A x \in Known \ {q} : x # NoReq /\ Single(x) /\ NoAnswer(x) => NoAnswer(x)',
         q \notin network, \A i \in 1..Len(requests) : requests[i] # q,
         cpc \in {"add_received", "send", "undo", "undo_free"} => creq # q,
         \A a \in Answerer :
           /\ apc'[a] # "idle" => apc[a] # "idle"
           /\ apc'[a] \in {"find", "check", "push", "fallback"} =>
                areq[a] # q /\ apc[a] \in {"find", "check", "push", "fallback"}
  PROVE  Unsent' /\ InNetwork' /\ InQueue' /\ BeingAnswered'
<1>1. /\ creq \in Known /\ network \subseteq Known /\ \A a \in Answerer : areq[a] \in Known
      /\ \A i \in 1..Len(requests) : requests[i] \in Known
  BY DEF Known
<1>2. Unsent'
  BY <1>1 DEF TableInv, Unsent, ClientAt, Single
<1>3. InNetwork'
  BY <1>1 DEF TableInv, InNetwork, Single, Answerer
<1>4. InQueue'
  BY <1>1 DEF TableInv, InQueue, Single, Answerer
<1>5. BeingAnswered'
  BY <1>1 DEF TableInv, BeingAnswered, Single
<1>6. QED
  BY <1>2, <1>3, <1>4, <1>5

(* The identifier of a request is no other's.                              *)
LEMMA KnownApart ==
  ASSUME TableInv, NEW q \in Known, NEW x \in Known, x # q
  PROVE  x.id # q.id
BY DEF TableInv, Identified

(* What a thread that pushes an answer has.                                *)
LEMMA AnswerAtHand ==
  ASSUME TableInv, NEW a \in Answerer, apc[a] \in {"push", "fallback"}
  PROVE  /\ areq[a] \in Request /\ areq[a] \in Known /\ data[anode[a]] = areq[a]
         /\ Sync(a) = areq[a].sync
         /\ Msg(Kind(areq[a]), areq[a]) \in Message
         /\ Msg(Kind(areq[a]), areq[a]).id = areq[a].id
         /\ Msg(Kind(areq[a]), areq[a]).kind = Kind(areq[a])
         /\ areq[a].id <= last_id /\ areq[a].id # 0
         /\ Kind(areq[a]) \in {"sync", "async"}
         /\ Kind(areq[a]) \in SingleKinds => NoAnswer(areq[a])
         /\ areq[a] \notin network /\ \A i \in 1..Len(requests) : requests[i] # areq[a]
         /\ cpc \in {"add_received", "send", "undo", "undo_free"} => creq # areq[a]
         /\ \A b \in Answerer \ {a} : apc[b] # "idle" => areq[b] # areq[a]
<1>1. areq[a] \in Request /\ areq[a] \in Known /\ data[anode[a]] = areq[a]
  BY DEF TableInv, TypeOK, BeingAnswered, AnswererAt, Handling, Known
<1>2. areq[a].id \in 1..MaxID /\ areq[a].sync \in BOOLEAN /\ MaxID \in Nat
  BY <1>1, RequestAssumption DEF Request, ID
<1>3. areq[a].id <= last_id /\ areq[a].id # 0
  BY <1>1, <1>2 DEF TableInv, Identified
<1>4. Kind(areq[a]) \in {"sync", "async"}
  BY DEF Kind
<1>5. Msg(Kind(areq[a]), areq[a]) = [kind |-> Kind(areq[a]), id |-> areq[a].id]
  BY DEF Msg
<1>6. Msg(Kind(areq[a]), areq[a]) \in Message
  BY <1>2, <1>4, <1>5 DEF Message
<1>7. Kind(areq[a]) \in SingleKinds => NoAnswer(areq[a])
  BY DEF TableInv, BeingAnswered, SingleKinds, Single, Kind
<1>8. areq[a].server = a /\ \A b \in Answerer \ {a} : apc[b] # "idle" => areq[b].server = b
  BY DEF TableInv, BeingAnswered
<1>9. areq[a] \notin network /\ \A i \in 1..Len(requests) : requests[i] # areq[a]
  BY <1>8 DEF TableInv, InNetwork, InQueue, Answerer
<1>10. cpc \in {"add_received", "send", "undo", "undo_free"} => creq # areq[a]
  BY DEF TableInv, Unsent
<1>11. Sync(a) = areq[a].sync
  BY <1>1 DEF Sync
<1>12. QED
  BY <1>1, <1>3, <1>4, <1>5, <1>6, <1>7, <1>8, <1>9, <1>10, <1>11

(* An answer that is pushed, or found to have no room or no place in front,*)
(* keeps the table.                                                        *)
LEMMA PushKeepsTable ==
  ASSUME TableInv, NEW a \in Answerer, PushAnswer(a) \/ (PushFallback(a) /\ apc[a] = "fallback")
  PROVE  TableInv'
<1> DEFINE r == areq[a]
           m == Msg(Kind(r), r)
<1>1. apc[a] \in {"push", "fallback"}
  BY DEF PushAnswer
<1>2. /\ r \in Request /\ r \in Known /\ data[anode[a]] = r /\ Sync(a) = r.sync
      /\ m \in Message /\ m.id = r.id /\ m.kind = Kind(r) /\ r.id <= last_id /\ r.id # 0
      /\ Kind(r) \in {"sync", "async"} /\ (Kind(r) \in SingleKinds => NoAnswer(r))
      /\ r \notin network /\ \A i \in 1..Len(requests) : requests[i] # r
      /\ cpc \in {"add_received", "send", "undo", "undo_free"} => creq # r
      /\ \A b \in Answerer \ {a} : apc[b] # "idle" => areq[b] # r
  BY <1>1, AnswerAtHand
<1>3. PICK s \in {"free", "signal", "idle", "done", "fallback"} :
        /\ apc' = [apc EXCEPT ![a] = s]
        /\ UNCHANGED <<listVars, last_id, passed, received, requests, network, clientVars,
                       areq, anode, triggerVars, fault>>
        /\ \/ fifo' = fifo /\ s # "fallback" /\ apc[a] = "push"
           \/ fifo' = fifo /\ s = "fallback" /\ apc[a] = "push" /\ r.sync /\ HasRoom(Kind(r))
           \/ /\ fifo' = Append(fifo, m) \/ fifo' = <<m>> \o fifo
              /\ s # "fallback" /\ (apc[a] = "push" => HasRoom(Kind(r)))
        /\ s = "signal" => r.sync
        /\ s = "free" => a = "remote" \/ r.sync
        /\ s = "done" => a = "local"
  <2>1. ASSUME NEW stored
        PROVE  /\ AfterPush(a, stored) \in {"free", "signal", "idle", "done"}
               /\ AfterPush(a, stored) = "signal" => r.sync
               /\ AfterPush(a, stored) = "free" => a = "remote" \/ r.sync
               /\ AfterPush(a, stored) = "done" => a = "local"
    BY <1>2 DEF AfterPush, GiveUp, Answerer
  <2>2. CASE PushAnswer(a)
    <3>1. apc[a] = "push" /\ UNCHANGED <<listVars, last_id, passed, received, requests, network,
                                         clientVars, areq, anode, triggerVars, fault>>
      BY <2>2 DEF PushAnswer
    <3>2. \/ apc' = [apc EXCEPT ![a] = AfterPush(a, FALSE)] /\ fifo' = fifo
          \/ /\ apc' = [apc EXCEPT ![a] = "fallback"] /\ fifo' = fifo /\ r.sync
             /\ HasRoom(Kind(r))
          \/ /\ apc' = [apc EXCEPT ![a] = AfterPush(a, TRUE)] /\ HasRoom(Kind(r))
             /\ fifo' = Append(fifo, m) \/ fifo' = <<m>> \o fifo
      BY <1>2, <2>2 DEF PushAnswer, Answer
    <3>3. QED
      BY <2>1, <3>1, <3>2
  <2>3. CASE PushFallback(a)
    BY <1>2, <2>1, <2>3 DEF PushFallback, Answer
  <2>4. QED
    BY <2>2, <2>3
<1> HIDE DEF r, m
<1>4. TypeOK /\ fifo \in Seq(Message) /\ apc'[a] = s
      /\ apc' \in [Answerer -> Steps] /\ \A b \in Answerer \ {a} : apc'[b] = apc[b]
  BY <1>3 DEF TableInv, TypeOK, Message, Steps
<1>5. /\ fifo' \in Seq(Message) /\ Messages'
      /\ \A x : NoAnswer(x)' <=> NoAnswer(x) /\ (fifo' # fifo => r.id # x.id)
      /\ \A kind : Cardinality(OfKind(fifo', kind)) =
                     Cardinality(OfKind(fifo, kind))
                       + (IF fifo' # fifo /\ Kind(r) = kind THEN 1 ELSE 0)
  <2>1. CASE fifo' = fifo
    <3>1. \A kind : Cardinality(OfKind(fifo, kind)) \in Nat
      BY <1>4, KindsFinite
    <3>2. QED
      BY <1>3, <1>4, <2>1, <3>1 DEF TableInv, Messages, NoAnswer
  <2>2. CASE fifo' = Append(fifo, m) \/ fifo' = <<m>> \o fifo
    <3>1. fifo' # fifo
      BY <1>2, <1>4, <2>2
    <3>2. m.kind = "event" <=> m.id = 0
      BY <1>2
    <3>3. NoAnswer(r) => NoAnswer(m)
      BY <1>2 DEF NoAnswer
    <3>4. m.kind \in SingleKinds => NoAnswer(m)
      BY <1>2, <3>3
    <3>5. m.id <= last_id /\ UNCHANGED last_id
      BY <1>2, <1>3
    <3>6. /\ fifo' \in Seq(Message) /\ Messages'
          /\ \A x : NoAnswer(x)' <=> NoAnswer(x) /\ m.id # x.id
          /\ \A kind : Cardinality(OfKind(fifo', kind)) =
                         Cardinality(OfKind(fifo, kind)) + (IF m.kind = kind THEN 1 ELSE 0)
      BY <1>2, <2>2, <3>2, <3>4, <3>5, PushKeepsMessages
    <3>7. QED
      BY <1>2, <3>1, <3>6
  <2>3. QED
    BY <1>3, <2>1, <2>2
<1>6. Room'
  <2> SUFFICES ASSUME NEW kind \in Kinded PROVE Count(kind)' <= PoolSize(kind)
    BY DEF Room
  <2>1. Cardinality(Falling(kind)') =
          Cardinality(Falling(kind))
            - (IF apc[a] = "fallback" /\ Kind(r) = kind THEN 1 ELSE 0)
            + (IF s = "fallback" /\ Kind(r) = kind THEN 1 ELSE 0)
    <3>1. UNCHANGED <<data, anode>> /\ apc' = [apc EXCEPT ![a] = s] /\ TypeOK
      BY <1>3, <1>4 DEF listVars
    <3>2. Cardinality(Falling(kind)') =
            Cardinality(Falling(kind))
              - (IF apc[a] = "fallback" /\ Kind(data[anode[a]]) = kind THEN 1 ELSE 0)
              + (IF s = "fallback" /\ Kind(data[anode[a]]) = kind THEN 1 ELSE 0)
      BY <3>1, FallingMoves
    <3>3. QED
      BY <1>2, <3>2
  <2>2. Cardinality(OfKind(fifo', kind)) =
          Cardinality(OfKind(fifo, kind)) + (IF fifo' # fifo /\ Kind(r) = kind THEN 1 ELSE 0)
    BY <1>5
  <2>3. /\ Count(kind) = Cardinality(OfKind(fifo, kind)) + Cardinality(Falling(kind))
        /\ Count(kind)' = Cardinality(OfKind(fifo', kind)) + Cardinality(Falling(kind)')
        /\ Cardinality(OfKind(fifo, kind)) \in Nat /\ Cardinality(Falling(kind)) \in Nat
    BY <1>4, <1>5, CountParts
  <2>4. /\ Count(kind) <= PoolSize(kind) /\ PoolSize(kind) \in Nat
        /\ HasRoom(kind) <=> Count(kind) < PoolSize(kind)
    BY RequestAssumption DEF TableInv, TypeOK, Kinded, PoolSize, HasRoom
  <2>5. PICK c, e, p, k1 : c = Cardinality(OfKind(fifo, kind)) /\ e = Cardinality(Falling(kind))
                       /\ p = PoolSize(kind) /\ k1 = Count(kind)'
    OBVIOUS
  <2>6. /\ c \in Nat /\ e \in Nat /\ p \in Nat /\ c + e <= p
        /\ k1 = c + (IF fifo' # fifo /\ Kind(r) = kind THEN 1 ELSE 0)
              + (e - (IF apc[a] = "fallback" /\ Kind(r) = kind THEN 1 ELSE 0)
                   + (IF s = "fallback" /\ Kind(r) = kind THEN 1 ELSE 0))
        /\ HasRoom(kind) => c + e < p
    BY <2>1, <2>2, <2>3, <2>4, <2>5
  <2>7. Kind(r) = kind => \/ fifo' = fifo /\ s # "fallback" /\ apc[a] = "push"
                          \/ fifo' = fifo /\ apc[a] = "push" /\ HasRoom(kind)
                          \/ s # "fallback" /\ apc[a] = "fallback"
                          \/ s # "fallback" /\ apc[a] = "push" /\ HasRoom(kind)
    BY <1>1, <1>3
  <2>8. k1 <= p
    BY <2>6, <2>7
  <2>9. QED
    BY <2>5, <2>8
<1>7. Known' \subseteq Known
  BY <1>3 DEF Known, listVars, clientVars, triggerVars
<1>8. Identified' /\ EntriesDiffer'
  BY <1>3, <1>7, NoneNew, Framed DEF TableInv, triggerVars
<1>9. TypeOK'
  <2>1. UNCHANGED <<data, unused, last_id, passed, received, requests, network, cpc, creq, cnode,
                    areq, anode, armed, tpc, treq, tnode, fault>>
    BY <1>3 DEF listVars, clientVars, triggerVars
  <2>2. QED
    BY <1>4, <1>5, <1>6, <2>1 DEF TypeOK, Room, Kinded, Steps, Message
<1>10. Unsent' /\ InNetwork' /\ InQueue' /\ BeingAnswered'
  <2>1. CASE fifo' = fifo
    <3>1. UNCHANGED <<cpc, creq, network, requests, areq>>
      BY <1>3 DEF clientVars
    <3>2. \A b \in Answerer :
            /\ apc'[b] # "idle" => apc[b] # "idle"
            /\ apc'[b] \in {"find", "check", "push", "fallback"} =>
                 apc[b] \in {"find", "check", "push", "fallback"}
      BY <1>1, <1>4
    <3>3. Unsent'
      BY <2>1, <3>1, <3>2 DEF TableInv, Unsent, Single, NoAnswer
    <3>4. InNetwork'
      BY <2>1, <3>1, <3>2 DEF TableInv, InNetwork, Single, NoAnswer, Answerer
    <3>5. InQueue'
      BY <2>1, <3>1, <3>2 DEF TableInv, InQueue, Single, NoAnswer, Answerer
    <3>6. BeingAnswered'
      BY <2>1, <3>1, <3>2 DEF TableInv, BeingAnswered, Single, NoAnswer
    <3>7. QED
      BY <3>3, <3>4, <3>5, <3>6
  <2>2. CASE fifo' # fifo
    <3>1. \A x \in Known \ {r} : x # NoReq /\ Single(x) /\ NoAnswer(x) => NoAnswer(x)'
      BY <1>2, <1>5, KnownApart
    <3>2. s # "fallback"
      BY <1>3, <2>2
    <3>3. ASSUME NEW b \in Answerer
          PROVE  /\ apc'[b] # "idle" => apc[b] # "idle"
                 /\ apc'[b] \in {"find", "check", "push", "fallback"} =>
                      areq[b] # r /\ apc[b] \in {"find", "check", "push", "fallback"}
      <4>1. CASE b = a
        BY <1>1, <1>4, <3>2, <4>1
      <4>2. CASE b # a
        BY <1>2, <1>4, <4>2
      <4>3. QED
        BY <4>1, <4>2
    <3>4. UNCHANGED <<cpc, creq, network, requests, areq>>
      BY <1>3 DEF clientVars
    <3>5. QED
      BY <1>2, <3>1, <3>3, <3>4, OthersUnanswered
  <2>3. QED
    BY <2>1, <2>2
<1>11. ClientAt'
  BY <1>3 DEF TableInv, ClientAt, clientVars, triggerVars
<1>12. AnswererAt'
  <2>1. /\ \A b \in Answerer \ {a} : apc'[b] = apc[b]
        /\ apc[a] \in Handling /\ apc'[a] = s /\ areq'[a] = r
        /\ data' = data /\ anode' = anode /\ areq' = areq
    BY <1>1, <1>3, <1>4 DEF Handling, listVars, r
  <2>2. s \in {"fallback", "signal"} \/ (a = "local" /\ s = "free") => r.sync
    BY <1>3
  <2>3. a = "remote" => s # "done"
    BY <1>3
  <2>4. QED
    BY <2>1, <2>2, <2>3 DEF TableInv, AnswererAt, Answerer
<1>13. QED
  BY <1>5, <1>8, <1>9, <1>10, <1>11, <1>12 DEF TableInv
-----------------------------------------------------------------------------
(* A message that is no answer to a request that gets only one keeps the   *)
(* table.                                                                  *)
LEMMA OtherMessage ==
  ASSUME TableInv, NEW m \in Message, fifo' = Append(fifo, m), m.id <= last_id,
         m.kind = "event" <=> m.id = 0, m.kind \notin SingleKinds, HasRoom(m.kind),
         \A x \in Known : x # NoReq /\ Single(x) => x.id # m.id,
         UNCHANGED <<listVars, last_id, passed, received, requests, network, clientVars,
                     answererVars, armed, treq, tnode, fault>>,
         tpc' \in {tpc, "idle"}
  PROVE  TableInv'
<1>1. UNCHANGED <<data, unused, last_id, passed, received, requests, network, cpc, creq, cnode,
                  apc, areq, anode, armed, treq, tnode, fault>>
  BY DEF listVars, clientVars, answererVars
<1>2. fifo \in Seq(Message)
  BY DEF TableInv, TypeOK, Message
<1>3. /\ fifo' \in Seq(Message) /\ Messages'
      /\ \A x : NoAnswer(x)' <=> NoAnswer(x) /\ m.id # x.id
      /\ \A kind : Cardinality(OfKind(fifo', kind)) =
                     Cardinality(OfKind(fifo, kind)) + (IF m.kind = kind THEN 1 ELSE 0)
  BY <1>1, PushKeepsMessages
<1>4. Room'
  <2> SUFFICES ASSUME NEW kind \in Kinded PROVE Count(kind)' <= PoolSize(kind)
    BY DEF Room
  <2>1. Falling(kind)' = Falling(kind)
    BY <1>1 DEF Falling
  <2>2. Cardinality(OfKind(fifo', kind)) =
          Cardinality(OfKind(fifo, kind)) + (IF m.kind = kind THEN 1 ELSE 0)
    BY <1>3
  <2>3. /\ Count(kind) = Cardinality(OfKind(fifo, kind)) + Cardinality(Falling(kind))
        /\ Count(kind)' = Cardinality(OfKind(fifo', kind)) + Cardinality(Falling(kind)')
        /\ Cardinality(OfKind(fifo, kind)) \in Nat /\ Cardinality(Falling(kind)) \in Nat
    BY <1>2, <1>3, CountParts
  <2>4. /\ Count(kind) <= PoolSize(kind) /\ PoolSize(kind) \in Nat
        /\ m.kind = kind => Count(kind) < PoolSize(kind)
    BY RequestAssumption DEF TableInv, TypeOK, Kinded, PoolSize, HasRoom
  <2>5. PICK c, e, p, k1 : /\ c = Cardinality(OfKind(fifo, kind))
                           /\ e = Cardinality(Falling(kind))
                           /\ p = PoolSize(kind) /\ k1 = Count(kind)'
    OBVIOUS
  <2>6. /\ c \in Nat /\ e \in Nat /\ p \in Nat /\ c + e <= p
        /\ k1 = c + (IF m.kind = kind THEN 1 ELSE 0) + e
        /\ m.kind = kind => c + e < p
    BY <2>1, <2>2, <2>3, <2>4, <2>5
  <2>7. k1 <= p
    BY <2>6
  <2>8. QED
    BY <2>5, <2>7
<1>5. Known' \subseteq Known
  BY <1>1 DEF Known
<1>6. Identified' /\ EntriesDiffer'
  BY <1>1, <1>5, NoneNew, Framed DEF TableInv, listVars
<1>7. TypeOK'
  BY <1>1, <1>3, <1>4 DEF TableInv, TypeOK, Room, Kinded, Message
<1>8. Unsent' /\ InNetwork' /\ InQueue' /\ BeingAnswered'
  <2>1. \A x \in Known \ {NoReq} : x # NoReq /\ Single(x) /\ NoAnswer(x) => NoAnswer(x)'
    BY <1>3
  <2>2. NoReq \notin network /\ \A i \in 1..Len(requests) : requests[i] # NoReq
    BY DEF TableInv, InNetwork, InQueue
  <2>3. cpc \in {"add_received", "send", "undo", "undo_free"} => creq # NoReq
    BY DEF TableInv, ClientAt
  <2>4. \A a \in Answerer : apc'[a] = apc[a] /\ (apc[a] # "idle" => areq[a] # NoReq)
    BY <1>1 DEF TableInv, BeingAnswered
  <2>5. \A a \in Answerer :
          /\ apc'[a] # "idle" => apc[a] # "idle"
          /\ apc'[a] \in {"find", "check", "push", "fallback"} =>
               areq[a] # NoReq /\ apc[a] \in {"find", "check", "push", "fallback"}
    BY <2>4
  <2>6. UNCHANGED <<cpc, creq, network, requests, areq>>
    BY <1>1
  <2>7. QED
    BY <2>1, <2>2, <2>3, <2>5, <2>6, OthersUnanswered
<1>9. ClientAt' /\ AnswererAt'
  BY <1>1 DEF TableInv, ClientAt, AnswererAt
<1>10. QED
  BY <1>3, <1>4, <1>6, <1>7, <1>8, <1>9 DEF TableInv

(* Such are the events, and the timeouts where dates pass.                 *)
LEMMA OthersKeepTable ==
  ASSUME TableInv, PushEvent \/ (TriggerPush /\ Expiry)
  PROVE  TableInv'
<1>1. \A x \in Known : x # NoReq => x.id \in Nat \ {0}
  <2>1. \A x \in Request : x.id \in ID
    BY DEF Request
  <2>2. \A x \in Known : x # NoReq => x \in Request
    BY KnownTypes DEF TableInv
  <2>3. \A i \in ID : i \in Nat \ {0}
    BY RequestAssumption DEF ID
  <2>4. QED
    BY <2>1, <2>2, <2>3
<1>2. last_id \in Nat
  <2>1. last_id \in 0..MaxID
    BY DEF TableInv, TypeOK
  <2>2. QED
    BY <2>1, RequestAssumption
<1>3. CASE PushEvent
  <2> DEFINE m == Msg("event", NoReq)
  <2>1. m \in Message /\ m.kind = "event" /\ m.id = 0
    BY RequestAssumption DEF Msg, NoReq, Message
  <2>2. m.kind \notin SingleKinds
    BY <2>1 DEF SingleKinds
  <2>3. /\ HasRoom(m.kind) /\ fifo' = Append(fifo, m)
        /\ UNCHANGED <<listVars, last_id, passed, received, requests, network, clientVars,
                       answererVars, armed, treq, tnode, fault>>
        /\ tpc' \in {tpc, "idle"}
    BY <1>3, <2>1 DEF PushEvent, triggerVars
  <2> HIDE DEF m
  <2>4. m.id <= last_id /\ \A x \in Known : x # NoReq /\ Single(x) => x.id # m.id
    BY <1>1, <1>2, <2>1
  <2>5. QED
    BY <2>1, <2>2, <2>3, <2>4, OtherMessage
<1>4. CASE TriggerPush /\ Expiry
  <2> DEFINE m == Msg("async", treq)
  <2>1. /\ tpc = "push" /\ tpc' = "idle"
        /\ UNCHANGED <<listVars, last_id, passed, received, requests, network, clientVars,
                       answererVars, armed, treq, tnode, fault>>
    BY <1>4 DEF TriggerPush
  <2>2. treq \in Request /\ treq # NoReq /\ treq \in Known /\ ~treq.sync /\ treq.id <= last_id
    BY <2>1 DEF TableInv, TypeOK, ClientAt, Identified, Known
  <2>3. Kind(treq) = "async" /\ m.kind = "async" /\ m.id = treq.id
    BY <2>2 DEF Kind, Msg
  <2>4. m \in Message /\ m.id # 0 /\ m.kind \notin SingleKinds
    <3>1. treq.id \in 0..MaxID
      BY <2>2, RequestAssumption DEF Request, ID
    <3>2. m \in Message
      BY <3>1 DEF Message, Msg
    <3>3. m.kind \notin SingleKinds
      BY <1>4, <2>3 DEF SingleKinds
    <3>4. m.id # 0
      BY <1>1, <2>2, <2>3
    <3>5. QED
      BY <3>2, <3>3, <3>4
  <2>5. CASE fifo' = fifo
    <3>1. Known' \subseteq Known
      BY <2>1 DEF Known, listVars, clientVars, answererVars
    <3>2. /\ Identified' /\ EntriesDiffer' /\ Messages' /\ Room'
          /\ \A x : NoAnswer(x)' <=> NoAnswer(x)
      BY <2>1, <2>5, <3>1, LocalStep DEF answererVars
    <3>3. UNCHANGED <<data, unused, last_id, passed, received, requests, network, fifo, cpc, creq,
                      cnode, apc, areq, anode, armed, treq, tnode, fault>>
      BY <2>1, <2>5 DEF listVars, clientVars, answererVars
    <3>4. TypeOK'
      BY <2>1, <3>2, <3>3 DEF TableInv, TypeOK, Room, Kinded
    <3>5. Unsent' /\ InNetwork' /\ InQueue' /\ BeingAnswered' /\ ClientAt' /\ AnswererAt'
      BY <2>1, <3>2, <3>3 DEF TableInv, Unsent, InNetwork, InQueue, BeingAnswered, ClientAt,
                              AnswererAt, Single
    <3>6. QED
      BY <3>2, <3>4, <3>5 DEF TableInv
  <2>6. CASE HasRoom("async") /\ fifo' = Append(fifo, m)
    <3>1. \A x \in Known : x # NoReq /\ Single(x) => x.id # m.id
      BY <1>4, <2>2, <2>3, KnownApart DEF Single
    <3> HIDE DEF m
    <3>2. QED
      BY <2>1, <2>2, <2>3, <2>4, <2>6, <3>1, OtherMessage
  <2>7. QED
    BY <1>4, <2>3, <2>5, <2>6 DEF TriggerPush
<1>5. QED
  BY <1>3, <1>4
-----------------------------------------------------------------------------
(* Nothing is sent, queued or in use at first.                             *)
LEMMA InitTable ==
  ASSUME Init
  PROVE  TableInv /\ \A n \in Node : ~InUse(n)
<1>1. /\ unused \in Seq(Node) /\ Distinct(unused) /\ Len(unused) = Cardinality(Node)
      /\ \A n \in Node : ~NotIn(unused, n)
  <2>1. /\ unused \in [1..Cardinality(Node) -> Node]
        /\ \A i, j \in DOMAIN unused : unused[i] = unused[j] => i = j
    BY DEF Init
  <2>2. QED
    BY <2>1, AllUnused
<1>2. \A n \in Node : ~InUse(n)
  BY <1>1 DEF InUse, NotIn
<1>3. Cardinality(Node) \in Nat /\ MaxID \in Nat /\ MaxConcurrent \in Nat
  BY RequestAssumption, FS_CardinalityType
<1>4. IsFiniteSet({}) /\ Cardinality({}) = 0
  BY FS_EmptySet
<1>5. /\ last_id = 0 /\ passed = {} /\ received = {} /\ requests = <<>> /\ network = {}
      /\ fifo = <<>> /\ cpc = "idle" /\ creq = NoReq /\ cnode = NoNode /\ armed = {}
      /\ tpc = "idle" /\ treq = NoReq /\ tnode = NoNode /\ fault = "none"
      /\ Len(fifo) = 0 /\ Len(requests) = 0
      /\ \A a \in Answerer : apc[a] = "idle" /\ areq[a] = NoReq /\ anode[a] = NoNode
      /\ \A n \in Node : data[n] = NoReq
  BY DEF Init
<1>6. Known \subseteq {NoReq} /\ NoReq.id = 0 /\ ~NoReq.sync
  BY <1>5 DEF Known, NoReq
<1>7. Identified
  BY <1>5, <1>6 DEF Identified
<1>8. EntriesDiffer
  <2>1. {n \in Node : InUse(n) /\ ~data[n].sync} = {}
    BY <1>2
  <2>2. Outstanding <= MaxConcurrent
    BY <1>3, <1>4, <2>1 DEF Outstanding
  <2>3. QED
    BY <1>1, <1>2, <1>5, <2>2 DEF EntriesDiffer, Distinct
<1>9. \A kind \in Kinded : Count(kind) <= PoolSize(kind)
  <2> SUFFICES ASSUME NEW kind \in Kinded PROVE Count(kind) <= PoolSize(kind)
    OBVIOUS
  <2>1. {i \in 1..Len(fifo) : fifo[i].kind = kind} = {}
    BY <1>5
  <2>2. {a \in Answerer : apc[a] = "fallback" /\ Kind(data[anode[a]]) = kind} = {}
    BY <1>5
  <2>3. PoolSize(kind) \in Nat
    BY RequestAssumption DEF PoolSize
  <2>4. Count(kind) = 0 + 0
    BY <1>4, <2>1, <2>2 DEF Count
  <2>5. QED
    BY <2>3, <2>4
<1>10. TypeOK
  <2>1. /\ data \in [Node -> Request \cup {NoReq}]
        /\ apc \in [Answerer -> {"idle", "find", "check", "push", "fallback", "free",
                                 "signal", "done"}]
        /\ areq \in [Answerer -> Request \cup {NoReq}]
        /\ anode \in [Answerer -> Node \cup {NoNode}]
    BY DEF Init
  <2>2. fault \in {"none", "assertion ret == 0", "removed twice"}
    BY <1>5, Zenon
  <2>3. Len(requests) <= RequestPool
    BY <1>5, RequestAssumption
  <2>4. last_id \in 0..MaxID
    BY <1>3, <1>5
  <2>5. unused \in Seq(Node) /\ Len(unused) <= Cardinality(Node)
    BY <1>1, <1>3
  <2>6. QED
    BY <1>5, <1>9, <2>1, <2>2, <2>3, <2>4, <2>5 DEF TypeOK, Kinded
<1>11. Unsent /\ InNetwork /\ InQueue /\ BeingAnswered /\ Messages
  BY <1>5 DEF Unsent, InNetwork, InQueue, BeingAnswered, Messages, Once
<1>12. ClientAt /\ AnswererAt
  BY <1>5 DEF ClientAt, AnswererAt, Handling, Answerer
<1>13. QED
  BY <1>2, <1>7, <1>8, <1>10, <1>11, <1>12 DEF TableInv

(* A step keeps the table, when time stands still or the trigger may fire, *)
(* and no thread is using the node that a new request takes.               *)
LEMMA NextTable ==
  ASSUME TableInv, Next, Expiry \/ tpc # "push",
         Scheduled /\ cpc = "idle" /\ unused # <<>> =>
           \A a \in Answerer : apc[a] \in Handling => anode[a] # Taken
  PROVE  TableInv'
<1>1. CASE Scheduled /\ Run
  BY <1>1, ClientKeepsTable, SendKeepsTable, FreeKeepsTable DEF Run
<1>2. CASE Serve
  BY <1>2, ServeKeepsTable
<1>3. CASE Scheduled /\ \E k \in Kinds : AddSent(k)
  BY <1>3, AddKeepsTable DEF AddSent
<1>4. ASSUME NEW a \in Answerer, AnswerStep(a)
      PROVE  TableInv'
  BY <1>4, AnswererKeepsTable, PushKeepsTable, FreeKeepsTable DEF AnswerStep, PushFallback
<1>5. CASE Local
  <2>1. "local" \in Answerer
    BY DEF Answerer
  <2>2. QED
    BY <1>4, <1>5, <2>1, TakeKeepsTable, AnswererKeepsTable DEF Local
<1>6. CASE Router
  <2>1. "remote" \in Answerer
    BY DEF Answerer
  <2>2. QED
    BY <1>4, <1>6, <2>1, TakeKeepsTable DEF Router
<1>7. CASE Trigger
  BY <1>7, TimeKeepsTable, FreeKeepsTable, OthersKeepTable DEF Trigger, TriggerPush
<1>8. CASE TimeUp
  BY <1>8, ClientKeepsTable
<1>9. CASE Pass \/ PushEvent
  BY <1>9, TimeKeepsTable, OthersKeepTable
<1>10. QED
  BY <1>1, <1>2, <1>3, <1>5, <1>6, <1>7, <1>8, <1>9 DEF Next

(* So does a step that does nothing.                                       *)
LEMMA StutterTable ==
  ASSUME TableInv, UNCHANGED vars
  PROVE  TableInv'
<1>1. UNCHANGED <<data, unused, last_id, passed, received, requests, network, fifo, cpc, creq,
                  cnode, apc, areq, anode, armed, tpc, treq, tnode, fault>>
  BY DEF vars, listVars, queueVars, clientVars, answererVars, triggerVars
<1>2. Known' \subseteq Known
  BY <1>1 DEF Known
<1>3. /\ Identified' /\ EntriesDiffer' /\ Messages' /\ Room'
      /\ \A x : NoAnswer(x)' <=> NoAnswer(x)
  BY <1>1, <1>2, LocalStep DEF listVars
<1>4. TypeOK'
  BY <1>1, <1>3 DEF TableInv, TypeOK, Room, Kinded
<1>5. Unsent' /\ InNetwork' /\ InQueue' /\ BeingAnswered' /\ ClientAt' /\ AnswererAt'
  BY <1>1, <1>3 DEF TableInv, Unsent, InNetwork, InQueue, BeingAnswered, ClientAt, AnswererAt,
                   Single
<1>6. QED
  BY <1>3, <1>4, <1>5 DEF TableInv
-----------------------------------------------------------------------------
(* What is left of InTimeInv.                                              *)
Held ==
  /\ fault = "none" /\ passed = {} /\ tpc = "idle"
  /\ EntryOfClient /\ EntryOfAnswerer /\ OneWait /\ EntriesHeld
  /\ MessagesHaveEntries /\ KindsMatch

(* A step that leaves the table and the client's FIFO alone keeps what is  *)
(* said of them.                                                           *)
LEMMA SameTable ==
  ASSUME UNCHANGED <<listVars, fifo>>
  PROVE  /\ \A n : InUse(n)' <=> InUse(n)
         /\ \A r : HasEntry(r)' <=> HasEntry(r)
         /\ \A r : NoAnswer(r)' <=> NoAnswer(r)
         /\ MessagesHaveEntries => MessagesHaveEntries'
         /\ Known' \subseteq Known /\ KindsMatch => KindsMatch'
<1>1. data' = data /\ unused' = unused /\ fifo' = fifo
  BY DEF listVars
<1>2. \A n : InUse(n)' <=> InUse(n)
  BY <1>1 DEF InUse
<1>3. \A r : HasEntry(r)' <=> HasEntry(r)
  BY <1>1, <1>2 DEF HasEntry
<1>4. \A r : NoAnswer(r)' <=> NoAnswer(r)
  BY <1>1 DEF NoAnswer
<1>5. MessagesHaveEntries => MessagesHaveEntries'
  BY <1>1, <1>2 DEF MessagesHaveEntries
<1>6. Known' \subseteq Known /\ KindsMatch => KindsMatch'
  BY <1>1 DEF KindsMatch
<1>7. QED
  BY <1>2, <1>3, <1>4, <1>5, <1>6

(* The client's steps between the taking of an entry and its freeing.      *)
LEMMA ClientHolds ==
  ASSUME InTime, InTimeInv, AddReceived \/ Undo \/ Wait \/ TimeUp \/ TimedOut \/ ReturnOK
  PROVE  Held'
<1>1. /\ UNCHANGED <<listVars, last_id, passed, requests, network, fifo, creq, answererVars,
                     triggerVars, fault>>
      /\ \/ cpc = "add_received" /\ cpc' = "send" /\ cnode' = cnode
         \/ cpc = "undo" /\ cpc' = "undo_free" /\ cnode' = Found(creq)
         \/ cpc = "wait" /\ cpc' = "waiting" /\ cnode' = cnode
         \/ cpc = "woken" /\ cpc' = "idle" /\ cnode' = cnode
  <2>1. ~TimeUp /\ ~TimedOut
    BY DEF InTimeInv, EntryOfClient, TimeUp, TimedOut
  <2>2. QED
    BY <2>1 DEF InTime, AddReceived, Undo, Wait, ReturnOK, Client, queueVars
<1>2. UNCHANGED <<data, unused, passed, requests, network, fifo, creq, apc, areq, anode, armed,
                  tpc, treq, fault>>
  BY <1>1 DEF listVars, answererVars, triggerVars
<1>3. Known' \subseteq Known
  BY <1>2 DEF Known
<1>4. /\ \A n : InUse(n)' <=> InUse(n)
      /\ \A r : HasEntry(r)' <=> HasEntry(r)
      /\ \A r : NoAnswer(r)' <=> NoAnswer(r)
      /\ MessagesHaveEntries' /\ KindsMatch'
  BY <1>1, <1>3, SameTable DEF InTimeInv
<1>5. EntryOfClient'
  <2>1. cpc = "undo" =>
          Found(creq) \in Node /\ InUse(Found(creq)) /\ data[Found(creq)] = creq
    <3> SUFFICES ASSUME cpc = "undo"
                 PROVE  Found(creq) \in Node /\ InUse(Found(creq)) /\ data[Found(creq)] = creq
      OBVIOUS
    <3>1. PICK n \in Node : InUse(n) /\ data[n] = creq
      BY DEF InTimeInv, EntryOfClient, HasEntry
    <3>2. Found(creq) \in Find(creq)
      BY <3>1 DEF Found, Find
    <3>3. Found(creq) \in Node /\ InUse(Found(creq)) /\ data[Found(creq)].id = creq.id
      BY <3>2 DEF Find
    <3>4. data[Found(creq)] \in Known /\ creq \in Known
      BY <3>3 DEF Known
    <3>5. QED
      BY <3>3, <3>4 DEF InTimeInv, TableInv, Identified
  <2>2. cpc' = "undo_free" => cnode' \in Node /\ InUse(cnode)' /\ data'[cnode'] = creq'
    BY <1>1, <1>2, <2>1 DEF InUse
  <2>3. cpc' = "send" => HasEntry(creq)'
    BY <1>1, <1>2, <1>4 DEF InTimeInv, EntryOfClient, HasEntry
  <2>4. QED
    BY <1>1, <2>2, <2>3 DEF EntryOfClient
<1>6. EntryOfAnswerer'
  BY <1>2, <1>4 DEF InTimeInv, EntryOfAnswerer, HasEntry, InUse
<1>7. OneWait'
  BY <1>1, <1>2 DEF InTimeInv, OneWait, WaitsFor, ToSignal
<1>8. EntriesHeld'
  BY <1>1, <1>2, <1>4 DEF InTimeInv, EntriesHeld, NoAnswer
<1>9. QED
  BY <1>2, <1>4, <1>5, <1>6, <1>7, <1>8 DEF InTimeInv, Held

(* Sending: the entry is that of a request in the network or the server's  *)
(* queue, or still the client's.                                           *)
LEMMA SendHolds ==
  ASSUME InTimeInv, Send
  PROVE  Held'
<1>1. UNCHANGED <<listVars, last_id, passed, fifo, creq, cnode, answererVars, triggerVars, fault>>
      /\ cpc = "send"
  BY DEF Send
<1>2. UNCHANGED <<data, unused, passed, fifo, creq, cnode, apc, areq, anode, armed, tpc, treq,
                  fault>>
  BY <1>1 DEF listVars, answererVars, triggerVars
<1>3. requests \in Seq(Request)
  BY DEF InTimeInv, TableInv, TypeOK
<1>4. \/ /\ network' = network \cup {creq} /\ requests' = requests
         /\ cpc' = IF creq.sync THEN "wait" ELSE "idle"
      \/ /\ network' = network /\ requests' = Append(requests, creq)
         /\ cpc' = IF creq.sync THEN "wait" ELSE "idle"
      \/ network' = network /\ requests' = requests /\ cpc' = "undo"
  BY DEF Send, Client
<1>5. /\ \A i \in 1..Len(requests) : i \in 1..Len(requests') /\ requests'[i] = requests[i]
      /\ \A i \in 1..Len(requests') :
           requests'[i] = creq \/ \E j \in 1..Len(requests) : requests'[i] = requests[j]
      /\ network \subseteq network' /\ network' \subseteq network \cup {creq}
      /\ \/ creq \in network'
         \/ \E i \in 1..Len(requests') : requests'[i] = creq
         \/ network' = network /\ requests' = requests /\ cpc' = "undo"
      /\ cpc' = IF cpc' = "undo" THEN "undo" ELSE IF creq.sync THEN "wait" ELSE "idle"
  <2>1. CASE requests' = requests
    BY <1>4, <2>1, <1>3
  <2>2. CASE requests' = Append(requests, creq)
    <3>1. creq \in Request
      BY <1>1 DEF InTimeInv, TableInv, TypeOK, ClientAt
    <3>2. /\ Len(requests) \in Nat /\ Len(requests') = Len(requests) + 1
          /\ requests'[Len(requests) + 1] = creq
          /\ \A i \in 1..Len(requests) : requests'[i] = requests[i]
      BY <1>3, <2>2, <3>1
    <3>3. \E i \in 1..Len(requests') : requests'[i] = creq
      BY <3>2
    <3>4. network' = network \/ network' = network \cup {creq}
      BY <1>4
    <3>5. /\ \A i \in 1..Len(requests) : i \in 1..Len(requests') /\ requests'[i] = requests[i]
          /\ \A i \in 1..Len(requests') :
               requests'[i] = creq \/ \E j \in 1..Len(requests) : requests'[i] = requests[j]
      BY <3>2
    <3>6. QED
      BY <1>4, <3>3, <3>4, <3>5
  <2>3. QED
    BY <1>4, <2>1, <2>2
<1>6. Known' \subseteq Known
  BY <1>2, <1>5 DEF Known
<1>7. /\ \A n : InUse(n)' <=> InUse(n)
      /\ \A r : HasEntry(r)' <=> HasEntry(r)
      /\ \A r : NoAnswer(r)' <=> NoAnswer(r)
      /\ MessagesHaveEntries' /\ KindsMatch'
  BY <1>1, <1>6, SameTable DEF InTimeInv
<1>8. HasEntry(creq) /\ HasEntry(creq)'
  BY <1>1, <1>2, <1>7 DEF InTimeInv, EntryOfClient, HasEntry
<1>9. EntryOfClient'
  BY <1>5, <1>8 DEF EntryOfClient
<1>10. EntryOfAnswerer'
  <2>1. \A r \in network' : HasEntry(r)'
    BY <1>2, <1>5, <1>7, <1>8 DEF InTimeInv, EntryOfAnswerer, HasEntry
  <2>2. \A i \in 1..Len(requests') : HasEntry(requests[i])'
    BY <1>2, <1>5, <1>7, <1>8 DEF InTimeInv, EntryOfAnswerer, HasEntry
  <2>3. QED
    BY <1>2, <1>7, <2>1, <2>2 DEF InTimeInv, EntryOfAnswerer, HasEntry, InUse
<1>11. OneWait'
  <2>1. /\ \A r \in network : ~r.sync
        /\ \A i \in 1..Len(requests) : ~requests[i].sync
        /\ \A a \in Answerer : ~(ToSignal(a) /\ areq[a].sync)
    BY <1>1 DEF InTimeInv, OneWait, WaitsFor
  <2>2. network' # network \/ requests' # requests => cpc' = IF creq.sync THEN "wait" ELSE "idle"
    BY <1>4
  <2>3. /\ \A r \in network' : r.sync => r = creq /\ network' # network
        /\ \A i \in 1..Len(requests') : requests'[i].sync =>
             requests'[i] = creq /\ requests' # requests
    BY <1>5, <2>1
  <2>4. \A a \in Answerer : ~(ToSignal(a)' /\ areq'[a].sync)
    BY <1>2, <2>1 DEF ToSignal
  <2>5. QED
    BY <1>2, <2>2, <2>3, <2>4 DEF OneWait, WaitsFor
<1>12. EntriesHeld'
  <2> SUFFICES ASSUME NEW n \in Node, InUse(n)
               PROVE  (LET r == data[n] IN
                       \/ r = creq /\ cpc \in {"add_received", "send", "undo", "undo_free"}
                       \/ r \in network
                       \/ \E i \in 1..Len(requests) : requests[i] = r
                       \/ \E a \in Answerer : areq[a] = r /\ apc[a] \notin {"idle", "done"}
                       \/ ~r.sync /\ ~NoAnswer(r))'
    BY <1>7 DEF EntriesHeld
  <2>1. CASE data[n] = creq
    BY <1>2, <1>5, <2>1
  <2>2. CASE data[n] # creq
    <3>1. \/ data[n] \in network
          \/ \E i \in 1..Len(requests) : requests[i] = data[n]
          \/ \E a \in Answerer : areq[a] = data[n] /\ apc[a] \notin {"idle", "done"}
          \/ ~data[n].sync /\ ~NoAnswer(data[n])
      BY <2>2 DEF InTimeInv, EntriesHeld
    <3>2. (\E i \in 1..Len(requests) : requests[i] = data[n]) =>
            \E i \in 1..Len(requests') : requests'[i] = data[n]
      BY <1>5
    <3>3. QED
      BY <1>2, <1>5, <1>7, <3>1, <3>2 DEF NoAnswer
  <2>3. QED
    BY <2>1, <2>2
<1>13. QED
  BY <1>2, <1>7, <1>9, <1>10, <1>11, <1>12 DEF InTimeInv, Held
-----------------------------------------------------------------------------
(* The entry that is freed is that of one request only.                    *)
LEMMA OneLeaves ==
  ASSUME InTimeInv, NEW n \in Node, InUse(n), unused' = Append(unused, n), UNCHANGED data
  PROVE  /\ \A x \in Node : InUse(x)' <=> InUse(x) /\ x # n
         /\ \A x : HasEntry(x) /\ x # data[n] => HasEntry(x)'
         /\ \A x \in Node \ {n} : InUse(x) => data[x] # data[n]
<1>1. EntriesDiffer /\ unused \in Seq(Node)
  BY DEF InTimeInv, TableInv, TypeOK
<1>2. \A x \in Node : InUse(x)' <=> InUse(x) /\ x # n
  BY <1>1, OneFreed
<1>3. \A x : HasEntry(x) /\ x # data[n] => HasEntry(x)'
  BY <1>2 DEF HasEntry
<1>4. \A x \in Node \ {n} : InUse(x) => data[x] # data[n]
  BY <1>1 DEF EntriesDiffer
<1>5. QED
  BY <1>2, <1>3, <1>4

(* Freeing an entry in use is no misuse of the list.                       *)
LEMMA FreeInUse ==
  ASSUME NEW n \in Node, InUse(n), FreeSent(n)
  PROVE  unused' = Append(unused, n) /\ UNCHANGED <<data, fault>>
BY RequestAssumption DEF FreeSent, ListEmpty

(* The client frees the entry of a request that it could not send.         *)
LEMMA ClientFreeHolds ==
  ASSUME InTime, InTimeInv, ClientFree
  PROVE  Held'
<1>1. /\ cpc = "undo_free" /\ cpc' = "idle" /\ FreeSent(cnode)
      /\ UNCHANGED <<last_id, passed, queueVars, creq, cnode, answererVars, triggerVars>>
  BY DEF InTimeInv, EntryOfClient, ClientFree, Client
<1>2. cnode \in Node /\ InUse(cnode) /\ data[cnode] = creq
  BY <1>1 DEF InTimeInv, EntryOfClient
<1>3. unused' = Append(unused, cnode) /\ UNCHANGED <<data, fault>>
  BY <1>1, <1>2, FreeInUse
<1>4. /\ \A x \in Node : InUse(x)' <=> InUse(x) /\ x # cnode
      /\ \A x : HasEntry(x) /\ x # creq => HasEntry(x)'
      /\ \A x \in Node \ {cnode} : InUse(x) => data[x] # creq
  BY <1>2, <1>3, OneLeaves
<1>5. UNCHANGED <<data, passed, requests, network, fifo, creq, cnode, apc, areq, anode, armed,
                  tpc, treq, fault>>
  BY <1>1, <1>3 DEF queueVars, answererVars, triggerVars
<1>6. /\ NoAnswer(creq) /\ creq \notin network /\ \A i \in 1..Len(requests) : requests[i] # creq
      /\ \A a \in Answerer : apc[a] # "idle" => areq[a] # creq
  <2>1. Single(creq)
    BY DEF InTime, Single
  <2>2. Single(creq) => NoAnswer(creq)
    BY <1>1 DEF InTimeInv, TableInv, Unsent
  <2>3. QED
    BY <1>1, <2>1, <2>2 DEF InTimeInv, TableInv, Unsent
<1>7. EntryOfClient'
  BY <1>1 DEF EntryOfClient
<1>8. EntryOfAnswerer'
  <2>1. \A r \in network' : HasEntry(r)'
    BY <1>4, <1>5, <1>6 DEF InTimeInv, EntryOfAnswerer
  <2>2. \A i \in 1..Len(requests') : HasEntry(requests[i])'
    BY <1>4, <1>5, <1>6 DEF InTimeInv, EntryOfAnswerer, HasEntry
  <2>3. \A a \in Answerer : apc[a] \in Handling => anode[a] \in Node /\ anode[a] # cnode
    BY <1>2, <1>6 DEF InTimeInv, TableInv, AnswererAt, Handling
  <2>4. \A a \in Answerer : apc'[a] \in Handling =>
          (InUse(anode[a])' <=> ~(a = "local" /\ apc[a] = "signal"))
    <3>1. ASSUME NEW a \in Answerer, apc[a] \in Handling
          PROVE  InUse(anode[a])' <=> ~(a = "local" /\ apc[a] = "signal")
      <4>1. InUse(anode[a])' <=> InUse(anode[a])
        BY <1>4, <1>5, <2>3, <3>1 DEF InUse
      <4>2. QED
        BY <3>1, <4>1 DEF InTimeInv, EntryOfAnswerer
    <3>2. QED
      BY <1>5, <3>1
  <2>5. \A a \in Answerer : apc'[a] = "find" => HasEntry(areq[a])'
    BY <1>4, <1>5, <1>6 DEF InTimeInv, EntryOfAnswerer, HasEntry
  <2>6. QED
    BY <1>5, <2>1, <2>2, <2>4, <2>5 DEF InTimeInv, EntryOfAnswerer
<1>9. OneWait'
  BY <1>1, <1>5 DEF InTimeInv, OneWait, WaitsFor, ToSignal
<1>10. EntriesHeld'
  BY <1>4, <1>5 DEF InTimeInv, EntriesHeld, NoAnswer
<1>11. MessagesHaveEntries'
  BY <1>2, <1>4, <1>5, <1>6 DEF InTimeInv, MessagesHaveEntries, NoAnswer
<1>12. KindsMatch'
  <2>1. Known' \subseteq Known
    BY <1>5 DEF Known
  <2>2. QED
    BY <1>5, <2>1 DEF InTimeInv, KindsMatch
<1>13. QED
  BY <1>5, <1>7, <1>8, <1>9, <1>10, <1>11, <1>12 DEF InTimeInv, Held

(* A thread frees the entry of the synchronous request it has answered.    *)
LEMMA AnswererFreeHolds ==
  ASSUME InTimeInv, NEW a \in Answerer, AnswererFree(a)
  PROVE  Held'
<1>1. /\ apc[a] = "free" /\ apc' = [apc EXCEPT ![a] = AfterFree(a)] /\ FreeSent(anode[a])
      /\ UNCHANGED <<last_id, passed, queueVars, clientVars, areq, anode, triggerVars>>
  BY DEF AnswererFree, Answer
<1>2. /\ anode[a] \in Node /\ InUse(anode[a]) /\ data[anode[a]] = areq[a] /\ areq[a].sync
      /\ areq[a].server = a /\ areq[a] # NoReq
  <2>1. a = "local" \/ a = "remote"
    BY DEF Answerer
  <2>2. QED
    BY <1>1, <2>1
      DEF InTimeInv, TableInv, AnswererAt, BeingAnswered, EntryOfAnswerer, Handling
<1>3. unused' = Append(unused, anode[a]) /\ UNCHANGED <<data, fault>>
  BY <1>1, <1>2, FreeInUse
<1>4. /\ \A x \in Node : InUse(x)' <=> InUse(x) /\ x # anode[a]
      /\ \A x : HasEntry(x) /\ x # areq[a] => HasEntry(x)'
      /\ \A x \in Node \ {anode[a]} : InUse(x) => data[x] # areq[a]
  BY <1>2, <1>3, OneLeaves
<1>5. UNCHANGED <<data, passed, requests, network, fifo, cpc, creq, cnode, areq, anode, armed,
                  tpc, treq, fault>>
  BY <1>1, <1>3 DEF queueVars, clientVars, triggerVars
<1>6. /\ apc'[a] = IF a = "local" THEN "signal" ELSE "idle"
      /\ \A b \in Answerer \ {a} : apc'[b] = apc[b]
  BY <1>1 DEF InTimeInv, TableInv, TypeOK, AfterFree
<1>7. /\ areq[a] \notin network /\ \A i \in 1..Len(requests) : requests[i] # areq[a]
      /\ \A b \in Answerer \ {a} : apc[b] # "idle" => areq[b] # areq[a]
      /\ cpc \in {"add_received", "send", "undo", "undo_free"} => creq # areq[a]
  <2>1. \A b \in Answerer : apc[b] # "idle" => areq[b].server = b
    BY DEF InTimeInv, TableInv, BeingAnswered
  <2>2. areq[a] \notin network /\ \A i \in 1..Len(requests) : requests[i] # areq[a]
    BY <1>1, <1>2 DEF InTimeInv, TableInv, InNetwork, InQueue, Answerer
  <2>3. QED
    BY <1>1, <1>2, <2>1, <2>2 DEF InTimeInv, TableInv, Unsent
<1>8. EntryOfClient'
  <2>1. cpc = "undo_free" => cnode # anode[a]
    BY <1>2, <1>7 DEF InTimeInv, EntryOfClient
  <2>2. cpc = "undo_free" => InUse(cnode)'
    BY <1>4, <1>5, <2>1 DEF InTimeInv, EntryOfClient, InUse
  <2>3. cpc \in {"add_received", "send", "undo"} => HasEntry(creq)'
    BY <1>4, <1>5, <1>7 DEF InTimeInv, EntryOfClient, HasEntry
  <2>4. QED
    BY <1>5, <2>2, <2>3 DEF InTimeInv, EntryOfClient, HasEntry, InUse
<1>9. EntryOfAnswerer'
  <2>1. \A r \in network' : HasEntry(r)'
    BY <1>4, <1>5, <1>7 DEF InTimeInv, EntryOfAnswerer
  <2>2. \A i \in 1..Len(requests') : HasEntry(requests[i])'
    BY <1>4, <1>5, <1>7 DEF InTimeInv, EntryOfAnswerer, HasEntry
  <2>3. ASSUME NEW b \in Answerer, apc'[b] \in Handling
        PROVE  InUse(anode[b])' <=> ~(b = "local" /\ apc'[b] = "signal")
    <3>1. CASE b = a
      <4>1. a = "local" /\ apc'[b] = "signal"
        BY <1>6, <2>3, <3>1 DEF Handling
      <4>2. ~InUse(anode[a])'
        BY <1>2, <1>4, <1>5 DEF InUse
      <4>3. QED
        BY <3>1, <4>1, <4>2
    <3>2. CASE b # a
      <4>1. apc[b] \in Handling /\ apc'[b] = apc[b]
        BY <1>6, <2>3, <3>2
      <4>2. anode[b] \in Node /\ data[anode[b]] = areq[b] /\ areq[b] # areq[a]
        BY <1>7, <3>2, <4>1 DEF InTimeInv, TableInv, AnswererAt, Handling
      <4>3. InUse(anode[b])' <=> InUse(anode[b])
        BY <1>2, <1>4, <1>5, <4>2 DEF InUse
      <4>4. QED
        BY <4>1, <4>3 DEF InTimeInv, EntryOfAnswerer
    <3>3. QED
      BY <3>1, <3>2
  <2>4. \A b \in Answerer : apc'[b] = "find" => HasEntry(areq[b])'
    BY <1>4, <1>5, <1>6, <1>7 DEF InTimeInv, EntryOfAnswerer, HasEntry
  <2>5. apc'["remote"] = "free" => areq'["remote"].sync
    BY <1>5, <1>6 DEF InTimeInv, EntryOfAnswerer, Answerer
  <2>6. QED
    BY <1>5, <2>1, <2>2, <2>3, <2>4, <2>5 DEF EntryOfAnswerer
<1>10. OneWait'
  <2>1. \A b \in Answerer : ToSignal(b)' => ToSignal(b)
    BY <1>1, <1>6 DEF ToSignal
  <2>2. QED
    BY <1>5, <2>1 DEF InTimeInv, OneWait, WaitsFor, ToSignal
<1>11. EntriesHeld'
  <2>1. ASSUME NEW n \in Node, InUse(n)'
        PROVE  InUse(n) /\ data[n] # areq[a]
    BY <1>4, <2>1
  <2>2. \A b \in Answerer \ {a} : apc'[b] = apc[b]
    BY <1>6
  <2>3. QED
    BY <1>5, <2>1, <2>2 DEF InTimeInv, EntriesHeld, NoAnswer
<1>12. MessagesHaveEntries'
  BY <1>2, <1>4, <1>5 DEF InTimeInv, MessagesHaveEntries
<1>13. KindsMatch'
  <2>1. Known' \subseteq Known
    BY <1>5 DEF Known
  <2>2. QED
    BY <1>5, <2>1 DEF InTimeInv, KindsMatch
<1>14. QED
  BY <1>5, <1>8, <1>9, <1>10, <1>11, <1>12, <1>13 DEF InTimeInv, Held
-----------------------------------------------------------------------------
(* A thread at work on an answer has its node in use when no synchronous   *)
(* request is waiting.                                                     *)
LEMMA NodesAtWork ==
  ASSUME InTimeInv, cpc = "idle", NEW a \in Answerer, apc[a] \in Handling
  PROVE  anode[a] \in Node /\ InUse(anode[a])
<1>1. anode[a] \in Node /\ (InUse(anode[a]) <=> ~(a = "local" /\ apc[a] = "signal"))
  BY DEF InTimeInv, EntryOfAnswerer, TableInv, AnswererAt
<1>2. apc[a] # "signal"
  BY DEF InTimeInv, TableInv, AnswererAt, OneWait, ToSignal, WaitsFor
<1>3. QED
  BY <1>1, <1>2

(* The table has an unused node when the client asks.                      *)
LEMMA TableHasRoom ==
  ASSUME InTime, InTimeInv, cpc = "idle"
  PROVE  unused # <<>>
<1> SUFFICES ASSUME unused = <<>> PROVE FALSE
  OBVIOUS
<1>1. \A n \in Node : InUse(n)
  BY DEF InUse
<1>2. \A n \in Node : data[n].sync => data[n] = areq["remote"]
  <2> SUFFICES ASSUME NEW n \in Node, data[n].sync PROVE data[n] = areq["remote"]
    OBVIOUS
  <2>1. /\ \A r \in network : ~r.sync
        /\ \A i \in 1..Len(requests) : ~requests[i].sync
        /\ \A a \in Answerer : ~(ToSignal(a) /\ areq[a].sync)
    BY DEF InTimeInv, OneWait, WaitsFor
  <2>2. \E a \in Answerer : areq[a] = data[n] /\ apc[a] \notin {"idle", "done"}
    BY <1>1, <2>1 DEF InTimeInv, EntriesHeld
  <2>3. PICK a \in Answerer : areq[a] = data[n] /\ apc[a] \notin {"idle", "done"}
    BY <2>2
  <2>4. a # "local"
    <3>1. apc[a] \in Steps
      BY DEF InTimeInv, TableInv, TypeOK, Steps
    <3>2. QED
      BY <2>1, <2>3, <3>1 DEF ToSignal, Steps
  <2>5. QED
    BY <2>3, <2>4 DEF Answerer
<1>3. \E m \in Node : Node \subseteq Async \cup {m}
  <2>1. CASE \E m \in Node : data[m].sync
    <3>1. PICK m \in Node : data[m].sync
      BY <2>1
    <3>2. ASSUME NEW n \in Node, n \notin Async PROVE n = m
      <4>1. data[n].sync
        BY <1>1, <3>2 DEF Async
      <4>2. data[n] = data[m] /\ data[n] # NoReq
        BY <1>1, <1>2, <3>1, <4>1 DEF InTimeInv, TableInv, EntriesDiffer
      <4>3. QED
        BY <4>2 DEF InTimeInv, TableInv, EntriesDiffer
    <3>3. QED
      BY <3>2
  <2>2. CASE \A m \in Node : ~data[m].sync
    BY <1>1, <2>2, RequestAssumption DEF Async
  <2>3. QED
    BY <2>1, <2>2
<1>4. PICK m \in Node : Node \subseteq Async \cup {m}
  BY <1>3
<1>5. IsFiniteSet(Async) /\ Outstanding = Cardinality(Async) /\ Outstanding \in Nat
  BY OutstandingFinite
<1>6. IsFiniteSet(Async \cup {m}) /\ Cardinality(Async \cup {m}) <= Outstanding + 1
      /\ Cardinality(Async \cup {m}) \in Nat
  <2>1. IsFiniteSet(Async \cup {m})
        /\ Cardinality(Async \cup {m}) = IF m \in Async THEN Outstanding ELSE Outstanding + 1
    BY <1>5, FS_AddElement
  <2>2. QED
    BY <1>5, <2>1
<1>7. Cardinality(Node) <= Cardinality(Async \cup {m}) /\ Cardinality(Node) \in Nat
  BY <1>4, <1>6, RequestAssumption, FS_Subset, FS_CardinalityType
<1>8. Outstanding <= MaxConcurrent /\ MaxConcurrent + 2 <= Cardinality(Node)
      /\ MaxConcurrent \in Nat
  BY RequestAssumption DEF InTimeInv, TableInv, EntriesDiffer, InTime
<1>9. QED
  BY <1>5, <1>6, <1>7, <1>8

(* Adding a request: its entry is the client's.                            *)
LEMMA AddHolds ==
  ASSUME InTime, InTimeInv, NEW k \in Kinds, AddSent(k)
  PROVE  Held'
<1> DEFINE r == Asked(k)
           n == Taken
<1>1. unused # <<>>
  BY TableHasRoom DEF AddSent
<1>2. /\ cpc = "idle" /\ creq' = r /\ cpc' \in {"add_received", "send"}
      /\ UNCHANGED <<fault, passed, queueVars, cnode, answererVars, tpc, treq, tnode>>
      /\ r # NoReq /\ r.id = last_id + 1 /\ last_id \in 0..MaxID
      /\ n \in Node /\ ~InUse(n) /\ \A x : InUse(x)' <=> InUse(x) \/ x = n
      /\ data'[n] = r /\ \A x \in Node \ {n} : data'[x] = data[x]
      /\ Known' \subseteq Known \cup {r} /\ NoAnswer(r) /\ \A x \in Known : x # r
  BY <1>1, AddTakes DEF InTimeInv
<1> HIDE DEF r, n
<1>3. UNCHANGED <<passed, requests, network, fifo, cnode, apc, areq, anode, tpc, treq, fault>>
  BY <1>2 DEF queueVars, answererVars
<1>4. \A x \in Node : InUse(x) => x # n /\ InUse(x)' /\ data'[x] = data[x]
  BY <1>2
<1>5. HasEntry(creq)' /\ \A x : HasEntry(x) => HasEntry(x)'
  <2>1. \A x : HasEntry(x) => HasEntry(x)'
    BY <1>4 DEF HasEntry
  <2>2. HasEntry(creq)'
    BY <1>2 DEF HasEntry
  <2>3. QED
    BY <2>1, <2>2
<1>6. EntryOfClient'
  BY <1>2, <1>5 DEF EntryOfClient
<1>7. EntryOfAnswerer'
  <2>1. \A x \in network' : HasEntry(x)'
    BY <1>3, <1>5 DEF InTimeInv, EntryOfAnswerer
  <2>2. \A i \in 1..Len(requests') : HasEntry(requests[i])'
    BY <1>3, <1>5 DEF InTimeInv, EntryOfAnswerer, HasEntry
  <2>3. ASSUME NEW a \in Answerer, apc'[a] \in Handling
        PROVE  InUse(anode[a])' <=> ~(a = "local" /\ apc'[a] = "signal")
    <3>1. anode[a] \in Node /\ InUse(anode[a])
      BY <1>2, <1>3, <2>3, NodesAtWork
    <3>2. InUse(anode[a])'
      BY <1>3, <1>4, <3>1 DEF InUse
    <3>3. QED
      BY <1>3, <2>3, <3>1, <3>2 DEF InTimeInv, EntryOfAnswerer
  <2>4. \A a \in Answerer : apc'[a] = "find" => HasEntry(areq[a])'
    BY <1>3, <1>5 DEF InTimeInv, EntryOfAnswerer, HasEntry
  <2>5. QED
    BY <1>3, <2>1, <2>2, <2>3, <2>4 DEF InTimeInv, EntryOfAnswerer
<1>8. OneWait'
  <2>1. /\ \A x \in network : ~x.sync
        /\ \A i \in 1..Len(requests) : ~requests[i].sync
        /\ \A a \in Answerer : ~(ToSignal(a) /\ areq[a].sync)
    BY <1>2 DEF InTimeInv, OneWait, WaitsFor
  <2>2. QED
    BY <1>3, <2>1 DEF OneWait, ToSignal
<1>9. EntriesHeld'
  <2> SUFFICES ASSUME NEW x \in Node, InUse(x)'
               PROVE  (LET q == data[x] IN
                       \/ q = creq /\ cpc \in {"add_received", "send", "undo", "undo_free"}
                       \/ q \in network
                       \/ \E i \in 1..Len(requests) : requests[i] = q
                       \/ \E a \in Answerer : areq[a] = q /\ apc[a] \notin {"idle", "done"}
                       \/ ~q.sync /\ ~NoAnswer(q))'
    BY DEF EntriesHeld
  <2>1. CASE x = n
    BY <1>2, <2>1
  <2>2. CASE x # n
    <3>1. InUse(x) /\ data'[x] = data[x]
      BY <1>2, <2>2
    <3>2. QED
      BY <1>2, <1>3, <3>1 DEF InTimeInv, EntriesHeld, NoAnswer
  <2>3. QED
    BY <2>1, <2>2
<1>10. MessagesHaveEntries'
  BY <1>3, <1>4 DEF InTimeInv, MessagesHaveEntries
<1>11. KindsMatch'
  BY <1>2, <1>3 DEF InTimeInv, KindsMatch, NoAnswer
<1>12. QED
  BY <1>3, <1>6, <1>7, <1>8, <1>9, <1>10, <1>11 DEF InTimeInv, Held
-----------------------------------------------------------------------------
(* The container takes a message and, with an answer, the entry it is for. *)
LEMMA ServeHolds ==
  ASSUME InTime, InTimeInv, Serve
  PROVE  Held'
<1> DEFINE h == fifo[1]
<1>1. /\ cpc = "idle" /\ fifo # <<>> /\ fifo' = Tail(fifo)
      /\ UNCHANGED <<data, passed, requests, network, cpc, creq, cnode, apc, areq, anode, armed,
                     tpc, treq, fault>>
  BY DEF Serve, clientVars, answererVars, triggerVars
<1>2. /\ fifo \in Seq(Message) /\ h = Head(fifo) /\ 1 \in 1..Len(fifo)
      /\ \A i \in 1..Len(fifo') : i + 1 \in 1..Len(fifo) /\ i + 1 # 1 /\ fifo'[i] = fifo[i + 1]
      /\ \A j \in 1..Len(fifo) : j # 1 => \E i \in 1..Len(fifo') : fifo'[i] = fifo[j]
  <2>1. fifo \in Seq(Message)
    BY DEF InTimeInv, TableInv, TypeOK, Message
  <2>2. /\ Len(fifo) \in Nat \ {0} /\ Len(fifo') = Len(fifo) - 1 /\ h = Head(fifo)
        /\ \A i \in 1..Len(fifo') : fifo'[i] = fifo[i + 1]
    BY <1>1, <2>1
  <2> HIDE DEF h
  <2>3. ASSUME NEW j \in 1..Len(fifo), j # 1
        PROVE  \E i \in 1..Len(fifo') : fifo'[i] = fifo[j]
    <3>1. j - 1 \in 1..Len(fifo') /\ (j - 1) + 1 = j
      BY <2>2, <2>3
    <3>2. QED
      BY <2>2, <3>1
  <2>4. \A i \in 1..Len(fifo') : i + 1 \in 1..Len(fifo) /\ i + 1 # 1
    BY <2>2
  <2>5. 1 \in 1..Len(fifo)
    BY <2>2
  <2>6. QED
    BY <2>1, <2>2, <2>3, <2>4, <2>5
<1>3. \/ /\ unused' = unused
         /\ \A n \in Node : ~(InUse(n) /\ data[n].id = h.id /\ ~data[n].sync)
      \/ \E n \in Node : /\ InUse(n) /\ data[n].id = h.id /\ ~data[n].sync
                         /\ unused' = Append(unused, n)
  BY <1>2 DEF Serve
<1> HIDE DEF h
<1>4. \A n \in Node : InUse(n)' <=> InUse(n) /\ ~(data[n].id = h.id /\ ~data[n].sync)
  <2>1. CASE unused' = unused
    <3>1. \A n \in Node : InUse(n)' <=> InUse(n)
      BY <2>1 DEF InUse
    <3>2. CASE \A n \in Node : ~(InUse(n) /\ data[n].id = h.id /\ ~data[n].sync)
      BY <3>1, <3>2
    <3>3. ASSUME NEW n \in Node, InUse(n), unused' = Append(unused, n) PROVE FALSE
      <4>1. InUse(n)'
        BY <3>1, <3>3
      <4>2. QED
        BY <1>1, <3>3, <4>1, OneLeaves
    <3>4. QED
      BY <1>3, <3>2, <3>3
  <2>2. ASSUME NEW n \in Node, InUse(n), data[n].id = h.id, ~data[n].sync,
               unused' = Append(unused, n)
        PROVE  \A x \in Node : InUse(x)' <=> InUse(x) /\ ~(data[x].id = h.id /\ ~data[x].sync)
    <3>1. \A x \in Node : (InUse(x)' <=> InUse(x) /\ x # n)
                          /\ (InUse(x) /\ x # n => data[x] # data[n])
      BY <1>1, <2>2, OneLeaves
    <3>2. \A x \in Node : data[x].id = data[n].id => data[x] = data[n]
      BY DEF InTimeInv, TableInv, Identified, Known
    <3>3. QED
      BY <2>2, <3>1, <3>2
  <2>3. QED
    BY <1>3, <2>1, <2>2
<1>5. ASSUME NEW x, HasEntry(x), x.sync \/ NoAnswer(x)
      PROVE  HasEntry(x)'
  <2>1. PICK n \in Node : InUse(n) /\ data[n] = x
    BY <1>5 DEF HasEntry
  <2>2. NoAnswer(x) => x.id # h.id
    BY <1>2 DEF NoAnswer, h
  <2>3. InUse(n)'
    BY <1>4, <1>5, <2>1, <2>2
  <2>4. QED
    BY <1>1, <2>1, <2>3 DEF HasEntry
<1>6. EntryOfClient'
  BY <1>1 DEF EntryOfClient
<1>7. EntryOfAnswerer'
  <2>0. \A x : Single(x)
    BY DEF Single, InTime
  <2>1. \A x \in network' : HasEntry(x)'
    BY <1>1, <1>5, <2>0 DEF InTimeInv, EntryOfAnswerer, TableInv, InNetwork
  <2>2. \A i \in 1..Len(requests) : HasEntry(requests[i])'
    <3>1. \A i \in 1..Len(requests) : HasEntry(requests[i]) /\ NoAnswer(requests[i])
      BY <2>0 DEF InTimeInv, EntryOfAnswerer, TableInv, InQueue
    <3>2. ASSUME NEW i \in 1..Len(requests), NEW x, x = requests[i] PROVE HasEntry(x)'
      BY <1>5, <3>1, <3>2
    <3>3. QED
      BY <1>1, <3>2 DEF HasEntry
  <2>3. ASSUME NEW a \in Answerer, apc[a] \in Handling
        PROVE  InUse(anode[a])' <=> ~(a = "local" /\ apc'[a] = "signal")
    <3>1. anode[a] \in Node /\ InUse(anode[a]) /\ data[anode[a]] = areq[a]
      BY <1>1, <2>3, NodesAtWork DEF InTimeInv, TableInv, AnswererAt
    <3>2. areq[a].sync \/ areq[a].id # h.id
      <4>1. CASE apc[a] \in {"free", "signal"}
        BY <4>1 DEF InTimeInv, TableInv, AnswererAt, EntryOfAnswerer, Answerer
      <4>2. CASE apc[a] \in {"check", "push", "fallback"}
        <5>1. NoAnswer(areq[a])
          BY <2>0, <4>2 DEF InTimeInv, TableInv, BeingAnswered
        <5>2. QED
          BY <1>2, <5>1 DEF NoAnswer, h
      <4>3. QED
        BY <2>3, <4>1, <4>2 DEF Handling
    <3>3. InUse(anode[a])'
      BY <1>1, <1>4, <3>1, <3>2 DEF InUse
    <3>4. QED
      BY <1>1, <2>3, <3>1, <3>3 DEF InTimeInv, EntryOfAnswerer
  <2>4. ASSUME NEW a \in Answerer, apc[a] = "find"
        PROVE  HasEntry(areq[a])'
    <3>1. HasEntry(areq[a]) /\ NoAnswer(areq[a])
      BY <2>0, <2>4 DEF InTimeInv, EntryOfAnswerer, TableInv, BeingAnswered
    <3>2. \A x : x = areq[a] => HasEntry(x)'
      BY <1>5, <3>1
    <3>3. QED
      BY <1>1, <3>2 DEF HasEntry
  <2>5. \A i \in 1..Len(requests') : HasEntry(requests[i])'
    BY <1>1, <2>2
  <2>6. QED
    BY <1>1, <2>1, <2>3, <2>4, <2>5 DEF InTimeInv, EntryOfAnswerer
<1>8. OneWait'
  BY <1>1 DEF InTimeInv, OneWait, WaitsFor, ToSignal
<1>9. EntriesHeld'
  <2> SUFFICES ASSUME NEW n \in Node, InUse(n)'
               PROVE  (LET q == data[n] IN
                       \/ q = creq /\ cpc \in {"add_received", "send", "undo", "undo_free"}
                       \/ q \in network
                       \/ \E i \in 1..Len(requests) : requests[i] = q
                       \/ \E a \in Answerer : areq[a] = q /\ apc[a] \notin {"idle", "done"}
                       \/ ~q.sync /\ ~NoAnswer(q))'
    BY DEF EntriesHeld
  <2>1. InUse(n) /\ (data[n].id # h.id \/ data[n].sync)
    BY <1>4
  <2>2. ~data[n].sync /\ ~NoAnswer(data[n]) => \E i \in 1..Len(fifo') : fifo'[i].id = data[n].id
    <3> SUFFICES ASSUME ~data[n].sync, ~NoAnswer(data[n])
                 PROVE  \E i \in 1..Len(fifo') : fifo'[i].id = data[n].id
      OBVIOUS
    <3>1. PICK j \in 1..Len(fifo) : fifo[j].id = data[n].id
      BY DEF NoAnswer
    <3>2. j # 1
      BY <2>1, <3>1 DEF h
    <3>3. PICK i \in 1..Len(fifo') : fifo'[i] = fifo[j]
      BY <1>2, <3>2
    <3>4. QED
      BY <3>1, <3>3
  <2>3. QED
    BY <1>1, <2>1, <2>2 DEF InTimeInv, EntriesHeld, NoAnswer
<1>10. MessagesHaveEntries'
  <2> SUFFICES ASSUME NEW i \in 1..Len(fifo'), fifo'[i].kind = "async"
               PROVE  \E n \in Node : InUse(n)' /\ data'[n].id = fifo'[i].id /\ ~data'[n].sync
    BY DEF MessagesHaveEntries
  <2>1. i + 1 \in 1..Len(fifo) /\ i + 1 # 1 /\ fifo'[i] = fifo[i + 1]
    BY <1>2
  <2>2. PICK n \in Node : InUse(n) /\ data[n].id = fifo[i + 1].id /\ ~data[n].sync
    BY <2>1 DEF InTimeInv, MessagesHaveEntries
  <2>3. h.id # fifo[i + 1].id
    <3> SUFFICES ASSUME h.id = fifo[i + 1].id PROVE FALSE
      OBVIOUS
    <3>1. data[n] \in Known /\ data[n] # NoReq
      BY <2>2 DEF Known, InTimeInv, TableInv, EntriesDiffer
    <3>2. h.kind = Kind(data[n])
      BY <1>2, <2>2, <3>1 DEF InTimeInv, KindsMatch, h
    <3>3. h.kind = "async" /\ fifo[i + 1].kind = "async" /\ "async" \in SingleKinds
      BY <2>1, <2>2, <3>2 DEF Kind, SingleKinds, InTime
    <3>4. QED
      BY <1>2, <2>1, <3>3 DEF InTimeInv, TableInv, Messages, Once, h
  <2>4. QED
    BY <1>1, <1>4, <2>1, <2>2, <2>3
<1>11. KindsMatch'
  <2>1. Known' \subseteq Known
    BY <1>1 DEF Known
  <2>2. QED
    BY <1>2, <2>1 DEF InTimeInv, KindsMatch
<1>12. QED
  BY <1>1, <1>6, <1>7, <1>8, <1>9, <1>10, <1>11 DEF InTimeInv, Held
-----------------------------------------------------------------------------
(* Taking a request to answer, or its answer: its entry is the thread's.   *)
LEMMA TakeHolds ==
  ASSUME InTimeInv, TakeRequest \/ TakeAnswer
  PROVE  Held'
<1>1. PICK a \in Answerer, r \in {Head(requests)} \cup network :
        /\ apc[a] = "idle" /\ apc' = [apc EXCEPT ![a] = "find"] /\ areq' = [areq EXCEPT ![a] = r]
        /\ UNCHANGED <<listVars, passed, fifo, clientVars, anode, triggerVars, fault>>
        /\ \/ requests # <<>> /\ r = Head(requests) /\ requests' = Tail(requests)
              /\ network' = network
           \/ r \in network /\ network' = network \ {r} /\ requests' = requests
  BY DEF TakeRequest, TakeAnswer, Answer, Answerer
<1>2. UNCHANGED <<data, unused, passed, fifo, cpc, creq, cnode, anode, armed, tpc, treq, fault>>
  BY <1>1 DEF listVars, clientVars, triggerVars
<1>3. /\ \A i \in 1..Len(requests') : \E j \in 1..Len(requests) : requests'[i] = requests[j]
      /\ \A j \in 1..Len(requests) :
           requests[j] = r \/ \E i \in 1..Len(requests') : requests'[i] = requests[j]
      /\ r \in network \/ \E j \in 1..Len(requests) : requests[j] = r
      /\ network' \subseteq network /\ network \subseteq network' \cup {r}
  <2>1. CASE r \in network /\ network' = network \ {r} /\ requests' = requests
    BY <2>1
  <2>2. CASE requests # <<>> /\ r = Head(requests) /\ requests' = Tail(requests)
             /\ network' = network
    <3>1. requests \in Seq(Request)
      BY DEF InTimeInv, TableInv, TypeOK
    <3>2. /\ Len(requests) \in Nat \ {0} /\ r = requests[1] /\ Len(requests') = Len(requests) - 1
          /\ \A i \in 1..Len(requests') : requests'[i] = requests[i + 1]
      BY <2>2, <3>1
    <3>3. ASSUME NEW j \in 1..Len(requests), requests[j] # r
          PROVE  \E i \in 1..Len(requests') : requests'[i] = requests[j]
      <4>1. j - 1 \in 1..Len(requests') /\ (j - 1) + 1 = j
        BY <3>2, <3>3
      <4>2. QED
        BY <3>2, <4>1
    <3>4. \A i \in 1..Len(requests') : i + 1 \in 1..Len(requests)
      BY <3>2
    <3>5. 1 \in 1..Len(requests)
      BY <3>2
    <3>6. QED
      BY <2>2, <3>2, <3>3, <3>4, <3>5
  <2>3. QED
    BY <1>1, <2>1, <2>2
<1>4. apc'[a] = "find" /\ areq'[a] = r
      /\ \A b \in Answerer \ {a} : apc'[b] = apc[b] /\ areq'[b] = areq[b]
  BY <1>1 DEF InTimeInv, TableInv, TypeOK
<1>5. HasEntry(r) /\ (r.sync => WaitsFor(r))
  BY <1>3 DEF InTimeInv, EntryOfAnswerer, OneWait
<1>6. r \in Known /\ Known' \subseteq Known
  <2>1. r \in Known
    BY <1>3 DEF Known
  <2>2. \A b \in Answerer : areq'[b] \in Known
    BY <1>4, <2>1 DEF Known
  <2>3. \A i \in 1..Len(requests') : requests'[i] \in Known
    BY <1>3 DEF Known
  <2>4. network' \subseteq Known
    BY <1>3 DEF Known
  <2>5. QED
    BY <1>2, <2>1, <2>2, <2>3, <2>4 DEF Known
<1>7. /\ \A n : InUse(n)' <=> InUse(n)
      /\ \A x : HasEntry(x)' <=> HasEntry(x)
      /\ MessagesHaveEntries' /\ KindsMatch'
  BY <1>1, <1>6, SameTable DEF InTimeInv
<1>8. EntryOfClient'
  BY <1>2, <1>7 DEF InTimeInv, EntryOfClient, HasEntry, InUse
<1>9. EntryOfAnswerer'
  <2>1. \A x \in network' : HasEntry(x)'
    BY <1>3, <1>7 DEF InTimeInv, EntryOfAnswerer
  <2>2. \A i \in 1..Len(requests') : HasEntry(requests[i])'
    BY <1>2, <1>3, <1>7 DEF InTimeInv, EntryOfAnswerer, HasEntry, InUse
  <2>3. \A b \in Answerer : apc'[b] = "find" => HasEntry(areq[b])'
    BY <1>2, <1>4, <1>5, <1>7 DEF InTimeInv, EntryOfAnswerer, HasEntry, InUse
  <2>4. \A b \in Answerer : apc'[b] \in Handling =>
          (InUse(anode[b])' <=> ~(b = "local" /\ apc'[b] = "signal"))
    <3>1. \A b \in Answerer : apc'[b] \in Handling => b # a /\ apc'[b] = apc[b]
      BY <1>4 DEF Handling
    <3>2. \A b \in Answerer : InUse(anode[b])' <=> InUse(anode[b])
      BY <1>2 DEF InUse
    <3>3. QED
      BY <3>1, <3>2 DEF InTimeInv, EntryOfAnswerer
  <2>5. apc'["remote"] = "free" => areq'["remote"].sync
    BY <1>4 DEF InTimeInv, EntryOfAnswerer, Answerer
  <2>6. QED
    BY <2>1, <2>2, <2>3, <2>4, <2>5 DEF EntryOfAnswerer
<1>10. OneWait'
  <2>1. \A x \in network' : x.sync => WaitsFor(x)'
    BY <1>2, <1>3 DEF InTimeInv, OneWait, WaitsFor
  <2>2. \A i \in 1..Len(requests') : requests'[i].sync => WaitsFor(requests[i])'
    BY <1>2, <1>3 DEF InTimeInv, OneWait, WaitsFor
  <2>3. \A b \in Answerer : ToSignal(b)' /\ areq'[b].sync => WaitsFor(areq[b])'
    BY <1>2, <1>4, <1>5 DEF InTimeInv, OneWait, WaitsFor, ToSignal
  <2>4. QED
    BY <2>1, <2>2, <2>3 DEF OneWait
<1>11. EntriesHeld'
  <2> SUFFICES ASSUME NEW n \in Node, InUse(n)'
               PROVE  (LET q == data[n] IN
                       \/ q = creq /\ cpc \in {"add_received", "send", "undo", "undo_free"}
                       \/ q \in network
                       \/ \E i \in 1..Len(requests) : requests[i] = q
                       \/ \E b \in Answerer : areq[b] = q /\ apc[b] \notin {"idle", "done"}
                       \/ ~q.sync /\ ~NoAnswer(q))'
    BY DEF EntriesHeld
  <2>1. CASE data[n] = r
    BY <1>2, <1>4, <2>1
  <2>2. CASE data[n] # r
    <3>1. InUse(n)
      BY <1>7
    <3>2. (\E i \in 1..Len(requests) : requests[i] = data[n]) =>
            \E i \in 1..Len(requests') : requests'[i] = data[n]
      BY <1>3, <2>2
    <3>3. data[n] \in network => data[n] \in network'
      BY <1>3, <2>2
    <3>4. (\E b \in Answerer : areq[b] = data[n] /\ apc[b] \notin {"idle", "done"}) =>
            \E b \in Answerer : areq'[b] = data[n] /\ apc'[b] \notin {"idle", "done"}
      BY <1>1, <1>4
    <3>5. QED
      BY <1>2, <3>1, <3>2, <3>3, <3>4 DEF InTimeInv, EntriesHeld, NoAnswer
  <2>3. QED
    BY <2>1, <2>2
<1>12. QED
  BY <1>2, <1>7, <1>8, <1>9, <1>10, <1>11 DEF InTimeInv, Held

(* Finding the entry, checking its date, and the last step of the server.  *)
LEMMA AnswererHolds ==
  ASSUME InTimeInv, NEW a \in Answerer,
         FindSent(a) \/ CheckTimeout(a) \/ (a = "local" /\ FreeReceived)
  PROVE  Held'
<1>1. /\ UNCHANGED <<listVars, passed, requests, network, fifo, clientVars, areq, triggerVars,
                     fault>>
      /\ \/ /\ apc[a] = "find" /\ anode' = [anode EXCEPT ![a] = Found(areq[a])]
            /\ apc' = [apc EXCEPT ![a] = IF Find(areq[a]) = {} THEN GiveUp(a) ELSE "check"]
         \/ apc[a] = "check" /\ anode' = anode /\ apc' = [apc EXCEPT ![a] = "push"]
         \/ a = "local" /\ apc[a] = "done" /\ anode' = anode /\ apc' = [apc EXCEPT ![a] = "idle"]
  BY DEF InTimeInv, FindSent, CheckTimeout, FreeReceived, Answer, clientVars, queueVars
<1>2. UNCHANGED <<data, unused, passed, requests, network, fifo, cpc, creq, cnode, areq, armed,
                  tpc, treq, fault>>
  BY <1>1 DEF listVars, clientVars, triggerVars
<1>3. apc[a] = "find" => Found(areq[a]) \in Find(areq[a]) /\ Find(areq[a]) # {}
  <2> SUFFICES ASSUME apc[a] = "find" PROVE Found(areq[a]) \in Find(areq[a])
    OBVIOUS
  <2>1. PICK n \in Node : InUse(n) /\ data[n] = areq[a]
    BY DEF InTimeInv, EntryOfAnswerer, HasEntry
  <2>2. QED
    BY <2>1 DEF Found, Find
<1>4. /\ \A b \in Answerer \ {a} : apc'[b] = apc[b] /\ anode'[b] = anode[b]
      /\ \/ apc[a] = "find" /\ apc'[a] = "check" /\ anode'[a] \in Find(areq[a])
         \/ apc[a] = "check" /\ apc'[a] = "push" /\ anode'[a] = anode[a]
         \/ a = "local" /\ apc[a] = "done" /\ apc'[a] = "idle"
  <2>1. apc \in [Answerer -> Steps] /\ anode \in [Answerer -> Node \cup {NoNode}]
    BY DEF InTimeInv, TableInv, TypeOK, Steps
  <2>2. QED
    BY <1>1, <1>3, <2>1
<1>5. Known' \subseteq Known
  BY <1>2 DEF Known
<1>6. /\ \A n : InUse(n)' <=> InUse(n)
      /\ \A x : HasEntry(x)' <=> HasEntry(x)
      /\ MessagesHaveEntries' /\ KindsMatch'
  BY <1>1, <1>5, SameTable DEF InTimeInv
<1>7. EntryOfClient'
  BY <1>2, <1>6 DEF InTimeInv, EntryOfClient, HasEntry, InUse
<1>8. EntryOfAnswerer'
  <2>1. \A x \in network' : HasEntry(x)'
    BY <1>2, <1>6 DEF InTimeInv, EntryOfAnswerer
  <2>2. \A i \in 1..Len(requests') : HasEntry(requests[i])'
    BY <1>2 DEF InTimeInv, EntryOfAnswerer, HasEntry, InUse
  <2>3. \A b \in Answerer : apc'[b] = "find" => HasEntry(areq[b])'
    BY <1>2, <1>4 DEF InTimeInv, EntryOfAnswerer, HasEntry, InUse
  <2>4. ASSUME NEW b \in Answerer, apc'[b] \in Handling
        PROVE  InUse(anode[b])' <=> ~(b = "local" /\ apc'[b] = "signal")
    <3>1. CASE b = a /\ apc[a] = "find"
      <4>1. anode'[a] \in Node /\ InUse(anode'[a]) /\ apc'[a] = "check"
        BY <1>4, <3>1 DEF Find
      <4>2. QED
        BY <1>2, <3>1, <4>1 DEF InUse
    <3>2. CASE ~(b = a /\ apc[a] = "find")
      <4>1. apc[b] \in Handling /\ anode'[b] = anode[b]
            /\ (apc'[b] = "signal" <=> apc[b] = "signal")
        BY <1>4, <2>4, <3>2 DEF Handling
      <4>2. InUse(anode[b])' <=> InUse(anode[b])
        BY <1>2, <4>1 DEF InUse
      <4>3. QED
        BY <4>1, <4>2 DEF InTimeInv, EntryOfAnswerer
    <3>3. QED
      BY <3>1, <3>2
  <2>5. apc'["remote"] = "free" => areq'["remote"].sync
    BY <1>2, <1>4 DEF InTimeInv, EntryOfAnswerer, Answerer
  <2>6. QED
    BY <2>1, <2>2, <2>3, <2>4, <2>5 DEF EntryOfAnswerer
<1>9. OneWait'
  <2>1. \A b \in Answerer : ToSignal(b)' => ToSignal(b)
    BY <1>4 DEF ToSignal
  <2>2. QED
    BY <1>2, <2>1 DEF InTimeInv, OneWait, WaitsFor
<1>10. EntriesHeld'
  <2>1. \A b \in Answerer : apc[b] \notin {"idle", "done"} => apc'[b] \notin {"idle", "done"}
    BY <1>4
  <2>2. QED
    BY <1>2, <1>6, <2>1 DEF InTimeInv, EntriesHeld, NoAnswer
<1>11. QED
  BY <1>2, <1>6, <1>7, <1>8, <1>9, <1>10 DEF InTimeInv, Held

(* The signal finds the client waiting for it.                             *)
LEMMA SignalHolds ==
  ASSUME InTimeInv, NEW a \in Answerer, Signal(a)
  PROVE  Held'
<1>1. /\ apc[a] = "signal" /\ WaitResponseFree
      /\ cpc' = IF cpc = "waiting" THEN "woken" ELSE cpc
      /\ apc' = [apc EXCEPT ![a] = IF a = "local" THEN "done" ELSE "free"]
      /\ UNCHANGED <<listVars, last_id, passed, queueVars, creq, cnode, areq, anode,
                     triggerVars, fault>>
  BY DEF Signal, Answer, Client
<1>2. UNCHANGED <<data, unused, passed, requests, network, fifo, creq, cnode, areq, anode, armed,
                  tpc, treq, fault>>
  BY <1>1 DEF listVars, queueVars, triggerVars
<1>3. areq[a].sync /\ creq = areq[a] /\ cpc = "waiting" /\ cpc' = "woken"
  <2>1. areq[a].sync /\ WaitsFor(areq[a])
    BY <1>1 DEF InTimeInv, TableInv, AnswererAt, OneWait, ToSignal
  <2>2. QED
    BY <1>1, <2>1 DEF WaitsFor, WaitResponseFree
<1>4. /\ apc'[a] = IF a = "local" THEN "done" ELSE "free"
      /\ \A b \in Answerer \ {a} : apc'[b] = apc[b]
  BY <1>1 DEF InTimeInv, TableInv, TypeOK
<1>5. Known' \subseteq Known
  BY <1>2 DEF Known
<1>6. /\ \A n : InUse(n)' <=> InUse(n)
      /\ \A x : HasEntry(x)' <=> HasEntry(x)
      /\ MessagesHaveEntries' /\ KindsMatch'
  BY <1>1, <1>5, SameTable DEF InTimeInv, queueVars
<1>7. EntryOfClient'
  BY <1>3 DEF EntryOfClient
<1>8. EntryOfAnswerer'
  <2>1. \A x \in network' : HasEntry(x)'
    BY <1>2, <1>6 DEF InTimeInv, EntryOfAnswerer
  <2>2. \A i \in 1..Len(requests') : HasEntry(requests[i])'
    BY <1>2 DEF InTimeInv, EntryOfAnswerer, HasEntry, InUse
  <2>3. \A b \in Answerer : apc'[b] = "find" => HasEntry(areq[b])'
    BY <1>2, <1>4 DEF InTimeInv, EntryOfAnswerer, HasEntry, InUse
  <2>4. ASSUME NEW b \in Answerer, apc'[b] \in Handling
        PROVE  InUse(anode[b])' <=> ~(b = "local" /\ apc'[b] = "signal")
    <3>1. InUse(anode[b])' <=> InUse(anode[b])
      BY <1>2 DEF InUse
    <3>2. apc[b] \in Handling /\ (apc'[b] = "signal" => apc[b] = "signal")
          /\ (b = "local" /\ apc[b] = "signal" => apc'[b] = "signal")
      BY <1>1, <1>4, <2>4 DEF Handling
    <3>3. QED
      BY <3>1, <3>2 DEF InTimeInv, EntryOfAnswerer
  <2>5. apc'["remote"] = "free" => areq'["remote"].sync
    BY <1>2, <1>3, <1>4 DEF InTimeInv, EntryOfAnswerer, Answerer
  <2>6. QED
    BY <2>1, <2>2, <2>3, <2>4, <2>5 DEF EntryOfAnswerer
<1>9. OneWait'
  <2>1. /\ areq[a] \notin network /\ \A i \in 1..Len(requests) : requests[i] # areq[a]
        /\ \A b \in Answerer \ {a} : apc[b] # "idle" => areq[b] # areq[a]
    <3>1. \A b \in Answerer : apc[b] # "idle" => areq[b].server = b
      BY DEF InTimeInv, TableInv, BeingAnswered
    <3>2. areq[a] \notin network /\ \A i \in 1..Len(requests) : requests[i] # areq[a]
      BY <1>1, <3>1 DEF InTimeInv, TableInv, InNetwork, InQueue, Answerer
    <3>3. QED
      BY <1>1, <3>1, <3>2
  <2>2. /\ \A x \in network : ~x.sync
        /\ \A i \in 1..Len(requests) : ~requests[i].sync
        /\ \A b \in Answerer \ {a} : ~(ToSignal(b) /\ areq[b].sync)
    <3>1. \A b \in Answerer : ToSignal(b) => apc[b] # "idle"
      BY DEF ToSignal
    <3>2. QED
      BY <1>3, <2>1, <3>1 DEF InTimeInv, OneWait, WaitsFor
  <2>3. ~ToSignal(a)'
    BY <1>4 DEF ToSignal
  <2>4. \A b \in Answerer : ToSignal(b)' => b # a /\ ToSignal(b)
    BY <1>4, <2>3 DEF ToSignal
  <2>5. QED
    BY <1>2, <2>2, <2>4 DEF OneWait
<1>10. EntriesHeld'
  <2>1. ASSUME NEW n \in Node, InUse(n), data[n] = areq[a], a = "local"
        PROVE  FALSE
    <3>1. anode[a] \in Node /\ ~InUse(anode[a]) /\ data[anode[a]] = areq[a]
      BY <1>1, <2>1 DEF InTimeInv, EntryOfAnswerer, TableInv, AnswererAt, Handling
    <3>2. QED
      BY <2>1, <3>1 DEF InTimeInv, TableInv, EntriesDiffer
  <2>2. ASSUME NEW n \in Node, InUse(n),
               \E b \in Answerer : areq[b] = data[n] /\ apc[b] \notin {"idle", "done"}
        PROVE  \E b \in Answerer : areq'[b] = data'[n] /\ apc'[b] \notin {"idle", "done"}
    BY <1>2, <1>4, <2>1, <2>2
  <2>3. QED
    BY <1>2, <1>3, <1>6, <2>2 DEF InTimeInv, EntriesHeld, NoAnswer
<1>11. QED
  BY <1>2, <1>6, <1>7, <1>8, <1>9, <1>10 DEF InTimeInv, Held
-----------------------------------------------------------------------------
(* The client's FIFO has an element for an asynchronous answer: each one   *)
(* already there is for an entry of its own.                               *)
LEMMA AsyncHasRoom ==
  ASSUME InTime, InTimeInv, NEW a \in Answerer, apc[a] = "push", ~areq[a].sync
  PROVE  HasRoom("async")
<1> DEFINE S == OfKind(fifo, "async")
           T == Async \ {anode[a]}
           EntryOf(i) == CHOOSE n \in Node : InUse(n) /\ data[n].id = fifo[i].id /\ ~data[n].sync
           g == [i \in S |-> EntryOf(i)]
<1>1. /\ anode[a] \in Node /\ InUse(anode[a]) /\ data[anode[a]] = areq[a]
      /\ anode[a] \in Async /\ NoAnswer(areq[a])
  <2>1. anode[a] \in Node /\ InUse(anode[a]) /\ data[anode[a]] = areq[a]
    BY DEF InTimeInv, EntryOfAnswerer, TableInv, AnswererAt, Handling
  <2>2. NoAnswer(areq[a])
    BY DEF InTime, InTimeInv, TableInv, BeingAnswered, Single
  <2>3. QED
    BY <2>1, <2>2 DEF Async
<1>2. \A i \in S : /\ EntryOf(i) \in T /\ data[EntryOf(i)].id = fifo[i].id
  <2> SUFFICES ASSUME NEW i \in S PROVE EntryOf(i) \in T /\ data[EntryOf(i)].id = fifo[i].id
    OBVIOUS
  <2>1. i \in 1..Len(fifo) /\ fifo[i].kind = "async"
    BY DEF OfKind
  <2>2. \E n \in Node : InUse(n) /\ data[n].id = fifo[i].id /\ ~data[n].sync
    BY <2>1 DEF InTimeInv, MessagesHaveEntries
  <2>3. EntryOf(i) \in Node /\ InUse(EntryOf(i)) /\ data[EntryOf(i)].id = fifo[i].id
        /\ ~data[EntryOf(i)].sync
    BY <2>2
  <2> HIDE DEF EntryOf
  <2>4. EntryOf(i) # anode[a]
    BY <1>1, <2>1, <2>3 DEF NoAnswer
  <2>5. QED
    BY <2>3, <2>4 DEF Async
<1> HIDE DEF EntryOf
<1>3. g \in Injection(S, T)
  <2>1. g \in [S -> T]
    BY <1>2
  <2>2. ASSUME NEW i \in S, NEW j \in S, g[i] = g[j] PROVE i = j
    <3>1. fifo[i].id = fifo[j].id
      BY <1>2, <2>2
    <3>2. i \in 1..Len(fifo) /\ j \in 1..Len(fifo) /\ fifo[i].kind = "async"
          /\ fifo[j].kind = "async" /\ "async" \in SingleKinds
      BY DEF OfKind, SingleKinds, InTime
    <3>3. QED
      BY <3>1, <3>2 DEF InTimeInv, TableInv, Messages, Once
  <2>3. QED
    BY <2>1, <2>2, Fun_IsInj
<1>4. IsFiniteSet(Async) /\ Outstanding = Cardinality(Async) /\ Outstanding \in Nat
  BY OutstandingFinite
<1>5. IsFiniteSet(T) /\ Cardinality(T) = Outstanding - 1
  BY <1>1, <1>4, FS_RemoveElement
<1>6. Cardinality(S) <= Cardinality(T) /\ Cardinality(S) \in Nat
  <2>1. fifo \in Seq(Message)
    BY DEF InTimeInv, TableInv, TypeOK, Message
  <2>2. QED
    BY <1>3, <1>5, <2>1, KindsFinite, FS_Injection
<1>7. Falling("async") = {}
  BY DEF Falling, Kind, InTimeInv, TableInv, AnswererAt, Handling
<1>8. Count("async") = Cardinality(S)
  <2>1. Count("async") = Cardinality(S) + Cardinality(Falling("async"))
    BY DEF Count, OfKind, Falling
  <2>2. QED
    BY <1>6, <1>7, <2>1, FS_EmptySet
<1>9. Outstanding <= MaxConcurrent /\ MaxConcurrent <= AnswerPool
      /\ MaxConcurrent \in Nat /\ AnswerPool \in Nat
  BY RequestAssumption DEF InTime, InTimeInv, TableInv, EntriesDiffer
<1>10. PoolSize("async") = AnswerPool
  BY DEF PoolSize
<1> HIDE DEF S, T
<1>11. QED
  BY <1>4, <1>5, <1>6, <1>8, <1>9, <1>10 DEF HasRoom

(* Pushing an answer: that of an asynchronous request is for the client to *)
(* take, with its entry.                                                   *)
LEMMA PushHolds ==
  ASSUME InTime, InTimeInv, NEW a \in Answerer,
         PushAnswer(a) \/ (PushFallback(a) /\ apc[a] = "fallback")
  PROVE  Held'
<1> DEFINE r == areq[a]
           m == Msg(Kind(r), r)
<1>1. apc[a] \in {"push", "fallback"} /\ TableInv
  BY DEF PushAnswer, InTimeInv
<1>2. /\ r \in Request /\ r \in Known /\ data[anode[a]] = r /\ Sync(a) = r.sync
      /\ m \in Message /\ m.id = r.id /\ m.kind = Kind(r) /\ r.id <= last_id /\ r.id # 0
      /\ Kind(r) \in {"sync", "async"} /\ (Kind(r) \in SingleKinds => NoAnswer(r))
  BY <1>1, AnswerAtHand
<1>3. anode[a] \in Node /\ InUse(anode[a])
  BY <1>1 DEF InTimeInv, EntryOfAnswerer, TableInv, AnswererAt, Handling
<1>4. PICK s :
        /\ apc' = [apc EXCEPT ![a] = s]
        /\ UNCHANGED <<listVars, last_id, passed, received, requests, network, clientVars,
                       areq, anode, triggerVars, fault>>
        /\ \/ /\ r.sync /\ (s = "fallback" \/ s = IF a = "local" THEN "free" ELSE "signal")
              /\ fifo' = fifo \/ fifo' = Append(fifo, m) \/ fifo' = <<m>> \o fifo
           \/ ~r.sync /\ s = GiveUp(a) /\ fifo' = Append(fifo, m)
  <2>1. CASE r.sync
    <3>1. \A stored : AfterPush(a, stored) = IF a = "local" THEN "free" ELSE "signal"
      BY <1>2, <2>1 DEF AfterPush
    <3>2. CASE PushAnswer(a)
      BY <1>2, <2>1, <3>1, <3>2 DEF PushAnswer, Answer
    <3>3. CASE PushFallback(a)
      BY <1>2, <2>1, <3>1, <3>3 DEF PushFallback, Answer
    <3>4. QED
      BY <3>2, <3>3
  <2>2. CASE ~r.sync
    <3>1. apc[a] = "push"
      BY <1>1, <2>2 DEF TableInv, AnswererAt
    <3>2. HasRoom("async")
      BY <2>2, <3>1, AsyncHasRoom
    <3>3. AfterPush(a, TRUE) = GiveUp(a) /\ Kind(r) = "async" /\ ~Sync(a) /\ PushAnswer(a)
      BY <1>2, <2>2, <3>1 DEF AfterPush, Kind
    <3>4. QED
      BY <1>2, <2>2, <3>2, <3>3 DEF PushAnswer, Answer
  <2>3. QED
    BY <2>1, <2>2
<1> HIDE DEF r, m
<1>5. UNCHANGED <<data, unused, last_id, passed, requests, network, cpc, creq, cnode, areq, anode,
                  armed, tpc, treq, fault>>
  BY <1>4 DEF listVars, clientVars, triggerVars
<1>6. /\ \A x : NoAnswer(x)' => NoAnswer(x)
      /\ ~r.sync => ~NoAnswer(r)'
      /\ \A i \in 1..Len(fifo') : fifo'[i] = m \/ \E j \in 1..Len(fifo) : fifo'[i] = fifo[j]
  <2>1. CASE fifo' = fifo /\ r.sync
    BY <2>1 DEF NoAnswer
  <2>2. CASE fifo' = Append(fifo, m) \/ fifo' = <<m>> \o fifo
    <3>1. m.kind = "event" <=> m.id = 0
      BY <1>2
    <3>2. m.kind \in SingleKinds => NoAnswer(m)
      BY <1>2 DEF NoAnswer
    <3>3. m.id <= last_id /\ UNCHANGED last_id
      BY <1>2, <1>5
    <3>4. /\ \A x : NoAnswer(x)' <=> NoAnswer(x) /\ m.id # x.id
          /\ \A i \in 1..Len(fifo') : fifo'[i] = m \/ \E j \in 1..Len(fifo) : fifo'[i] = fifo[j]
      BY <1>1, <1>2, <2>2, <3>1, <3>2, <3>3, PushKeepsMessages
    <3>5. \A x : NoAnswer(x)' => NoAnswer(x)
      BY <3>4
    <3>6. ~NoAnswer(r)'
      <4>1. r' = r
        BY <1>5 DEF r
      <4>2. QED
        BY <1>2, <3>4, <4>1 DEF NoAnswer
    <3>7. QED
      BY <3>4, <3>5, <3>6
  <2>3. QED
    BY <1>4, <2>1, <2>2
<1>7. apc'[a] = s /\ \A b \in Answerer \ {a} : apc'[b] = apc[b]
  BY <1>4 DEF InTimeInv, TableInv, TypeOK
<1>8. /\ \A n : InUse(n)' <=> InUse(n)
      /\ \A x : HasEntry(x)' <=> HasEntry(x)
  <2>1. \A n : InUse(n)' <=> InUse(n)
    BY <1>5 DEF InUse
  <2>2. QED
    BY <1>5, <2>1 DEF HasEntry
<1>9. Known' \subseteq Known
  BY <1>5 DEF Known
<1>10. EntryOfClient'
  BY <1>5 DEF InTimeInv, EntryOfClient, HasEntry, InUse
<1>11. EntryOfAnswerer'
  <2>1. \A x \in network' : HasEntry(x)'
    BY <1>5, <1>8 DEF InTimeInv, EntryOfAnswerer
  <2>2. \A i \in 1..Len(requests') : HasEntry(requests[i])'
    BY <1>5 DEF InTimeInv, EntryOfAnswerer, HasEntry, InUse
  <2>3. s \in {"fallback", "free", "signal", "idle", "done"}
        /\ (s = "signal" => a # "local") /\ (s = "free" => a = "local")
    BY <1>4 DEF GiveUp
  <2>4. \A b \in Answerer : apc'[b] = "find" => HasEntry(areq[b])'
    BY <1>5, <1>7, <2>3 DEF InTimeInv, EntryOfAnswerer, HasEntry, InUse
  <2>5. ASSUME NEW b \in Answerer, apc'[b] \in Handling
        PROVE  InUse(anode[b])' <=> ~(b = "local" /\ apc'[b] = "signal")
    <3>1. InUse(anode[b])' <=> InUse(anode[b])
      BY <1>5 DEF InUse
    <3>2. CASE b = a
      BY <1>3, <1>7, <2>3, <3>1, <3>2
    <3>3. CASE b # a
      BY <1>7, <2>5, <3>1, <3>3 DEF InTimeInv, EntryOfAnswerer
    <3>4. QED
      BY <3>2, <3>3
  <2>6. apc'["remote"] = "free" => areq'["remote"].sync
    BY <1>5, <1>7, <2>3 DEF InTimeInv, EntryOfAnswerer, Answerer
  <2>7. QED
    BY <2>1, <2>2, <2>4, <2>5, <2>6 DEF EntryOfAnswerer
<1>12. OneWait'
  <2>1. \A b \in Answerer : ToSignal(b)' => ToSignal(b)
    BY <1>1, <1>7 DEF ToSignal
  <2>2. QED
    BY <1>5, <2>1 DEF InTimeInv, OneWait, WaitsFor
<1>13. EntriesHeld'
  <2> SUFFICES ASSUME NEW n \in Node, InUse(n)
               PROVE  (LET q == data[n] IN
                       \/ q = creq /\ cpc \in {"add_received", "send", "undo", "undo_free"}
                       \/ q \in network
                       \/ \E i \in 1..Len(requests) : requests[i] = q
                       \/ \E b \in Answerer : areq[b] = q /\ apc[b] \notin {"idle", "done"}
                       \/ ~q.sync /\ ~NoAnswer(q))'
    BY <1>8 DEF EntriesHeld
  <2>1. CASE data[n] = r
    <3>1. r.sync => apc'[a] \notin {"idle", "done"} /\ areq'[a] = r
      BY <1>4, <1>5, <1>7 DEF r
    <3>2. CASE r.sync
      BY <1>5, <2>1, <3>1, <3>2
    <3>3. CASE ~r.sync
      <4>1. ~NoAnswer(r)' /\ r' = r
        BY <1>5, <1>6, <3>3 DEF r
      <4>2. ~NoAnswer(data[n])'
        BY <1>5, <2>1, <4>1 DEF NoAnswer
      <4>3. QED
        BY <1>5, <2>1, <3>3, <4>2
    <3>4. QED
      BY <3>2, <3>3
  <2>2. CASE data[n] # r
    <3>1. (\E b \in Answerer : areq[b] = data[n] /\ apc[b] \notin {"idle", "done"}) =>
            \E b \in Answerer : areq'[b] = data[n] /\ apc'[b] \notin {"idle", "done"}
      BY <1>5, <1>7, <2>2 DEF r
    <3>2. ~NoAnswer(data[n]) => ~NoAnswer(data[n])'
      BY <1>5, <1>6 DEF NoAnswer
    <3>3. QED
      BY <1>5, <3>1, <3>2 DEF InTimeInv, EntriesHeld
  <2>3. QED
    BY <2>1, <2>2
<1>14. MessagesHaveEntries'
  <2>1. m.kind = "async" => InUse(anode[a]) /\ data[anode[a]].id = m.id /\ ~data[anode[a]].sync
    BY <1>2, <1>3 DEF Kind
  <2>2. QED
    BY <1>3, <1>5, <1>6, <1>8, <2>1 DEF InTimeInv, MessagesHaveEntries
<1>15. KindsMatch'
  <2>1. \A x \in Known : m.id = x.id => m.kind = Kind(x)
    BY <1>2 DEF InTimeInv, TableInv, Identified
  <2>2. QED
    BY <1>6, <1>9, <2>1 DEF InTimeInv, KindsMatch
<1>16. QED
  BY <1>5, <1>10, <1>11, <1>12, <1>13, <1>14, <1>15 DEF InTimeInv, Held
-----------------------------------------------------------------------------
(* An event is nobody's answer.                                            *)
LEMMA EventHolds ==
  ASSUME InTimeInv, PushEvent
  PROVE  Held'
<1> DEFINE m == Msg("event", NoReq)
<1>1. /\ fifo' = Append(fifo, m)
      /\ UNCHANGED <<data, unused, last_id, passed, requests, network, cpc, creq, cnode, apc, areq,
                     anode, armed, tpc, treq, fault>>
  BY DEF PushEvent, listVars, clientVars, answererVars, triggerVars
<1>2. m \in Message /\ m.kind = "event" /\ m.id = 0
  BY RequestAssumption DEF Msg, NoReq, Message
<1>3. \A x \in Known : x # NoReq => x.id # 0
  <2>1. \A x \in Request : x.id \in ID
    BY DEF Request
  <2>2. \A x \in Known : x # NoReq => x \in Request
    BY KnownTypes DEF InTimeInv, TableInv
  <2>3. \A i \in ID : i # 0
    BY RequestAssumption DEF ID
  <2>4. QED
    BY <2>1, <2>2, <2>3
<1>4. last_id \in Nat
  <2>1. last_id \in 0..MaxID
    BY DEF InTimeInv, TableInv, TypeOK
  <2>2. QED
    BY <2>1, RequestAssumption
<1> HIDE DEF m
<1>5. /\ \A x : NoAnswer(x)' <=> NoAnswer(x) /\ m.id # x.id
      /\ \A i \in 1..Len(fifo') : fifo'[i] = m \/ \E j \in 1..Len(fifo) : fifo'[i] = fifo[j]
  <2>1. m.kind \notin SingleKinds /\ m.id <= last_id /\ UNCHANGED last_id
    BY <1>1, <1>2, <1>4 DEF SingleKinds
  <2>2. TableInv
    BY DEF InTimeInv
  <2>3. QED
    BY <1>1, <1>2, <2>1, <2>2, PushKeepsMessages
<1>6. /\ \A n : InUse(n)' <=> InUse(n)
      /\ \A x : HasEntry(x)' <=> HasEntry(x)
  <2>1. \A n : InUse(n)' <=> InUse(n)
    BY <1>1 DEF InUse
  <2>2. QED
    BY <1>1, <2>1 DEF HasEntry
<1>7. Known' \subseteq Known
  BY <1>1 DEF Known
<1>8. EntryOfClient'
  BY <1>1, <1>6 DEF InTimeInv, EntryOfClient, HasEntry, InUse
<1>9. EntryOfAnswerer'
  BY <1>1, <1>6 DEF InTimeInv, EntryOfAnswerer, HasEntry, InUse
<1>10. OneWait'
  BY <1>1 DEF InTimeInv, OneWait, WaitsFor, ToSignal
<1>11. EntriesHeld'
  <2>1. \A x : ~NoAnswer(x) => ~NoAnswer(x)'
    BY <1>5
  <2>2. \A n \in Node : ~NoAnswer(data[n]) => ~NoAnswer(data[n])'
    BY <1>1, <2>1 DEF NoAnswer
  <2>3. QED
    BY <1>1, <1>6, <2>2 DEF InTimeInv, EntriesHeld
<1>12. MessagesHaveEntries'
  BY <1>1, <1>2, <1>5, <1>6 DEF InTimeInv, MessagesHaveEntries
<1>13. KindsMatch'
  <2>1. \A x \in Known : x # NoReq => m.id # x.id
    BY <1>2, <1>3
  <2>2. QED
    BY <1>5, <1>7, <2>1 DEF InTimeInv, KindsMatch
<1>14. QED
  BY <1>1, <1>8, <1>9, <1>10, <1>11, <1>12, <1>13 DEF InTimeInv, Held

(* Every step keeps the invariant, when requests are answered in time.     *)
LEMMA NextInTime ==
  ASSUME InTime, InTimeInv, Next
  PROVE  InTimeInv'
<1>1. TableInv'
  <2>1. TableInv /\ tpc # "push"
    BY DEF InTimeInv
  <2>2. ASSUME cpc = "idle", unused # <<>>, NEW a \in Answerer, apc[a] \in Handling
        PROVE  anode[a] # Taken
    <3>1. anode[a] \in Node /\ InUse(anode[a])
      BY <2>2, NodesAtWork
    <3>2. unused \in Seq(Node)
      BY DEF InTimeInv, TableInv, TypeOK
    <3>3. Len(unused) \in 1..Len(unused) /\ Taken = unused[Len(unused)]
      BY <2>2, <3>2 DEF Taken
    <3>4. QED
      BY <3>1, <3>3 DEF InUse
  <2>3. QED
    BY <2>1, <2>2, NextTable
<1>2. Held'
  <2>1. CASE Run
    BY <2>1, ClientHolds, SendHolds, ClientFreeHolds DEF Run
  <2>2. CASE Serve
    BY <2>2, ServeHolds
  <2>3. CASE \E k \in Kinds : AddSent(k)
    BY <2>3, AddHolds
  <2>4. ASSUME NEW a \in Answerer, AnswerStep(a)
        PROVE  Held'
    BY <2>4, AnswererHolds, PushHolds, AnswererFreeHolds, SignalHolds DEF AnswerStep, PushFallback
  <2>5. CASE Local
    <3>1. "local" \in Answerer
      BY DEF Answerer
    <3>2. QED
      BY <2>4, <2>5, <3>1, TakeHolds, AnswererHolds DEF Local
  <2>6. CASE Router
    <3>1. "remote" \in Answerer
      BY DEF Answerer
    <3>2. QED
      BY <2>4, <2>6, <3>1, TakeHolds DEF Router
  <2>7. ~Trigger /\ ~Pass
    BY DEF InTimeInv, InTime, Trigger, TriggerFind, TriggerFree, TriggerPush, Pass
  <2>8. CASE TimeUp
    BY <2>8, ClientHolds
  <2>9. CASE PushEvent
    BY <2>9, EventHolds
  <2>10. QED
    BY <2>1, <2>2, <2>3, <2>5, <2>6, <2>7, <2>8, <2>9 DEF Next
<1>3. QED
  BY <1>1, <1>2 DEF Held, InTimeInv

(* So does a step that does nothing.                                       *)
LEMMA StutterInTime ==
  ASSUME InTimeInv, UNCHANGED vars
  PROVE  InTimeInv'
<1>1. UNCHANGED <<data, unused, last_id, passed, received, requests, network, fifo, cpc, creq,
                  cnode, apc, areq, anode, armed, tpc, treq, tnode, fault>>
  BY DEF vars, listVars, queueVars, clientVars, answererVars, triggerVars
<1>2. Known' \subseteq Known
  BY <1>1 DEF Known
<1>3. /\ \A n : InUse(n)' <=> InUse(n)
      /\ \A r : HasEntry(r)' <=> HasEntry(r)
      /\ \A r : NoAnswer(r)' <=> NoAnswer(r)
      /\ MessagesHaveEntries' /\ KindsMatch'
  BY <1>1, <1>2, SameTable DEF InTimeInv, listVars
<1>4. EntryOfClient' /\ EntryOfAnswerer' /\ OneWait' /\ EntriesHeld'
  BY <1>1 DEF InTimeInv, EntryOfClient, EntryOfAnswerer, OneWait, EntriesHeld, HasEntry, InUse,
              NoAnswer, WaitsFor, ToSignal
<1>5. TableInv'
  BY StutterTable DEF InTimeInv
<1>6. QED
  BY <1>1, <1>3, <1>4, <1>5 DEF InTimeInv

(* Nothing is wrong at first.                                              *)
LEMMA InitInTime ==
  ASSUME Init
  PROVE  InTimeInv
<1>1. TableInv /\ \A n \in Node : ~InUse(n)
  BY InitTable
<1>2. /\ requests = <<>> /\ network = {} /\ fifo = <<>> /\ cpc = "idle" /\ passed = {}
      /\ tpc = "idle" /\ fault = "none" /\ Len(fifo) = 0 /\ Len(requests) = 0
      /\ \A a \in Answerer : apc[a] = "idle"
      /\ "remote" \in Answerer
  BY DEF Init, Answerer
<1>3. EntryOfClient /\ EntryOfAnswerer /\ OneWait /\ EntriesHeld
  BY <1>1, <1>2 DEF EntryOfClient, EntryOfAnswerer, OneWait, EntriesHeld, ToSignal, Handling
<1>4. MessagesHaveEntries /\ KindsMatch
  BY <1>2 DEF MessagesHaveEntries, KindsMatch
<1>5. QED
  BY <1>1, <1>2, <1>3, <1>4 DEF InTimeInv
-----------------------------------------------------------------------------
(* The invariant holds in every state when requests are answered in time.  *)
LEMMA InTimeHolds == InTime => (Spec => []InTimeInv)
<1> SUFFICES ASSUME InTime PROVE Spec => []InTimeInv
  OBVIOUS
<1>1. Init => InTimeInv
  BY InitInTime
<1>2. InTimeInv /\ [Next]_vars => InTimeInv'
  BY NextInTime, StutterInTime
<1>3. QED
  BY <1>1, <1>2, PTL DEF Spec

(* What the invariant says of the table's entries.                         *)
LEMMA InTimeInvGives == InTimeInv => TypeOK /\ FreedOnce /\ EntriesAccountedFor
<1> SUFFICES ASSUME InTimeInv PROVE TypeOK /\ FreedOnce /\ EntriesAccountedFor
  OBVIOUS
<1>1. TypeOK
  BY DEF InTimeInv, TableInv
<1>2. FreedOnce
  <2>1. fault = "none" /\ cpc # "free_sent"
    BY DEF InTimeInv, EntryOfClient
  <2>2. ASSUME NEW a \in Answerer, apc[a] = "free"
        PROVE  InUse(anode[a]) /\ data[anode[a]] = areq[a]
    BY <2>2 DEF InTimeInv, EntryOfAnswerer, TableInv, AnswererAt, Handling
  <2>3. QED
    BY <2>1, <2>2 DEF FreedOnce
<1>3. EntriesAccountedFor
  <2>1. \A r : ~NoAnswer(r) => \E i \in 1..Len(fifo) : AnswerQueued(i, r)
    BY DEF NoAnswer, AnswerQueued
  <2>2. QED
    BY <2>1 DEF InTimeInv, EntriesHeld, EntriesAccountedFor
<1>4. QED
  BY <1>1, <1>2, <1>3

(* The table of requests is well formed as long as no date passes: every   *)
(* entry has one request, every pool is within its size.                   *)
THEOREM InTimeTyped == InTime => (Spec => []TypeOK)
BY InTimeInvGives, InTimeHolds, PTL

(* No entry is freed twice and no assertion of the table fails, when every *)
(* request is answered before its date: the thread that frees an entry,    *)
(* the server's or the router's, holds the entry of the request it answers.*)
THEOREM InTimeFreedOnce == InTime => (Spec => []FreedOnce)
BY InTimeInvGives, InTimeHolds, PTL

(* No entry is lost, when every request is answered before its date: one   *)
(* in use is that of a request that somebody still has to end.             *)
THEOREM InTimeAccounted == InTime => (Spec => []EntriesAccountedFor)
BY InTimeInvGives, InTimeHolds, PTL

-----------------------------------------------------------------------------
(* Where no date passes, the trigger has nothing to do.                    *)
StillInv == TableInv /\ (~Expiry => passed = {} /\ tpc = "idle")

(* Where the answering threads preempt the client's, none is handling an   *)
(* answer when the client takes an entry for a request: the step keeps the *)
(* table.                                                                  *)
LEMMA NextStill ==
  ASSUME Urgent, StillInv, Next
  PROVE  StillInv'
<1>1. TableInv'
  <2>1. TableInv /\ (Expiry \/ tpc # "push")
    BY DEF StillInv
  <2>2. ASSUME Scheduled, cpc = "idle" PROVE \A a \in Answerer : apc[a] \notin Handling
    BY <2>2 DEF Scheduled, WaitResponseFree, Handling
  <2>3. QED
    BY <2>1, <2>2, NextTable
<1>2. ASSUME ~Expiry PROVE passed' = {} /\ tpc' = "idle"
  <2>1. passed = {} /\ tpc = "idle"
    BY <1>2 DEF StillInv
  <2>2. ~Trigger /\ ~Pass
    BY <1>2, <2>1 DEF Trigger, TriggerFind, TriggerFree, TriggerPush, Pass
  <2>3. UNCHANGED <<passed, tpc>>
    <3>1. CASE Run \/ TimeUp
      BY <3>1 DEF Run, AddReceived, Send, Undo, Wait, TimeUp, TimedOut, ClientFree, ReturnOK,
                  triggerVars
    <3>2. CASE Serve \/ PushEvent
      BY <3>2 DEF Serve, PushEvent, triggerVars
    <3>3. ASSUME NEW k \in Kinds, AddSent(k) PROVE passed' = passed /\ tpc' = tpc
      BY <3>3, Zenon DEF AddSent
    <3>4. CASE \E a \in Answerer : AnswerStep(a)
      BY <3>4 DEF AnswerStep, FindSent, CheckTimeout, PushAnswer, PushFallback, AnswererFree,
                  Signal, triggerVars
    <3>5. CASE TakeRequest \/ TakeAnswer \/ FreeReceived
      BY <3>5 DEF TakeRequest, TakeAnswer, FreeReceived, triggerVars
    <3>6. QED
      BY <2>2, <3>1, <3>2, <3>3, <3>4, <3>5 DEF Next, Local, Router, Answerer
  <2>4. QED
    BY <2>1, <2>3
<1>3. QED
  BY <1>1, <1>2 DEF StillInv

-----------------------------------------------------------------------------
(* What an urgent thread signals is the client's last request: the entry   *)
(* of a synchronous request is in use until its client, or the thread that *)
(* answers it, has freed it, and the client sends nothing else before.     *)
SyncEntry ==
  \A n \in Node : InUse(n) /\ data[n].sync =>
    /\ data[n] = creq
    /\ \/ cpc \in {"add_received", "send", "undo", "wait", "waiting", "timed_out"}
       \/ cpc \in {"undo_free", "free_sent"} /\ cnode = n
       \/ apc["remote"] = "free" /\ anode["remote"] = n

Signalling(a) ==
  apc[a] \in {"check", "push", "fallback", "signal"} \/ (a = "local" /\ apc[a] = "free")
SignalsClient == \A a \in Answerer : Signalling(a) /\ areq[a].sync => areq[a] = creq
LocalFreed == apc["local"] = "signal" => ~InUse(anode["local"])

Urged == SyncEntry /\ SignalsClient /\ LocalFreed
UrgentInv == StillInv /\ (fault = "none" => Urged)

(* An entry is found by the request it is of.                              *)
LEMMA FoundIs ==
  ASSUME TableInv, NEW n \in Node, InUse(n), NEW r \in Known, data[n] = r
  PROVE  Find(r) = {n} /\ Found(r) = n
<1>1. r # NoReq
  BY DEF TableInv, EntriesDiffer
<1>2. ASSUME NEW m \in Node, InUse(m), data[m].id = r.id PROVE m = n
  <2>1. data[m] \in Known
    BY DEF Known
  <2>2. data[m] = data[n]
    BY <1>2, <2>1 DEF TableInv, Identified
  <2>3. QED
    BY <1>1, <2>2 DEF TableInv, EntriesDiffer
<1>3. Find(r) = {n}
  BY <1>2 DEF Find
<1>4. QED
  BY <1>3 DEF Found

(* The client's steps that neither take nor free an entry.                 *)
LEMMA UrgedClient ==
  ASSUME ~SpuriousWakeups, TableInv, Urged,
         AddReceived \/ Send \/ Undo \/ Wait \/ TimeUp \/ TimedOut \/ ReturnOK
  PROVE  Urged'
<1>1. UNCHANGED <<data, unused, creq, apc, areq, anode>>
  BY DEF AddReceived, Send, Undo, Wait, TimeUp, TimedOut, ReturnOK, listVars, answererVars
<1>2. \A n : InUse(n)' <=> InUse(n)
  BY <1>1 DEF InUse
<1>3. SignalsClient' /\ LocalFreed'
  BY <1>1 DEF Urged, SignalsClient, Signalling, LocalFreed, InUse
<1>4. SyncEntry'
  <2> SUFFICES ASSUME NEW n \in Node, InUse(n), data[n].sync
               PROVE  /\ data[n] = creq
                      /\ \/ cpc' \in {"add_received", "send", "undo", "wait", "waiting", "timed_out"}
                         \/ cpc' \in {"undo_free", "free_sent"} /\ cnode' = n
                         \/ apc["remote"] = "free" /\ anode["remote"] = n
    BY <1>1, <1>2 DEF SyncEntry
  <2>1. /\ data[n] = creq /\ creq.sync
        /\ \/ cpc \in {"add_received", "send", "undo", "wait", "waiting", "timed_out"}
           \/ cpc \in {"undo_free", "free_sent"} /\ cnode = n
           \/ apc["remote"] = "free" /\ anode["remote"] = n
    BY DEF Urged, SyncEntry
  <2>2. Find(creq) = {n} /\ Found(creq) = n
    BY <2>1, FoundIs DEF Known
  <2>3. CASE AddReceived \/ Wait \/ TimeUp \/ ReturnOK
    BY <2>1, <2>3 DEF AddReceived, Wait, TimeUp, ReturnOK, Client
  <2>4. CASE Send
    BY <2>1, <2>4 DEF Send, Client
  <2>5. CASE Undo \/ TimedOut
    BY <2>1, <2>2, <2>5 DEF Undo, TimedOut, Client
  <2>6. QED
    BY <2>3, <2>4, <2>5
<1>5. QED
  BY <1>3, <1>4 DEF Urged

(* A request is added when no thread is answering one.                     *)
LEMMA UrgedAdd ==
  ASSUME Urgent, TableInv, Urged, Scheduled, NEW k \in Kinds, AddSent(k), unused # <<>>
  PROVE  Urged'
<1>1. /\ cpc = "idle" /\ creq' = Asked(k) /\ UNCHANGED <<apc, areq, anode>>
      /\ cpc' = IF k.server = "local" THEN "add_received" ELSE "send"
      /\ Taken \in Node /\ \A x : InUse(x)' <=> InUse(x) \/ x = Taken
      /\ data'[Taken] = Asked(k) /\ \A x \in Node \ {Taken} : data'[x] = data[x]
  BY AddTakes DEF answererVars
<1>2. \A a \in Answerer : apc[a] = "idle"
  BY <1>1 DEF Scheduled, WaitResponseFree
<1>3. \A n \in Node : InUse(n) => ~data[n].sync
  BY <1>1, <1>2 DEF Urged, SyncEntry, Answerer
<1>4. SyncEntry'
  <2>1. \A n \in Node : InUse(n)' /\ data'[n].sync => n = Taken
    BY <1>1, <1>3
  <2>2. QED
    BY <1>1, <2>1 DEF SyncEntry
<1>5. SignalsClient' /\ LocalFreed'
  BY <1>1, <1>2 DEF SignalsClient, Signalling, LocalFreed, Answerer
<1>6. QED
  BY <1>4, <1>5 DEF Urged

(* The types of the steps and of the nodes at hand.                        *)
LEMMA TableTypes ==
  ASSUME TableInv
  PROVE  /\ apc \in [Answerer -> Steps] /\ anode \in [Answerer -> Node \cup {NoNode}]
         /\ cnode \in Node \cup {NoNode} /\ tnode \in Node \cup {NoNode}
<1>1. apc \in [Answerer -> Steps]
  BY DEF TableInv, TypeOK, Steps
<1>2. anode \in [Answerer -> Node \cup {NoNode}]
  BY DEF TableInv, TypeOK
<1>3. cnode \in Node \cup {NoNode}
  BY DEF TableInv, TypeOK
<1>4. tnode \in Node \cup {NoNode}
  BY DEF TableInv, TypeOK
<1>5. QED
  BY <1>1, <1>2, <1>3, <1>4

(* The freeing of an entry.                                                *)
LEMMA UrgedFree ==
  ASSUME TableInv, Urged, fault' = "none",
         ClientFree \/ TriggerFree \/ \E a \in Answerer : AnswererFree(a)
  PROVE  Urged'
<1>1. /\ apc \in [Answerer -> Steps] /\ anode \in [Answerer -> Node \cup {NoNode}]
      /\ cnode \in Node \cup {NoNode} /\ tnode \in Node \cup {NoNode}
  BY TableTypes
<1>2. PICK n \in Node \cup {NoNode} :
        /\ FreeSent(n) /\ UNCHANGED <<creq, areq, anode, cnode>>
        /\ \/ n = cnode /\ cpc \in {"free_sent", "undo_free"} /\ cpc' = "idle" /\ apc' = apc
           \/ cpc' = cpc /\ apc' = apc
           \/ /\ cpc' = cpc
              /\ \E a \in Answerer : /\ n = anode[a] /\ apc[a] = "free"
                                     /\ apc' = [apc EXCEPT ![a] = AfterFree(a)]
  <2>1. CASE ClientFree
    BY <1>1, <2>1 DEF ClientFree, Client, answererVars
  <2>2. CASE TriggerFree
    BY <1>1, <2>2 DEF TriggerFree, clientVars, answererVars
  <2>3. ASSUME NEW a \in Answerer, AnswererFree(a)
        PROVE  /\ FreeSent(anode[a]) /\ UNCHANGED <<creq, areq, anode, cnode, cpc>>
               /\ apc[a] = "free" /\ apc' = [apc EXCEPT ![a] = AfterFree(a)]
    BY <2>3 DEF AnswererFree, Answer, clientVars
  <2>4. QED
    BY <1>1, <2>1, <2>2, <2>3
<1>3. /\ UNCHANGED data /\ n \in Node
      /\ \A x \in Node : InUse(x)' <=> InUse(x) /\ x # n
  BY <1>2, FreeSentKeeps
<1>4. SignalsClient'
  <2>1. \A a \in Answerer : Signalling(a)' => Signalling(a)
    BY <1>1, <1>2 DEF Signalling, AfterFree
  <2>2. QED
    BY <1>2, <2>1 DEF Urged, SignalsClient
<1>5. LocalFreed'
  <2>1. anode["local"] \in Node \cup {NoNode} /\ anode' = anode
    BY <1>1, <1>2 DEF Answerer
  <2>2. apc'["local"] = "signal" => apc["local"] = "signal" \/ n = anode["local"]
    BY <1>1, <1>2 DEF Answerer, AfterFree
  <2>3. anode["local"] \in Node \/ apc["local"] \notin Handling
    BY DEF TableInv, AnswererAt, Answerer
  <2>4. "signal" \in Handling
    BY DEF Handling
  <2>5. QED
    BY <1>3, <2>1, <2>2, <2>3, <2>4 DEF Urged, LocalFreed, InUse
<1>6. SyncEntry'
  <2>1. ASSUME NEW x \in Node, InUse(x)', data'[x].sync
        PROVE  /\ data[x] = creq
               /\ \/ cpc' \in {"add_received", "send", "undo", "wait", "waiting", "timed_out"}
                  \/ cpc' \in {"undo_free", "free_sent"} /\ cnode' = x
                  \/ apc'["remote"] = "free" /\ anode'["remote"] = x
    <3>1. InUse(x) /\ x # n /\ data[x].sync
      BY <1>3, <2>1
    <3>2. /\ data[x] = creq
          /\ \/ cpc \in {"add_received", "send", "undo", "wait", "waiting", "timed_out"}
             \/ cpc \in {"undo_free", "free_sent"} /\ cnode = x
             \/ apc["remote"] = "free" /\ anode["remote"] = x
      BY <3>1 DEF Urged, SyncEntry
    <3>3. cpc' = cpc \/ (n = cnode /\ cpc \in {"free_sent", "undo_free"})
      BY <1>2
    <3>4. apc["remote"] = "free" => apc'["remote"] = "free" \/ n = anode["remote"]
      BY <1>1, <1>2 DEF Answerer
    <3>5. QED
      BY <1>2, <3>1, <3>2, <3>3, <3>4
  <2>2. QED
    BY <1>2, <1>3, <2>1 DEF SyncEntry
<1>7. QED
  BY <1>4, <1>5, <1>6 DEF Urged
(* The container takes an asynchronous entry only.                         *)
LEMMA UrgedServe ==
  ASSUME TableInv, Urged, Serve
  PROVE  Urged'
<1>1. /\ UNCHANGED <<data, cpc, creq, cnode, apc, areq, anode>>
      /\ \/ unused' = unused
         \/ \E n \in Node : InUse(n) /\ unused' = Append(unused, n)
  BY DEF Serve, clientVars, answererVars
<1>2. \A x \in Node : InUse(x)' => InUse(x)
  <2>1. CASE unused' = unused
    BY <2>1 DEF InUse
  <2>2. ASSUME NEW n \in Node, InUse(n), unused' = Append(unused, n)
        PROVE  \A x \in Node : InUse(x)' => InUse(x)
    <3>1. unused \in Seq(Node) /\ EntriesDiffer
      BY DEF TableInv, TypeOK
    <3>2. QED
      BY <1>1, <2>2, <3>1, OneFreed
  <2>3. QED
    BY <1>1, <2>1, <2>2
<1>3. SyncEntry' /\ SignalsClient'
  BY <1>1, <1>2 DEF Urged, SyncEntry, SignalsClient, Signalling
<1>4. LocalFreed'
  <2>1. apc["local"] = "signal" => anode["local"] \in Node
    BY DEF TableInv, AnswererAt, Handling, Answerer
  <2>2. QED
    BY <1>1, <1>2, <2>1 DEF Urged, LocalFreed, InUse
<1>5. QED
  BY <1>3, <1>4 DEF Urged

(* An answerer finds the entry of the client's last request.               *)
LEMMA UrgedAnswer ==
  ASSUME TableInv, Urged, NEW a \in Answerer,
         FindSent(a) \/ CheckTimeout(a) \/ PushAnswer(a) \/ (PushFallback(a) /\ apc[a] = "fallback")
  PROVE  Urged'
<1>1. PICK s :
        /\ UNCHANGED <<listVars, clientVars, areq>>
        /\ apc' = [apc EXCEPT ![a] = s]
        /\ \/ /\ apc[a] = "find" /\ anode' = [anode EXCEPT ![a] = Found(areq[a])]
              /\ s = IF Find(areq[a]) = {} THEN GiveUp(a) ELSE "check"
           \/ /\ apc[a] \in {"check", "push", "fallback"} /\ anode' = anode
              /\ s \in {"push", "fallback", GiveUp(a)} \/ (a = "local" /\ s = "free")
                   \/ (a = "remote" /\ s \in {"free", "signal"})
  <2>1. CASE FindSent(a)
    BY <2>1 DEF FindSent, Answer
  <2>2. CASE CheckTimeout(a)
    BY <2>2 DEF CheckTimeout, Answer, Answerer
  <2>3. \A stored : AfterPush(a, stored) = GiveUp(a) \/ (a = "local" /\ AfterPush(a, stored) = "free")
                      \/ (a = "remote" /\ AfterPush(a, stored) \in {"free", "signal"})
    BY DEF AfterPush, Answerer
  <2>4. CASE PushAnswer(a)
    BY <2>3, <2>4 DEF PushAnswer, Answer
  <2>5. CASE PushFallback(a)
    BY <2>3, <2>5 DEF PushFallback, Answer
  <2>6. QED
    BY <2>1, <2>2, <2>4, <2>5
<1>2. UNCHANGED <<data, unused, cpc, creq, cnode, areq>>
  BY <1>1 DEF listVars, clientVars
<1>3. \A n : InUse(n)' <=> InUse(n)
  BY <1>2 DEF InUse
<1>4. /\ apc'[a] = s /\ \A b \in Answerer \ {a} : apc'[b] = apc[b] /\ anode'[b] = anode[b]
      /\ GiveUp(a) \in {"done", "idle"}
  BY <1>1, TableTypes DEF GiveUp
<1>5. SyncEntry'
  <2>1. apc["remote"] = "free" => apc'["remote"] = "free" /\ anode'["remote"] = anode["remote"]
    BY <1>1, <1>4 DEF Answerer
  <2>2. QED
    BY <1>2, <1>3, <2>1 DEF Urged, SyncEntry
<1>6. SignalsClient'
  <2>1. ASSUME Signalling(a)', areq[a].sync PROVE areq[a] = creq
    <3>1. CASE apc[a] = "find"
      <4>1. Find(areq[a]) # {}
        BY <1>1, <1>4, <2>1, <3>1 DEF Signalling
      <4>2. PICK n \in Node : InUse(n) /\ data[n].id = areq[a].id
        BY <4>1 DEF Find
      <4>3. data[n] = areq[a]
        BY <4>2 DEF TableInv, Identified, Known
      <4>4. QED
        BY <2>1, <4>2, <4>3 DEF Urged, SyncEntry
    <3>2. CASE apc[a] \in {"check", "push", "fallback"}
      BY <2>1, <3>2 DEF Urged, SignalsClient, Signalling
    <3>3. QED
      BY <1>1, <3>1, <3>2
  <2>2. \A b \in Answerer \ {a} : Signalling(b)' => Signalling(b)
    BY <1>4 DEF Signalling
  <2>3. QED
    BY <1>2, <2>1, <2>2 DEF Urged, SignalsClient
<1>7. LocalFreed'
  <2>1. apc'["local"] = "signal" => apc["local"] = "signal" /\ anode'["local"] = anode["local"]
    BY <1>1, <1>4 DEF Answerer
  <2>2. QED
    BY <1>2, <2>1 DEF Urged, LocalFreed, InUse
<1>8. QED
  BY <1>5, <1>6, <1>7 DEF Urged

(* The signal: the client's entry is freed, or the router is about to.     *)
LEMMA UrgedSignal ==
  ASSUME TableInv, Urged, NEW a \in Answerer, Signal(a)
  PROVE  Urged'
<1>1. /\ apc[a] = "signal"
      /\ cpc' = IF cpc = "waiting" THEN "woken" ELSE cpc
      /\ apc' = [apc EXCEPT ![a] = IF a = "local" THEN "done" ELSE "free"]
      /\ UNCHANGED <<data, unused, creq, cnode, areq, anode>>
  BY DEF Signal, Answer, Client, listVars
<1>2. /\ apc'[a] = IF a = "local" THEN "done" ELSE "free"
      /\ \A b \in Answerer \ {a} : apc'[b] = apc[b]
  BY <1>1, TableTypes
<1>3. \A n : InUse(n)' <=> InUse(n)
  BY <1>1 DEF InUse
<1>4. areq[a].sync /\ areq[a] = creq /\ anode[a] \in Node /\ data[anode[a]] = creq /\ creq # NoReq
  <2>1. areq[a].sync /\ anode[a] \in Node /\ data[anode[a]] = areq[a]
    BY <1>1 DEF TableInv, AnswererAt, Handling
  <2>2. areq[a] = creq /\ areq[a] # NoReq
    BY <1>1, <2>1 DEF Urged, SignalsClient, Signalling, TableInv, BeingAnswered
  <2>3. QED
    BY <2>1, <2>2
<1>5. SyncEntry'
  <2> SUFFICES ASSUME NEW n \in Node, InUse(n), data[n].sync
               PROVE  /\ data[n] = creq
                      /\ \/ cpc' \in {"add_received", "send", "undo", "wait", "waiting", "timed_out"}
                         \/ cpc' \in {"undo_free", "free_sent"} /\ cnode = n
                         \/ apc'["remote"] = "free" /\ anode["remote"] = n
    BY <1>1, <1>3 DEF SyncEntry
  <2>1. data[n] = creq
    BY DEF Urged, SyncEntry
  <2>2. n = anode[a]
    BY <1>4, <2>1 DEF TableInv, EntriesDiffer
  <2>3. a = "remote"
    BY <1>1, <2>2 DEF Urged, LocalFreed, Answerer
  <2>4. QED
    BY <1>2, <2>1, <2>2, <2>3
<1>6. SignalsClient' /\ LocalFreed'
  <2>1. \A b \in Answerer : Signalling(b)' => Signalling(b)
    BY <1>1, <1>2 DEF Signalling
  <2>2. apc'["local"] = "signal" => apc["local"] = "signal"
    BY <1>1, <1>2 DEF Answerer
  <2>3. QED
    BY <1>1, <2>1, <2>2 DEF Urged, SignalsClient, LocalFreed, InUse
<1>7. QED
  BY <1>5, <1>6 DEF Urged

(* What concerns no entry, and no thread that is answering.                *)
LEMMA UrgedOther ==
  ASSUME TableInv, Urged,
         \/ TakeRequest \/ TakeAnswer \/ FreeReceived \/ Pass \/ TriggerFind \/ TriggerPush
         \/ PushEvent \/ UNCHANGED vars
  PROVE  Urged'
<1>1. /\ UNCHANGED <<listVars, clientVars, anode>>
      /\ \/ UNCHANGED <<apc, areq>>
         \/ \E a \in Answerer : \E s, r :
              /\ apc[a] \in {"idle", "done"} /\ s \in {"idle", "find"}
              /\ apc' = [apc EXCEPT ![a] = s] /\ areq' = [areq EXCEPT ![a] = r]
  <2>1. CASE TakeRequest
    BY <2>1 DEF TakeRequest, Answer, Answerer
  <2>2. CASE TakeAnswer
    BY <2>2 DEF TakeAnswer, Answer, Answerer
  <2>3. CASE FreeReceived
    <3>1. areq' = [areq EXCEPT !["local"] = areq["local"]]
      BY <2>3 DEF FreeReceived, TableInv, TypeOK
    <3>2. QED
      BY <2>3, <3>1 DEF FreeReceived, Answer, Answerer
  <2>4. CASE Pass \/ TriggerFind \/ TriggerPush \/ PushEvent \/ UNCHANGED vars
    BY <2>4 DEF Pass, TriggerFind, TriggerPush, PushEvent, vars, answererVars
  <2>5. QED
    BY <2>1, <2>2, <2>3, <2>4
<1>2. UNCHANGED <<data, unused, cpc, creq, cnode, anode>>
  BY <1>1 DEF listVars, clientVars
<1>3. \A n : InUse(n)' <=> InUse(n)
  BY <1>2 DEF InUse
<1>4. \A a \in Answerer :
        \/ apc'[a] = apc[a] /\ areq'[a] = areq[a]
        \/ apc[a] \in {"idle", "done"} /\ apc'[a] \in {"idle", "find"}
  <2>1. CASE UNCHANGED <<apc, areq>>
    BY <2>1
  <2>2. ASSUME NEW b \in Answerer, NEW s \in {"idle", "find"}, NEW r, apc[b] \in {"idle", "done"},
               apc' = [apc EXCEPT ![b] = s], areq' = [areq EXCEPT ![b] = r], NEW a \in Answerer
        PROVE  \/ apc'[a] = apc[a] /\ areq'[a] = areq[a]
               \/ apc[a] \in {"idle", "done"} /\ apc'[a] \in {"idle", "find"}
    <3>1. areq \in [Answerer -> Request \cup {NoReq}]
      BY DEF TableInv, TypeOK
    <3>2. QED
      BY <2>2, <3>1, TableTypes
  <2>3. QED
    BY <1>1, <2>1, <2>2
<1>5. SyncEntry'
  <2>1. apc["remote"] = "free" => apc'["remote"] = "free"
    BY <1>4 DEF Answerer
  <2>2. QED
    BY <1>2, <1>3, <2>1 DEF Urged, SyncEntry
<1>6. SignalsClient'
  <2>1. \A a \in Answerer : Signalling(a)' => Signalling(a) /\ areq'[a] = areq[a]
    BY <1>4 DEF Signalling
  <2>2. QED
    BY <1>2, <2>1 DEF Urged, SignalsClient
<1>7. LocalFreed'
  <2>1. apc'["local"] = "signal" => apc["local"] = "signal"
    BY <1>4 DEF Answerer
  <2>2. QED
    BY <1>2, <2>1 DEF Urged, LocalFreed, InUse
<1>8. QED
  BY <1>5, <1>6, <1>7 DEF Urged

(* Every step keeps the invariant of the urgent threads.                   *)
LEMMA NextUrgent ==
  ASSUME Urgent, ~SpuriousWakeups, UrgentInv, Next
  PROVE  UrgentInv'
<1>1. StillInv /\ TableInv /\ Urged
  BY DEF UrgentInv, StillInv, Next
<1>2. StillInv'
  BY <1>1, NextStill
<1>3. ASSUME fault' = "none"
      PROVE  Urged'
  <2>1. CASE Scheduled /\ Run
    BY <1>1, <1>3, <2>1, UrgedClient, UrgedFree DEF Run
  <2>2. CASE Serve
    BY <1>1, <2>2, UrgedServe
  <2>3. ASSUME Scheduled, NEW k \in Kinds, AddSent(k)
        PROVE  Urged'
    <3>1. unused # <<>>
      BY <1>3, <2>3, Zenon DEF AddSent
    <3>2. QED
      BY <1>1, <2>3, <3>1, UrgedAdd
  <2>4. ASSUME NEW a \in Answerer, AnswerStep(a)
        PROVE  Urged'
    BY <1>1, <1>3, <2>4, UrgedAnswer, UrgedFree, UrgedSignal DEF AnswerStep, PushFallback
  <2>5. CASE Local \/ Router
    <3>1. "local" \in Answerer /\ "remote" \in Answerer
      BY DEF Answerer
    <3>2. QED
      BY <1>1, <2>4, <2>5, <3>1, UrgedOther DEF Local, Router
  <2>6. CASE Trigger \/ TimeUp \/ Pass \/ PushEvent
    BY <1>1, <1>3, <2>6, UrgedOther, UrgedFree, UrgedClient DEF Trigger
  <2>7. QED
    BY <2>1, <2>2, <2>3, <2>5, <2>6 DEF Next
<1>4. QED
  BY <1>2, <1>3 DEF UrgentInv

(* It holds at first.                                                      *)
LEMMA InitUrgent == Init => UrgentInv
<1> SUFFICES ASSUME Init PROVE UrgentInv
  OBVIOUS
<1>1. TableInv /\ (\A n \in Node : ~InUse(n)) /\ passed = {} /\ tpc = "idle"
  BY InitTable DEF Init
<1>2. \A a \in Answerer : apc[a] = "idle"
  BY DEF Init
<1>3. Urged
  BY <1>1, <1>2 DEF Urged, SyncEntry, SignalsClient, Signalling, LocalFreed, Answerer
<1>4. QED
  BY <1>1, <1>3 DEF UrgentInv, StillInv

(* A step that does nothing keeps it.                                      *)
LEMMA StutterUrgent ==
  ASSUME UrgentInv, UNCHANGED vars
  PROVE  UrgentInv'
<1>1. StillInv'
  BY StutterTable DEF UrgentInv, StillInv, vars, triggerVars
<1>2. fault' = fault /\ (Urged => Urged')
  BY UrgedOther DEF UrgentInv, StillInv, vars
<1>3. QED
  BY <1>1, <1>2 DEF UrgentInv

(* So it holds in every state.                                             *)
LEMMA UrgentHolds == Urgent /\ ~SpuriousWakeups => (Spec => []UrgentInv)
<1> SUFFICES ASSUME Urgent, ~SpuriousWakeups PROVE Spec => []UrgentInv
  OBVIOUS
<1>1. Init => UrgentInv
  BY InitUrgent
<1>2. UrgentInv /\ [Next]_vars => UrgentInv'
  BY NextUrgent, StutterUrgent
<1>3. QED
  BY <1>1, <1>2, PTL DEF Spec

(* The table is well formed whatever dates pass and whatever ends a wait,  *)
(* when the answering threads have the higher priority.                    *)
THEOREM UrgentTyped == Urgent => (Spec => []TypeOK)
<1> SUFFICES ASSUME Urgent PROVE Spec => []TypeOK
  OBVIOUS
<1>1. Init => StillInv
  BY InitUrgent DEF UrgentInv
<1>2. StillInv /\ [Next]_vars => StillInv'
  <2>1. ASSUME StillInv, UNCHANGED vars PROVE StillInv'
    BY <2>1, StutterTable DEF StillInv, vars, triggerVars
  <2>2. QED
    BY <2>1, NextStill
<1>3. StillInv => TypeOK
  BY DEF StillInv, TableInv
<1>4. QED
  BY <1>1, <1>2, <1>3, PTL DEF Spec

-----------------------------------------------------------------------------
(* What is signalled is in the client's FIFO, when that has an element for *)
(* every request.                                                          *)
Signalled(a) == apc[a] = "signal" \/ (a = "local" /\ apc[a] = "free")
SignalsAnswers ==
  /\ \A a \in Answerer : Signalled(a) => ~NoAnswer(areq[a])
  /\ cpc = "woken" => ~NoAnswer(creq)

(* No other thread has a synchronous answer at hand.                       *)
LEMMA SyncHasRoom ==
  ASSUME TableInv, SignalsClient, AnswerPool >= MaxID,
         NEW a \in Answerer, apc[a] = "push", areq[a].sync
  PROVE  HasRoom("sync")
<1> DEFINE S == OfKind(fifo, "sync")
           T == (1..MaxID) \ {areq[a].id}
           g == [i \in S |-> fifo[i].id]
<1>1. /\ areq[a] \in Request /\ areq[a].id \in 1..MaxID /\ MaxID \in Nat /\ AnswerPool \in Nat
      /\ NoAnswer(areq[a])
  <2>1. areq[a] \in Request /\ Kind(areq[a]) = "sync" /\ "sync" \in SingleKinds
    BY AnswerAtHand DEF Kind, SingleKinds
  <2>2. NoAnswer(areq[a])
    BY <2>1, AnswerAtHand
  <2>3. QED
    BY <2>1, <2>2, RequestAssumption DEF Request, ID
<1>2. fifo \in Seq(Message)
  BY DEF TableInv, TypeOK, Message
<1>3. \A i \in S : i \in 1..Len(fifo) /\ fifo[i].kind = "sync" /\ fifo[i].id \in T
  <2> SUFFICES ASSUME NEW i \in S
               PROVE  i \in 1..Len(fifo) /\ fifo[i].kind = "sync" /\ fifo[i].id \in T
    OBVIOUS
  <2>1. i \in 1..Len(fifo) /\ fifo[i].kind = "sync"
    BY DEF OfKind
  <2>2. fifo[i] \in Message
    BY <1>2, <2>1
  <2>3. fifo[i].id \in 0..MaxID /\ fifo[i].id # 0 /\ fifo[i].id # areq[a].id
    BY <1>1, <2>1, <2>2 DEF Message, TableInv, Messages, NoAnswer
  <2>4. QED
    BY <1>1, <2>1, <2>3
<1>4. g \in Injection(S, T)
  <2>1. g \in [S -> T]
    BY <1>3
  <2>2. ASSUME NEW i \in S, NEW j \in S, g[i] = g[j] PROVE i = j
    BY <1>3, <2>2 DEF TableInv, Messages, Once, SingleKinds
  <2>3. QED
    BY <2>1, <2>2, Fun_IsInj
<1>5. IsFiniteSet(T) /\ Cardinality(T) = MaxID - 1
  <2>1. IsFiniteSet(1..MaxID) /\ Cardinality(1..MaxID) = MaxID
    BY <1>1, FS_Interval
  <2> DEFINE I == 1..MaxID
             x == areq[a].id
  <2>2. IsFiniteSet(I) /\ Cardinality(I) = MaxID /\ x \in I /\ T = I \ {x}
    BY <1>1, <2>1
  <2> HIDE DEF I, x, T
  <2>3. IsFiniteSet(I \ {x}) /\ Cardinality(I \ {x}) = Cardinality(I) - 1
    BY <2>2, FS_RemoveElement
  <2>4. QED
    BY <2>2, <2>3
<1>6. Cardinality(S) <= Cardinality(T) /\ Cardinality(S) \in Nat
  BY <1>2, <1>4, <1>5, KindsFinite, FS_Injection
<1>7. Falling("sync") = {}
  <2> SUFFICES ASSUME NEW b \in Answerer, apc[b] = "fallback", Kind(data[anode[b]]) = "sync"
               PROVE  FALSE
    BY DEF Falling
  <2>1. areq[b].sync /\ data[anode[b]] = areq[b]
    BY DEF TableInv, AnswererAt, Handling, Kind
  <2>2. areq[b] = creq /\ areq[a] = creq
    BY <2>1 DEF SignalsClient, Signalling
  <2>3. areq[b].server = b /\ areq[a].server = a
    BY DEF TableInv, BeingAnswered
  <2>4. QED
    BY <2>2, <2>3
<1>8. Count("sync") = Cardinality(S)
  <2>1. Count("sync") = Cardinality(S) + Cardinality(Falling("sync"))
    BY DEF Count, OfKind, Falling
  <2> HIDE DEF S
  <2>2. QED
    BY <1>6, <1>7, <2>1, FS_EmptySet
<1>9. PoolSize("sync") = AnswerPool
  BY DEF PoolSize
<1> HIDE DEF S, T
<1>10. QED
  BY <1>1, <1>5, <1>6, <1>8, <1>9 DEF HasRoom

(* A message that is added answers what was answered, and the request of   *)
(* its own.                                                                *)
LEMMA AnswersStay ==
  ASSUME fifo \in Seq(Message), NEW m \in Message,
         fifo' = fifo \/ fifo' = Append(fifo, m) \/ fifo' = <<m>> \o fifo
  PROVE  /\ \A r : ~NoAnswer(r) => ~NoAnswer(r)'
         /\ fifo' # fifo => \A r : r.id = m.id => ~NoAnswer(r)'
<1>1. CASE fifo' = fifo
  BY <1>1 DEF NoAnswer
<1>2. CASE fifo' = Append(fifo, m)
  <2>1. /\ Len(fifo') = Len(fifo) + 1 /\ Len(fifo) \in Nat /\ fifo'[Len(fifo) + 1] = m
        /\ \A i \in 1..Len(fifo) : fifo'[i] = fifo[i]
    BY <1>2
  <2>2. Len(fifo) + 1 \in 1..Len(fifo') /\ \A i \in 1..Len(fifo) : i \in 1..Len(fifo')
    BY <2>1
  <2>3. QED
    BY <2>1, <2>2 DEF NoAnswer
<1>3. CASE fifo' = <<m>> \o fifo
  <2>1. /\ Len(fifo') = Len(fifo) + 1 /\ Len(fifo) \in Nat /\ fifo'[1] = m
        /\ \A i \in 1..Len(fifo) : fifo'[i + 1] = fifo[i]
    BY <1>3
  <2>2. 1 \in 1..Len(fifo') /\ \A i \in 1..Len(fifo) : i + 1 \in 1..Len(fifo')
    BY <2>1
  <2>3. QED
    BY <2>1, <2>2 DEF NoAnswer
<1>4. QED
  BY <1>1, <1>2, <1>3

(* No step but the client's own takes a message from its FIFO.             *)
LEMMA NextAdds ==
  ASSUME TableInv,
         \/ Run \/ (\E k \in Kinds : AddSent(k)) \/ Local \/ Router \/ Trigger
         \/ TimeUp \/ Pass \/ PushEvent
  PROVE  \E m \in Message : fifo' = fifo \/ fifo' = Append(fifo, m) \/ fifo' = <<m>> \o fifo
<1> DEFINE Adds == \E m \in Message :
                     fifo' = fifo \/ fifo' = Append(fifo, m) \/ fifo' = <<m>> \o fifo
<1>1. [kind |-> "event", id |-> 0] \in Message
  <2>1. 0 \in 0..MaxID
    BY RequestAssumption
  <2>2. QED
    BY <2>1 DEF Message
<1>2. fifo' = fifo => Adds
  BY <1>1
<1>3. CASE Run \/ TimeUp
  <2>1. fifo' = fifo
    BY <1>3 DEF Run, AddReceived, Send, Undo, Wait, TimeUp, TimedOut, ClientFree, ReturnOK, queueVars
  <2>2. QED
    BY <1>2, <2>1
<1>4. ASSUME NEW k \in Kinds, AddSent(k) PROVE Adds
  <2>1. fifo' = fifo
    BY <1>4, Zenon DEF AddSent, queueVars
  <2>2. QED
    BY <1>2, <2>1
<1>5. ASSUME NEW a \in Answerer, AnswerStep(a) PROVE Adds
  <2>1. CASE PushAnswer(a) \/ (PushFallback(a) /\ apc[a] = "fallback")
    <3>1. apc[a] \in {"push", "fallback"}
      BY <2>1 DEF PushAnswer
    <3>2. Msg(Kind(areq[a]), areq[a]) \in Message /\ data[anode[a]] = areq[a]
      BY <3>1, AnswerAtHand
    <3>3. QED
      BY <1>2, <2>1, <3>2 DEF PushAnswer, PushFallback
  <2>2. CASE FindSent(a) \/ CheckTimeout(a) \/ AnswererFree(a) \/ Signal(a)
    <3>1. fifo' = fifo
      BY <2>2 DEF FindSent, CheckTimeout, AnswererFree, Signal, queueVars
    <3>2. QED
      BY <1>2, <3>1
  <2>3. QED
    BY <1>5, <2>1, <2>2 DEF AnswerStep, PushFallback
<1>6. CASE TakeRequest \/ TakeAnswer \/ FreeReceived \/ Pass \/ TriggerFind \/ TriggerFree
  <2>1. fifo' = fifo
    BY <1>6 DEF TakeRequest, TakeAnswer, FreeReceived, Pass, TriggerFind, TriggerFree, queueVars
  <2>2. QED
    BY <1>2, <2>1
<1>7. CASE TriggerPush
  <2>1. treq.id \in 0..MaxID
    <3>1. treq \in Request \cup {NoReq}
      BY DEF TableInv, TypeOK
    <3>2. QED
      BY <3>1, RequestAssumption DEF Request, NoReq, ID
  <2>2. Msg(Kind(treq), treq) \in Message
    BY <2>1 DEF Msg, Kind, Message
  <2>3. QED
    BY <1>2, <1>7, <2>2 DEF TriggerPush
<1>8. CASE PushEvent
  <2>1. Msg("event", NoReq) \in Message
    BY RequestAssumption DEF Msg, NoReq, Message
  <2>2. QED
    BY <1>8, <2>1 DEF PushEvent
<1>9. "local" \in Answerer /\ "remote" \in Answerer
  BY DEF Answerer
<1>10. QED
  BY <1>3, <1>4, <1>5, <1>6, <1>7, <1>8, <1>9 DEF Local, Router, Trigger

(* The signal keeps to its answer.                                         *)
LEMMA SignalsKept ==
  ASSUME ~SpuriousWakeups, TableInv, SignalsClient, SignalsAnswers, AnswerPool >= MaxID, Next,
         Serve /\ Scheduled => \A a \in Answerer : ~Signalled(a)
  PROVE  SignalsAnswers'
<1> DEFINE Stays == \A r : ~NoAnswer(r) => ~NoAnswer(r)'
<1>1. fifo \in Seq(Message)
  BY DEF TableInv, TypeOK, Message
<1>2. CASE Serve /\ Scheduled
  <2>1. cpc' = "idle" /\ UNCHANGED <<apc, areq>> /\ \A a \in Answerer : ~Signalled(a)
    BY <1>2 DEF Serve, clientVars, answererVars
  <2>2. QED
    BY <2>1 DEF SignalsAnswers, Signalled
<1>3. \/ Run \/ (\E k \in Kinds : AddSent(k)) \/ Local \/ Router \/ Trigger
      \/ TimeUp \/ Pass \/ PushEvent
      => Stays
  BY <1>1, NextAdds, AnswersStay
<1>4. ASSUME Stays, UNCHANGED <<apc, areq, creq>>, cpc' = "woken" => cpc = "woken"
      PROVE  SignalsAnswers'
  BY <1>4 DEF SignalsAnswers, Signalled, NoAnswer
<1>5. CASE Run \/ TimeUp
  <2>1. UNCHANGED <<apc, areq, creq>> /\ cpc' # "woken"
    BY <1>5 DEF Run, AddReceived, Send, Undo, Wait, TimeUp, TimedOut, ClientFree, ReturnOK, Client,
                answererVars
  <2>2. QED
    BY <1>3, <1>4, <1>5, <2>1
<1>6. ASSUME NEW k \in Kinds, AddSent(k) PROVE SignalsAnswers'
  <2>1. UNCHANGED <<apc, areq>> /\ cpc' # "woken" /\ fifo' = fifo
    <3>1. CASE unused = <<>>
      <4>1. UNCHANGED <<answererVars, queueVars, cpc>> /\ cpc = "idle"
        BY <1>6, <3>1, Zenon DEF AddSent
      <4>2. QED
        BY <4>1 DEF answererVars, queueVars
    <3>2. CASE unused # <<>>
      BY <1>6, <3>2, AddTakes DEF answererVars, queueVars
    <3>3. QED
      BY <3>1, <3>2
  <2>2. QED
    BY <2>1 DEF SignalsAnswers, Signalled, NoAnswer
<1>7. CASE Trigger \/ Pass \/ PushEvent
  <2>1. UNCHANGED <<apc, areq, creq, cpc>>
    BY <1>7 DEF Trigger, TriggerFind, TriggerFree, TriggerPush, Pass, PushEvent, clientVars,
                answererVars
  <2>2. QED
    BY <1>3, <1>4, <1>7, <2>1
<1>8. ASSUME NEW a \in Answerer, NEW s, NEW r, Stays, apc' = [apc EXCEPT ![a] = s],
             areq' = [areq EXCEPT ![a] = r], UNCHANGED creq, cpc' = "woken" => ~NoAnswer(creq),
             s = "signal" \/ (a = "local" /\ s = "free") => ~NoAnswer(r)'
      PROVE  SignalsAnswers'
  <2>1. /\ apc'[a] = s /\ areq'[a] = r
        /\ \A b \in Answerer \ {a} : apc'[b] = apc[b] /\ areq'[b] = areq[b]
    <3>1. areq \in [Answerer -> Request \cup {NoReq}]
      BY DEF TableInv, TypeOK
    <3>2. QED
      BY <1>8, <3>1, TableTypes
  <2>2. cpc' = "woken" => ~NoAnswer(creq)'
    BY <1>8 DEF NoAnswer
  <2>3. Signalled(a)' => ~NoAnswer(areq[a])'
    BY <1>8, <2>1 DEF Signalled, NoAnswer
  <2>4. \A b \in Answerer \ {a} : Signalled(b)' => ~NoAnswer(areq[b])'
    BY <1>8, <2>1 DEF SignalsAnswers, Signalled, NoAnswer
  <2>5. QED
    BY <2>2, <2>3, <2>4 DEF SignalsAnswers
<1>9. cpc = "woken" => ~NoAnswer(creq)
  BY DEF SignalsAnswers
<1>10. CASE TakeRequest \/ TakeAnswer \/ FreeReceived
  <2>1. Stays /\ UNCHANGED <<cpc, creq>>
    BY <1>3, <1>10 DEF Local, Router, TakeRequest, TakeAnswer, FreeReceived, clientVars
  <2>2. \E a \in Answerer, s \in {"find", "idle"} : \E r :
          apc' = [apc EXCEPT ![a] = s] /\ areq' = [areq EXCEPT ![a] = r]
    <3>1. areq = [areq EXCEPT !["local"] = areq["local"]]
      BY DEF TableInv, TypeOK
    <3>2. QED
      BY <1>10, <3>1 DEF TakeRequest, TakeAnswer, FreeReceived, Answer, Answerer
  <2> HIDE DEF Stays
  <2>3. QED
    BY <1>8, <1>9, <2>1, <2>2
<1>11. ASSUME NEW a \in Answerer, AnswerStep(a), Stays PROVE SignalsAnswers'
  <2>1. areq = [areq EXCEPT ![a] = areq[a]]
    BY DEF TableInv, TypeOK
  <2>2. CASE FindSent(a) \/ CheckTimeout(a)
    <3>1. PICK s : /\ apc' = [apc EXCEPT ![a] = s] /\ UNCHANGED <<cpc, creq, areq>>
                   /\ s # "signal" /\ (a = "local" => s # "free")
      BY <2>2 DEF FindSent, CheckTimeout, Answer, GiveUp, clientVars
    <3> HIDE DEF Stays
    <3>2. QED
      BY <1>8, <1>9, <1>11, <2>1, <3>1
  <2>3. CASE PushAnswer(a) \/ (PushFallback(a) /\ apc[a] = "fallback")
    <3> DEFINE m == Msg(Kind(areq[a]), areq[a])
    <3>1. /\ m \in Message /\ m.id = areq[a].id /\ data[anode[a]] = areq[a]
          /\ Sync(a) = areq[a].sync /\ apc[a] \in {"push", "fallback"}
          /\ apc[a] = "fallback" => areq[a].sync
      <4>1. apc[a] \in {"push", "fallback"}
        BY <2>3 DEF PushAnswer
      <4>2. QED
        BY <4>1, AnswerAtHand DEF TableInv, AnswererAt
    <3>2. PICK s : /\ apc' = [apc EXCEPT ![a] = s] /\ UNCHANGED <<cpc, creq, areq>>
                   /\ \/ s # "signal" /\ (a = "local" => s # "free")
                      \/ fifo' = Append(fifo, m) \/ fifo' = <<m>> \o fifo
      <4>1. CASE areq[a].sync /\ PushAnswer(a)
        <5>1. HasRoom("sync") /\ Kind(areq[a]) = "sync"
          BY <4>1, SyncHasRoom DEF PushAnswer, Kind
        <5>2. QED
          BY <3>1, <4>1, <5>1 DEF PushAnswer, Answer, clientVars
      <4>2. CASE ~areq[a].sync /\ PushAnswer(a)
        <5>1. \A stored : AfterPush(a, stored) # "signal"
                            /\ (a = "local" => AfterPush(a, stored) # "free")
          BY <3>1, <4>2 DEF AfterPush, GiveUp
        <5>2. QED
          BY <3>1, <4>2, <5>1 DEF PushAnswer, Answer, clientVars
      <4>3. CASE PushFallback(a)
        BY <3>1, <4>3 DEF PushFallback, Answer, clientVars
      <4>4. QED
        BY <2>3, <4>1, <4>2, <4>3
    <3> HIDE DEF m
    <3>3. fifo' = Append(fifo, m) \/ fifo' = <<m>> \o fifo => ~NoAnswer(areq[a])'
      <4>1. ASSUME fifo' = Append(fifo, m) \/ fifo' = <<m>> \o fifo PROVE fifo' # fifo
        <5>1. Len(fifo') = Len(fifo) + 1 /\ Len(fifo) \in Nat
          BY <1>1, <3>1, <4>1
        <5>2. QED
          BY <5>1
      <4>2. ASSUME fifo' = Append(fifo, m) \/ fifo' = <<m>> \o fifo
            PROVE  \A x : x.id = m.id => ~NoAnswer(x)'
        BY <1>1, <3>1, <4>1, <4>2, AnswersStay
      <4>3. QED
        BY <3>1, <3>2, <4>2 DEF NoAnswer
    <3> HIDE DEF Stays
    <3>4. QED
      BY <1>8, <1>9, <1>11, <2>1, <3>2, <3>3
  <2>4. CASE AnswererFree(a)
    <3>1. /\ apc[a] = "free" /\ apc' = [apc EXCEPT ![a] = AfterFree(a)]
          /\ UNCHANGED <<cpc, creq, areq>>
      BY <2>4 DEF AnswererFree, Answer, clientVars
    <3>2. a = "local" => ~NoAnswer(areq[a])'
      BY <1>11, <3>1 DEF SignalsAnswers, Signalled, NoAnswer
    <3> HIDE DEF Stays
    <3>3. AfterFree(a) = "signal" \/ (a = "local" /\ AfterFree(a) = "free") => ~NoAnswer(areq[a])'
      BY <3>2 DEF AfterFree
    <3>4. QED
      BY <1>8, <1>9, <1>11, <2>1, <3>1, <3>3
  <2>5. CASE Signal(a)
    <3>1. PICK s : /\ apc[a] = "signal" /\ apc' = [apc EXCEPT ![a] = s]
                   /\ UNCHANGED <<creq, areq>>
                   /\ cpc' = IF cpc = "waiting" THEN "woken" ELSE cpc
                   /\ s = IF a = "local" THEN "done" ELSE "free"
      BY <2>5 DEF Signal, Answer, Client
    <3>2. ~NoAnswer(creq)
      <4>1. areq[a].sync
        BY <3>1 DEF TableInv, AnswererAt
      <4>2. areq[a] = creq /\ ~NoAnswer(areq[a])
        BY <3>1, <4>1 DEF SignalsClient, Signalling, SignalsAnswers, Signalled
      <4>3. QED
        BY <4>2
    <3>3. s # "signal" /\ (a = "local" => s # "free") /\ areq' = [areq EXCEPT ![a] = areq[a]]
      BY <2>1, <3>1
    <3> HIDE DEF Stays
    <3>4. QED
      BY <1>8, <1>11, <3>1, <3>2, <3>3
  <2>6. QED
    BY <1>11, <2>2, <2>3, <2>4, <2>5 DEF AnswerStep, PushFallback
<1> HIDE DEF Stays
<1>12. CASE Local \/ Router
  <2>1. "local" \in Answerer /\ "remote" \in Answerer
    BY DEF Answerer
  <2>2. QED
    BY <1>3, <1>10, <1>11, <1>12, <2>1 DEF Local, Router
<1>13. QED
  BY <1>2, <1>5, <1>6, <1>7, <1>12 DEF Next

(* Nothing is signalled at first.                                          *)
LEMMA InitSignals == Init => SignalsAnswers
BY DEF Init, SignalsAnswers, Signalled

(* Nor by a step that does nothing.                                        *)
LEMMA StutterSignals ==
  ASSUME SignalsAnswers, UNCHANGED vars
  PROVE  SignalsAnswers'
<1>1. UNCHANGED <<apc, areq, cpc, creq, fifo>>
  BY DEF vars, queueVars, clientVars, answererVars
<1>2. QED
  BY <1>1 DEF SignalsAnswers, Signalled, NoAnswer

(* In time, the client waits for what is signalled: it takes nothing from  *)
(* its FIFO meanwhile.                                                     *)
LEMMA InTimeSignalsKept ==
  ASSUME InTime, InTimeInv, SignalsAnswers, AnswerPool >= MaxID, Next
  PROVE  SignalsAnswers'
<1>1. \A a \in Answerer : Signalling(a) /\ areq[a].sync => areq[a] = creq
  BY DEF Signalling, InTimeInv, OneWait, ToSignal, WaitsFor
<1>2. ASSUME Serve, NEW a \in Answerer, Signalled(a) PROVE FALSE
  <2>1. areq[a].sync /\ ToSignal(a)
    BY <1>2 DEF Signalled, ToSignal, InTimeInv, TableInv, AnswererAt
  <2>2. QED
    BY <1>2, <2>1 DEF InTimeInv, OneWait, WaitsFor, Serve
<1>3. QED
  BY <1>1, <1>2, SignalsKept DEF SignalsClient, InTime, InTimeInv

(* Nor does it while an urgent thread has something to signal.             *)
LEMMA UrgentSignalsKept ==
  ASSUME Urgent, ~SpuriousWakeups, UrgentInv, SignalsAnswers, AnswerPool >= MaxID, Next
  PROVE  SignalsAnswers'
<1>1. SignalsClient /\ TableInv
  BY DEF UrgentInv, StillInv, Urged, Next
<1>2. ASSUME Serve, Scheduled, NEW a \in Answerer PROVE ~Signalled(a)
  BY <1>2 DEF Serve, Scheduled, WaitResponseFree, Signalled
<1>3. QED
  BY <1>1, <1>2, SignalsKept

(* "wait response and continue": a synchronous request that returns OK has *)
(* its own answer in the FIFO of its module, in either use of the tables,  *)
(* if the FIFO has an element for the answer of every request: the signal  *)
(* of lib/ldp_mod_container_util.c comes whether or not the answer found   *)
(* room, and wakes whoever waits.  A wait that ends for no reason returns  *)
(* OK as well.                                                             *)
THEOREM OkIsAnswered ==
  (InTime \/ Urgent) /\ ~SpuriousWakeups /\ AnswerPool >= MaxID => (Spec => OkMeansAnswered)
<1> SUFFICES ASSUME InTime \/ Urgent, ~SpuriousWakeups, AnswerPool >= MaxID
             PROVE  Spec => OkMeansAnswered
  OBVIOUS
<1>1. Spec => []SignalsAnswers
  <2>1. InTime /\ InTimeInv /\ SignalsAnswers /\ [Next]_vars => SignalsAnswers'
    BY InTimeSignalsKept, StutterSignals
  <2>2. Urgent /\ UrgentInv /\ SignalsAnswers /\ [Next]_vars => SignalsAnswers'
    BY UrgentSignalsKept, StutterSignals
  <2>3. CASE InTime
    <3>1. InTimeInv /\ SignalsAnswers /\ [Next]_vars => SignalsAnswers'
      BY <2>1, <2>3
    <3>2. Spec => []InTimeInv
      BY <2>3, InTimeHolds
    <3>3. QED
      BY <3>1, <3>2, InitSignals, PTL DEF Spec
  <2>4. CASE Urgent
    <3>1. UrgentInv /\ SignalsAnswers /\ [Next]_vars => SignalsAnswers'
      BY <2>2, <2>4
    <3>2. Spec => []UrgentInv
      BY <2>4, UrgentHolds
    <3>3. QED
      BY <3>1, <3>2, InitSignals, PTL DEF Spec
  <2>5. QED
    BY <2>3, <2>4
<1>2. SignalsAnswers /\ [Next]_vars =>
        [(cpc = "woken" /\ cpc' = "idle") => \E i \in 1 .. Len(fifo) : AnswerQueued(i, creq)]_vars
  BY DEF SignalsAnswers, NoAnswer, AnswerQueued
<1>3. QED
  BY <1>1, <1>2, PTL DEF Spec, OkMeansAnswered
=============================================================================
