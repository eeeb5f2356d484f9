-------------------------- MODULE ExchangeProofs --------------------------
(***************************************************************************)
(* Proofs about what two sides exchange.                                   *)
(*                                                                         *)
(* Requests and their answers: the two regimes of request-response that    *)
(* the model checker runs together.  The invariants of                     *)
(* LdpRequestResponseProofs hold in each of them, and give the properties  *)
(* that the run checks.                                                    *)
(*                                                                         *)
(* Packets over DDS, for every set of domains, every ports, routes and     *)
(* topics, and every order in which the processes join, read and stop:     *)
(* while the histories are deep enough, a process consumes what another    *)
(* writes to it on a topic in order, once and with no gap.  The inductive  *)
(* invariant, DdsInv, follows the packets of one process to another on a   *)
(* topic: those consumed, those of the last dds_take and those that the    *)
(* reader holds are, one after the other, all that was written (Flows);    *)
(* and what a process has is on its own links (InPlace).  Joining and      *)
(* taking are proved apart; every other action is a Turn: it may append    *)
(* to what its process wrote, and consume what was taken first.            *)
(***************************************************************************)
EXTENDS MCLdpRequestResponse, LdpRequestResponseProofs, LdpDds, FiniteSetTheorems,
        FunctionTheorems, SequenceTheorems, WellFoundedInduction, TLAPS

(* What holds in each regime.                                              *)
RegimesInv ==
  /\ regime = "in_time" => InTimeInv
  /\ regime = "mixed" => Mixed!UrgentInv

(* It holds at first, in either regime.                                    *)
LEMMA InitRegimes == MCInit => RegimesInv
<1>1. Init => InTimeInv
  BY InitInTime
<1>2. Mixed!Init => Mixed!UrgentInv
  BY MixedAssumption, Mixed!InitUrgent
<1>3. QED
  BY <1>1, <1>2 DEF MCInit, RegimesInv

(* A step is of one regime, which it does not leave.                       *)
LEMMA NextRegimes ==
  ASSUME InTime, RegimesInv, [InTimeNext \/ MixedNext]_mcVars
  PROVE  RegimesInv'
<1>1. regime' = regime
  BY DEF InTimeNext, MixedNext, mcVars
<1>2. ASSUME regime = "in_time" PROVE InTimeInv'
  <2>1. [Next]_vars
    BY <1>2 DEF InTimeNext, MixedNext, mcVars
  <2>2. QED
    BY <1>2, <2>1, NextInTime, StutterInTime DEF RegimesInv
<1>3. ASSUME regime = "mixed" PROVE Mixed!UrgentInv'
  <2>1. [Mixed!Next]_Mixed!vars
    BY <1>3 DEF InTimeNext, MixedNext, mcVars, vars, Mixed!vars, listVars, Mixed!listVars,
                queueVars, Mixed!queueVars, clientVars, Mixed!clientVars, answererVars,
                Mixed!answererVars, triggerVars, Mixed!triggerVars
  <2>2. QED
    BY <1>3, <2>1, MixedAssumption, Mixed!NextUrgent, Mixed!StutterUrgent DEF InTime, RegimesInv
<1>4. QED
  BY <1>1, <1>2, <1>3 DEF RegimesInv

(* The invariant of the two regimes holds in every reachable state.        *)
LEMMA RegimesKept == InTime => (MCSpec => []RegimesInv)
<1> SUFFICES ASSUME InTime PROVE MCSpec => []RegimesInv
  OBVIOUS
<1>1. MCInit => RegimesInv
  BY InitRegimes
<1>2. RegimesInv /\ [InTimeNext \/ MixedNext]_mcVars => RegimesInv'
  BY NextRegimes
<1>3. QED
  BY <1>1, <1>2, PTL DEF MCSpec

(* Whatever dates pass, the table and the queues are well formed; where    *)
(* none does, an entry of ldp_request_response.c is freed once, by whoever *)
(* holds it, and one in use is that of a request that somebody has still   *)
(* to end.                                                                 *)
THEOREM EntriesOfTable == InTime => (MCSpec => []EntriesInTime)
<1>1. RegimesInv => EntriesInTime
  <2> SUFFICES ASSUME RegimesInv PROVE EntriesInTime
    OBVIOUS
  <2>1. regime = "in_time" => TypeOK /\ FreedOnce /\ EntriesAccountedFor
    BY InTimeInvGives DEF RegimesInv
  <2>2. regime = "mixed" => Mixed!TypeOK
    BY DEF RegimesInv, Mixed!UrgentInv, Mixed!StillInv, Mixed!TableInv
  <2>3. QED
    BY <2>1, <2>2 DEF EntriesInTime
<1>2. QED
  BY <1>1, RegimesKept, PTL

(* What is signalled is in the FIFO, in both regimes.                      *)
LEMMA SignalsOfRegimes ==
  ASSUME InTime, AnswerPool >= MaxID
  PROVE  MCSpec => []SignalsAnswers
<1>1. MCInit => SignalsAnswers
  <2>1. Mixed!Init => Mixed!SignalsAnswers
    BY MixedAssumption, Mixed!InitSignals
  <2>2. Mixed!SignalsAnswers => SignalsAnswers
    BY DEF Mixed!SignalsAnswers, SignalsAnswers, Mixed!Signalled, Signalled, Mixed!NoAnswer,
           NoAnswer, Mixed!Answerer, Answerer
  <2>3. QED
    BY <2>1, <2>2, InitSignals DEF MCInit
<1>2. RegimesInv /\ SignalsAnswers /\ [InTimeNext \/ MixedNext]_mcVars => SignalsAnswers'
  <2> SUFFICES ASSUME RegimesInv, SignalsAnswers, [InTimeNext \/ MixedNext]_mcVars
               PROVE  SignalsAnswers'
    OBVIOUS
  <2>1. CASE InTimeNext
    BY <2>1, InTimeSignalsKept DEF InTimeNext, RegimesInv
  <2>2. CASE MixedNext
    <3>1. 2 >= 2
      OBVIOUS
    <3>2. Mixed!SignalsAnswers
      BY DEF Mixed!SignalsAnswers, SignalsAnswers, Mixed!Signalled, Signalled, Mixed!NoAnswer,
             NoAnswer, Mixed!Answerer, Answerer
    <3>3. Mixed!SignalsAnswers'
      BY <2>2, <3>1, <3>2, MixedAssumption, Mixed!UrgentSignalsKept
        DEF InTime, MixedNext, RegimesInv
    <3>4. QED
      BY <3>3 DEF Mixed!SignalsAnswers, SignalsAnswers, Mixed!Signalled, Signalled,
                  Mixed!NoAnswer, NoAnswer, Mixed!Answerer, Answerer
  <2>3. CASE UNCHANGED mcVars
    BY <2>3, StutterSignals DEF mcVars
  <2>4. QED
    BY <2>1, <2>2, <2>3
<1>3. QED
  BY <1>1, <1>2, RegimesKept, PTL DEF MCSpec

(* A synchronous request that returns OK has its own answer in the FIFO of *)
(* its module, in time or not.                                             *)
THEOREM OkOfRegimes ==
  InTime /\ AnswerPool >= MaxID => (MCSpec => OkMeansAnswered)
<1> SUFFICES ASSUME InTime, AnswerPool >= MaxID PROVE MCSpec => OkMeansAnswered
  OBVIOUS
<1>1. SignalsAnswers /\ [InTimeNext \/ MixedNext]_mcVars =>
        [(cpc = "woken" /\ cpc' = "idle") => \E i \in 1 .. Len(fifo) : AnswerQueued(i, creq)]_vars
  BY DEF SignalsAnswers, NoAnswer, AnswerQueued
<1>2. QED
  BY <1>1, SignalsOfRegimes, PTL DEF MCSpec, OkMeansAnswered
-----------------------------------------------------------------------------
(* The least of a set of numbers. *)
LEMMA MinIsLeast ==
  ASSUME NEW S \in SUBSET Nat, S # {}
  PROVE  Min(S) \in S /\ \A y \in S : Min(S) <= y
<1> DEFINE Below == {0 .. y : y \in S}
           R == StrictSubsetOrdering(Nat)
<1>1. Below \subseteq FiniteSubsetsOf(Nat) /\ Below # {}
  <2>1. \A y \in S : 0 .. y \in SUBSET Nat /\ IsFiniteSet(0 .. y)  BY FS_Interval
  <2> QED  BY <2>1 DEF FiniteSubsetsOf
<1>2. \E T \in Below : \A U \in Below : ~ (<<U, T>> \in R)
  <2> HIDE DEF Below, R
  <2>1. IsWellFoundedOn(StrictSubsetOrdering(Nat), FiniteSubsetsOf(Nat))
    BY FS_StrictSubsetOrderingWellFounded
  <2> QED  BY <1>1, <2>1, WFMin DEF R
<1>3. PICK x \in S : \A y \in S : ~ (<<0 .. y, 0 .. x>> \in R)
  BY <1>2
<1>4. ASSUME NEW y \in S, y < x  PROVE FALSE
  <2>1. 0 .. y \subseteq 0 .. x  BY <1>4
  <2>2. x \in 0 .. x /\ x \notin 0 .. y  BY <1>4
  <2>3. 0 .. y \in SUBSET Nat /\ 0 .. x \in SUBSET Nat  OBVIOUS
  <2>4. <<0 .. y, 0 .. x>> \in R  BY <2>1, <2>2, <2>3 DEF StrictSubsetOrdering
  <2> QED  BY <1>3, <2>4
<1>5. \A y \in S : x <= y
  BY <1>4
<1> QED  BY <1>5 DEF Min

(* What holds of 0 and of the number after each one it holds of, holds of all. *)
LEMMA CountingUp ==
  ASSUME NEW S, 0 \in S, \A k \in Nat : k \in S => k + 1 \in S
  PROVE  Nat \subseteq S
<1> DEFINE Others == {k \in Nat : k \notin S}
<1> SUFFICES ASSUME Others # {} PROVE FALSE  OBVIOUS
<1>1. PICK k \in Others : \A y \in Others : k <= y
  <2>1. Others \in SUBSET Nat  OBVIOUS
  <2> HIDE DEF Others
  <2> QED  BY <2>1, MinIsLeast
<1>2. k \in Nat /\ k # 0 /\ k \notin S  BY <1>1
<1>3. k - 1 \in Nat /\ (k - 1) + 1 = k /\ ~ (k <= k - 1)  BY <1>2
<1>4. k - 1 \in S  BY <1>1, <1>3
<1> QED  BY <1>2, <1>3, <1>4

(* The same for sequences: what holds of the empty one and of each with one  *)
(* element more, holds of all.                                               *)
LEMMA SequencesUp ==
  ASSUME NEW P, NEW S, <<>> \in S, \A s \in Seq(P), x \in P : s \in S => Append(s, x) \in S
  PROVE  Seq(P) \subseteq S
<1> DEFINE N == {n \in Nat : \A s \in Seq(P) : Len(s) = n => s \in S}
<1>1. 0 \in N
  <2>1. ASSUME NEW s \in Seq(P), Len(s) = 0  PROVE s \in S
    <3>1. s = <<>>  BY <2>1
    <3> QED  BY <3>1
  <2> QED  BY <2>1
<1>2. ASSUME NEW n \in Nat, n \in N  PROVE n + 1 \in N
  <2>1. ASSUME NEW s \in Seq(P), Len(s) = n + 1  PROVE s \in S
    <3> DEFINE f == SubSeq(s, 1, n)
               x == s[n + 1]
    <3>1. \A i \in 1..n + 1 : s[i] \in P  BY <2>1
    <3>2. x \in P  BY <1>2, <3>1
    <3>3. f \in Seq(P) /\ Len(f) = n /\ \A i \in 1..n : f[i] = s[i]  BY <1>2, <2>1, <3>1
    <3> HIDE DEF f, x
    <3>4. Append(f, x) \in Seq(P) /\ Len(Append(f, x)) = n + 1  BY <1>2, <3>2, <3>3
    <3>5. \A i \in 1..n + 1 : Append(f, x)[i] = s[i]  BY <1>2, <3>2, <3>3 DEF x
    <3>6. Append(f, x) = s  BY <2>1, <3>4, <3>5, SeqEqual
    <3> QED  BY <1>2, <3>2, <3>3, <3>6
  <2> QED  BY <1>2, <2>1
<1> HIDE DEF N
<1>3. Nat \subseteq N  BY <1>1, <1>2, CountingUp
<1>4. ASSUME NEW s \in Seq(P)  PROVE s \in S
  <2>1. Len(s) \in N  BY <1>3
  <2> QED  BY <2>1 DEF N
<1> QED  BY <1>4

-----------------------------------------------------------------------------
(* The packets written on some links.                                        *)

Sieved(s, links, g, n) ==
  IF n = 0 THEN <<>>
  ELSE IF s[n].link \in links THEN Append(g[n - 1], s[n]) ELSE g[n - 1]
IsSieve(s, links, g, m) == g = [n \in 0..m |-> Sieved(s, links, g, n)]

(* A recursive function that keeps the packets on some links exists. *)
LEMMA SievesExist ==
  ASSUME NEW s, NEW links
  PROVE  \A m \in Nat : \E g : IsSieve(s, links, g, m)
<1> DEFINE S == {m \in Nat : \E g : IsSieve(s, links, g, m)}
<1>1. 0 \in S
  <2> DEFINE g == [n \in 0..0 |-> <<>>]
  <2>1. \A n \in 0..0 : Sieved(s, links, g, n) = <<>>  BY DEF Sieved
  <2>2. g = [n \in 0..0 |-> Sieved(s, links, g, n)]  BY <2>1
  <2> QED  BY <2>2 DEF IsSieve
<1>2. ASSUME NEW m \in Nat, m \in S  PROVE m + 1 \in S
  <2>1. PICK g : g = [n \in 0..m |-> Sieved(s, links, g, n)]  BY <1>2 DEF IsSieve
  <2> DEFINE h == [n \in 0..m + 1 |-> Sieved(s, links, g, n)]
  <2>2. ASSUME NEW n \in 0..m + 1  PROVE Sieved(s, links, h, n) = Sieved(s, links, g, n)
    <3>1. ASSUME n # 0  PROVE h[n - 1] = g[n - 1]
      <4>1. n - 1 \in 0..m /\ n - 1 \in 0..m + 1  BY <1>2, <2>2, <3>1
      <4>2. g[n - 1] = Sieved(s, links, g, n - 1)  BY <2>1, <4>1
      <4> QED  BY <4>1, <4>2
    <3> HIDE DEF h
    <3> QED  BY <3>1 DEF Sieved
  <2>3. h = [n \in 0..m + 1 |-> Sieved(s, links, h, n)]
    <3>1. \A n \in 0..m + 1 : Sieved(s, links, h, n) = Sieved(s, links, g, n)  BY <2>2
    <3> QED  BY <3>1
  <2> HIDE DEF h
  <2>4. \E e : IsSieve(s, links, e, m + 1)  BY <2>3 DEF IsSieve
  <2> QED  BY <2>4
<1> HIDE DEF S
<1>3. Nat \subseteq S  BY <1>1, <1>2, CountingUp
<1> QED  BY <1>3 DEF S

(* Among is its last value. *)
LEMMA AmongIsSieve ==
  ASSUME NEW s, NEW links, Len(s) \in Nat
  PROVE  \E g : IsSieve(s, links, g, Len(s)) /\ Among(s, links) = g[Len(s)]
<1> DEFINE upTo == CHOOSE g : g = [n \in 0..Len(s) |-> Sieved(s, links, g, n)]
<1>1. upTo = [n \in 0..Len(s) |-> Sieved(s, links, upTo, n)]
  <2>1. \E g : g = [n \in 0..Len(s) |-> Sieved(s, links, g, n)]  BY SievesExist DEF IsSieve
  <2> QED  BY <2>1
<1>2. Among(s, links) = upTo[Len(s)]  BY DEF Among, Sieved
<1> HIDE DEF upTo
<1> QED  BY <1>1, <1>2 DEF IsSieve

(* No packet, nothing to keep. *)
LEMMA AmongNone == \A links : Among(<<>>, links) = <<>>
<1> TAKE links
<1> DEFINE s == <<>>
<1>1. Len(s) = 0  OBVIOUS
<1> HIDE DEF s
<1>2. PICK g : IsSieve(s, links, g, Len(s)) /\ Among(s, links) = g[Len(s)]
  BY <1>1, AmongIsSieve
<1>3. g[0] = Sieved(s, links, g, 0)  BY <1>1, <1>2 DEF IsSieve
<1> QED  BY <1>1, <1>2, <1>3 DEF Sieved, s

(* One packet more. *)
LEMMA AmongOneMore ==
  ASSUME NEW P, NEW s \in Seq(P), NEW x \in P, NEW links
  PROVE  Among(Append(s, x), links) =
           IF x.link \in links THEN Append(Among(s, links), x) ELSE Among(s, links)
<1> DEFINE r == Append(s, x)
<1>1. /\ Len(s) \in Nat /\ Len(r) = Len(s) + 1 /\ r[Len(s) + 1] = x
      /\ \A n \in 1..Len(s) : r[n] = s[n]
  OBVIOUS
<1> HIDE DEF r
<1>2. PICK g : IsSieve(s, links, g, Len(s)) /\ Among(s, links) = g[Len(s)]
  BY <1>1, AmongIsSieve
<1>3. PICK h : IsSieve(r, links, h, Len(r)) /\ Among(r, links) = h[Len(r)]
  BY <1>1, AmongIsSieve
<1> PICK k \in Nat : k = Len(s)  BY <1>1
<1>4. /\ \A n \in 0..k : g[n] = Sieved(s, links, g, n)
      /\ \A n \in 0..k + 1 : h[n] = Sieved(r, links, h, n)
  BY <1>1, <1>2, <1>3 DEF IsSieve
<1> DEFINE S == {n \in Nat : n <= k => h[n] = g[n]}
<1>5. 0 \in S
  <2>1. 0 \in 0..k /\ 0 \in 0..k + 1  OBVIOUS
  <2>2. g[0] = Sieved(s, links, g, 0) /\ h[0] = Sieved(r, links, h, 0)  BY <1>4, <2>1
  <2>3. g[0] = <<>> /\ h[0] = <<>>  BY <2>2 DEF Sieved
  <2> QED  BY <2>3
<1>6. ASSUME NEW n \in Nat, n \in S  PROVE n + 1 \in S
  <2> SUFFICES ASSUME n + 1 <= k PROVE h[n + 1] = g[n + 1]  BY <1>6
  <2>1. n <= k /\ n + 1 \in 0..k /\ n + 1 \in 0..k + 1 /\ n + 1 \in 1..k /\ n + 1 # 0
        /\ (n + 1) - 1 = n
    BY <1>6
  <2>2. h[n] = g[n] /\ r[n + 1] = s[n + 1]  BY <1>1, <1>6, <2>1
  <2> QED  BY <1>4, <2>1, <2>2 DEF Sieved
<1> HIDE DEF S
<1>7. h[k] = g[k]
  <2>1. Nat \subseteq S  BY <1>5, <1>6, CountingUp
  <2>2. k \in S /\ k <= k  BY <2>1
  <2> QED  BY <2>2 DEF S
<1>8. h[k + 1] = IF x.link \in links THEN Append(h[k], x) ELSE h[k]
  <2>1. k + 1 \in 0..k + 1 /\ k + 1 # 0 /\ (k + 1) - 1 = k  OBVIOUS
  <2> QED  BY <1>1, <1>4, <2>1 DEF Sieved
<1> QED  BY <1>1, <1>2, <1>3, <1>7, <1>8 DEF r

(* What is kept are packets on those links. *)
LEMMA AmongOnLinks ==
  ASSUME NEW P, NEW links
  PROVE  \A s \in Seq(P) : Among(s, links) \in Seq({x \in P : x.link \in links})
<1> DEFINE Q == {x \in P : x.link \in links}
           S == {s \in Seq(P) : Among(s, links) \in Seq(Q)}
<1>1. <<>> \in S
  <2> DEFINE e == <<>>
  <2> HIDE DEF Q
  <2>1. Among(e, links) = e  BY AmongNone
  <2>2. e \in Seq(P) /\ e \in Seq(Q)  OBVIOUS
  <2> HIDE DEF e
  <2>3. e \in S  BY <2>1, <2>2
  <2> QED  BY <2>3 DEF e
<1>2. ASSUME NEW s \in Seq(P), NEW x \in P, s \in S  PROVE Append(s, x) \in S
  <2>1. Among(Append(s, x), links) =
          IF x.link \in links THEN Append(Among(s, links), x) ELSE Among(s, links)
    BY AmongOneMore
  <2>2. x.link \in links => x \in Q  OBVIOUS
  <2> HIDE DEF Q
  <2>3. Append(s, x) \in Seq(P)  OBVIOUS
  <2>4. Among(Append(s, x), links) \in Seq(Q)  BY <1>2, <2>1, <2>2
  <2> QED  BY <2>3, <2>4
<1> HIDE DEF S
<1>3. Seq(P) \subseteq S  BY <1>1, <1>2, SequencesUp
<1> QED  BY <1>3 DEF S

(* Of packets of a set, what is kept is in the set. *)
LEMMA AmongTyped ==
  ASSUME NEW P, NEW links, NEW s \in Seq(P)
  PROVE  Among(s, links) \in Seq(P)
<1>1. Among(s, links) \in Seq({x \in P : x.link \in links})  BY AmongOnLinks
<1> DEFINE Q == {x \in P : x.link \in links}
<1>2. Q \subseteq P  OBVIOUS
<1> HIDE DEF Q
<1>3. ASSUME NEW r \in Seq(Q)  PROVE r \in Seq(P)  BY <1>2
<1> QED  BY <1>1, <1>3 DEF Q

(* One element more, at the end of two sequences one after the other. *)
LEMMA AppendLast ==
  ASSUME NEW P, NEW a \in Seq(P), NEW b \in Seq(P), NEW x \in P
  PROVE  /\ a \o Append(b, x) = Append(a \o b, x)
         /\ a \o b \in Seq(P) /\ Append(b, x) \in Seq(P) /\ a \o <<>> = a /\ <<>> \o a = a
OBVIOUS

(* Of two sequences one after the other, what is kept of each. *)
LEMMA AmongConcat ==
  ASSUME NEW P, NEW links, NEW s \in Seq(P)
  PROVE  \A r \in Seq(P) : Among(s \o r, links) = Among(s, links) \o Among(r, links)
<1> DEFINE S == {r \in Seq(P) : Among(s \o r, links) = Among(s, links) \o Among(r, links)}
<1>1. <<>> \in S
  <2> DEFINE e == <<>>
  <2>1. s \o e = s /\ e \in Seq(P)  OBVIOUS
  <2>2. Among(s, links) \in Seq(P)  BY AmongTyped
  <2>3. Among(s, links) \o e = Among(s, links)  BY <2>2
  <2>4. Among(e, links) = e  BY AmongNone
  <2> HIDE DEF e
  <2>5. e \in S  BY <2>1, <2>3, <2>4
  <2> QED  BY <2>5 DEF e
<1>2. ASSUME NEW r \in Seq(P), NEW x \in P, r \in S  PROVE Append(r, x) \in S
  <2>1. Among(s \o r, links) = Among(s, links) \o Among(r, links)  BY <1>2
  <2>2. s \o Append(r, x) = Append(s \o r, x) /\ s \o r \in Seq(P) /\ Append(r, x) \in Seq(P)
    BY AppendLast
  <2>3. Among(s \o Append(r, x), links) =
          IF x.link \in links THEN Append(Among(s \o r, links), x) ELSE Among(s \o r, links)
    <3>1. \A c \in Seq(P) : Among(Append(c, x), links) =
            IF x.link \in links THEN Append(Among(c, links), x) ELSE Among(c, links)
      BY AmongOneMore
    <3> QED  BY <2>2, <3>1
  <2>4. Among(Append(r, x), links) =
          IF x.link \in links THEN Append(Among(r, links), x) ELSE Among(r, links)
    BY AmongOneMore
  <2> PICK a \in Seq(P), b \in Seq(P) : a = Among(s, links) /\ b = Among(r, links)
    BY AmongTyped
  <2>5. a \o Append(b, x) = Append(a \o b, x)  BY AppendLast
  <2>6. Among(s \o Append(r, x), links) = Among(s, links) \o Among(Append(r, x), links)
    <3>1. CASE x.link \in links
      <4>1. Among(s \o Append(r, x), links) = Append(a \o b, x)  BY <2>1, <2>3, <3>1
      <4>2. Among(Append(r, x), links) = Append(b, x)  BY <2>4, <3>1
      <4> QED  BY <2>5, <4>1, <4>2
    <3>2. CASE x.link \notin links
      <4>1. Among(s \o Append(r, x), links) = a \o b  BY <2>1, <2>3, <3>2
      <4>2. Among(Append(r, x), links) = b  BY <2>4, <3>2
      <4> QED  BY <4>1, <4>2
    <3> QED  BY <3>1, <3>2
  <2> QED  BY <2>2, <2>6
<1> HIDE DEF S
<1>3. Seq(P) \subseteq S  BY <1>1, <1>2, SequencesUp
<1> QED  BY <1>3 DEF S

(* Only the links of the packets count. *)
LEMMA AmongSame ==
  ASSUME NEW P, NEW links, NEW others, \A x \in P : x.link \in links <=> x.link \in others
  PROVE  \A s \in Seq(P) : Among(s, links) = Among(s, others)
<1> DEFINE S == {s \in Seq(P) : Among(s, links) = Among(s, others)}
<1>1. <<>> \in S  BY AmongNone
<1>2. ASSUME NEW s \in Seq(P), NEW x \in P, s \in S  PROVE Append(s, x) \in S
  <2>1. Among(Append(s, x), links) =
          IF x.link \in links THEN Append(Among(s, links), x) ELSE Among(s, links)
    BY AmongOneMore
  <2>2. Among(Append(s, x), others) =
          IF x.link \in others THEN Append(Among(s, others), x) ELSE Among(s, others)
    BY AmongOneMore
  <2>3. Append(s, x) \in Seq(P)  OBVIOUS
  <2> QED  BY <1>2, <2>1, <2>2, <2>3
<1> HIDE DEF S
<1>3. Seq(P) \subseteq S  BY <1>1, <1>2, SequencesUp
<1> QED  BY <1>3 DEF S

(* Nothing is kept of packets on other links. *)
LEMMA AmongNothing ==
  ASSUME NEW P, NEW links, \A x \in P : x.link \notin links
  PROVE  \A s \in Seq(P) : Among(s, links) = <<>>
<1> DEFINE S == {s \in Seq(P) : Among(s, links) = <<>>}
<1>1. <<>> \in S  BY AmongNone
<1>2. ASSUME NEW s \in Seq(P), NEW x \in P, s \in S  PROVE Append(s, x) \in S
  <2>1. Among(Append(s, x), links) =
          IF x.link \in links THEN Append(Among(s, links), x) ELSE Among(s, links)
    BY AmongOneMore
  <2>2. Append(s, x) \in Seq(P)  OBVIOUS
  <2> QED  BY <1>2, <2>1, <2>2
<1> HIDE DEF S
<1>3. Seq(P) \subseteq S  BY <1>1, <1>2, SequencesUp
<1> QED  BY <1>3 DEF S

(* What is kept of what was kept. *)
LEMMA AmongTwice ==
  ASSUME NEW P, NEW links, NEW others
  PROVE  \A s \in Seq(P) : Among(Among(s, links), others) = Among(s, links \cap others)
<1> DEFINE S == {s \in Seq(P) : Among(Among(s, links), others) = Among(s, links \cap others)}
<1>1. <<>> \in S  BY AmongNone
<1>2. ASSUME NEW s \in Seq(P), NEW x \in P, s \in S  PROVE Append(s, x) \in S
  <2>1. Among(Append(s, x), links) =
          IF x.link \in links THEN Append(Among(s, links), x) ELSE Among(s, links)
    BY AmongOneMore
  <2>2. Among(Append(s, x), links \cap others) =
          IF x.link \in links \cap others THEN Append(Among(s, links \cap others), x)
          ELSE Among(s, links \cap others)
    BY AmongOneMore
  <2>3. Among(s, links) \in Seq(P)  BY AmongTyped
  <2>4. Among(Append(Among(s, links), x), others) =
          IF x.link \in others THEN Append(Among(Among(s, links), others), x)
          ELSE Among(Among(s, links), others)
    BY <2>3, AmongOneMore
  <2>5. Append(s, x) \in Seq(P)  OBVIOUS
  <2>6. Among(Among(Append(s, x), links), others) = Among(Append(s, x), links \cap others)
    <3>1. CASE x.link \in links /\ x.link \in others  BY <1>2, <2>1, <2>2, <2>4, <3>1
    <3>2. CASE x.link \in links /\ x.link \notin others  BY <1>2, <2>1, <2>2, <2>4, <3>2
    <3>3. CASE x.link \notin links  BY <1>2, <2>1, <2>2, <3>3
    <3> QED  BY <3>1, <3>2, <3>3
  <2> QED  BY <2>5, <2>6
<1> HIDE DEF S
<1>3. Seq(P) \subseteq S  BY <1>1, <1>2, SequencesUp
<1> QED  BY <1>3 DEF S

-----------------------------------------------------------------------------
(* The packets of a domain and of the main process: what a link carries, and *)
(* in which order.                                                           *)

DdsOp == {"CLIENT_INIT", "CLIENT_READY", "KILL", "INIT_MOD", "START_MOD", "DATA"}
Packet == [link : DdsLink, op : DdsOp]
OnLinks(links) == {x \in Packet : x.link \in links}
LinksFrom(q) == {l \in DdsLink : l[1] = q}

DdsTyped ==
  /\ spc \in [Runtime -> {"down", "joined", "loop", "test", "announce", "stopped"}]
  /\ pdState \in [PD -> {"IDLE", "INIT", "READY", "RUNNING"}]
  /\ wrote \in [Runtime -> Seq(Packet)] /\ got \in [Runtime -> Seq(Packet)]
  /\ taken \in [Runtime -> Seq(Packet)]
  /\ cache \in [Runtime -> [Topic -> Seq(Packet)]]

\* What is written is on a link of its writer, what is in a reader on its
\* topic, what a server took on a link whose port it reads.
InPlace(p) ==
  /\ wrote[p] \in Seq(OnLinks(LinksFrom(p)))
  /\ taken[p] \in Seq(OnLinks(LinksTo[p])) /\ got[p] \in Seq(OnLinks(LinksTo[p]))
  /\ \A t \in Topic : cache[p][t] \in Seq(OnLinks(LinksOn[t]))

\* A server that has not joined has nothing; a domain has a state when its server is up.
Ordered(p) ==
  /\ spc[p] = "down" => wrote[p] = <<>> /\ taken[p] = <<>> /\ got[p] = <<>>
  /\ p \in PD /\ pdState[p] # "IDLE" => Up(p)

\* The links of q to p on t.
Between(p, q, t) == {l \in LinksFrom(q) : l \in LinksTo[p] /\ l \in LinksOn[t]}

\* What q wrote to p on t is what p consumed, took and holds, one after the
\* other, or q had stopped when p joined; it is at least what p consumed,
\* and p's own stop leaves no more than that.
Stream(p, t, links) ==
  (Among(got[p], links) \o Among(taken[p], links)) \o Among(cache[p][t], links)
Flows(p, q, t) ==
  LET links == Between(p, q, t) IN
    /\ Up(p) => \/ Stream(p, t, links) = Among(wrote[q], links)
                \/ spc[q] = "stopped" /\ Stream(p, t, links) = <<>>
    /\ \E rest \in Seq(Packet) : Among(wrote[q], links) = Among(got[p], links) \o rest

DdsInv ==
  /\ DdsTyped
  /\ \A p \in Runtime : InPlace(p) /\ Ordered(p)
  /\ \A p, q \in Runtime, t \in Topic : Flows(p, q, t)

\* The history of a reader, and of a writer, is deep enough for its samples.
HistoriesHold ==
  \A p \in Runtime, t \in Topic :
    Len(cache[p][t]) < KeepLast /\ Len(OnTopic(wrote[p], t)) <= KeepLast

-----------------------------------------------------------------------------
(* The routes: the ports of a packet are those of its link.                  *)

(* The port of an interface is a number, and the interface a link. *)
LEMMA PortsAreNumbers ==
  ASSUME NEW p \in Runtime, NEW i \in DOMAIN InfoPort[p]
  PROVE  ReadPort(p, i) \in Nat /\ <<p, i>> \in DdsLink
<1>1. InfoPort[p] \in Seq(Nat) /\ ReplyOffset \in Nat  BY DdsAssumption
<1>2. InfoPort[p][i] \in Nat  BY <1>1
<1> QED  BY <1>1, <1>2 DEF ReadPort, DdsLink

(* An interface is found for a port if, and only if, one reads it. *)
LEMMA ReadsAPort ==
  ASSUME NEW p \in Runtime, NEW port
  PROVE  \/ Reads(p, port) = 0 /\ \A i \in DOMAIN InfoPort[p] : ReadPort(p, i) # port
         \/ /\ Reads(p, port) \in DOMAIN InfoPort[p] /\ Reads(p, port) > 0
            /\ ReadPort(p, Reads(p, port)) = port
<1> DEFINE ports == [i \in DOMAIN InfoPort[p] |-> ReadPort(p, i)]
           I == {i \in 1..Len(ports) : ports[i] = port}
<1>1. Reads(p, port) = IF I # {} THEN Min(I) ELSE 0  BY DEF Reads, SelectInSeq
<1>2. Len(InfoPort[p]) \in Nat /\ DOMAIN InfoPort[p] = 1..Len(InfoPort[p])
  <2>1. InfoPort[p] \in Seq(Nat)  BY DdsAssumption
  <2> QED  BY <2>1
<1>3. Len(ports) = Len(InfoPort[p])
  <2> PICK n \in Nat : n = Len(InfoPort[p])  BY <1>2
  <2>1. DOMAIN ports = 1..n  BY <1>2
  <2> HIDE DEF ports
  <2> QED  BY <2>1
<1>4. I = {i \in DOMAIN InfoPort[p] : ReadPort(p, i) = port}  BY <1>2, <1>3
<1> HIDE DEF ports, I
<1>5. CASE I = {}  BY <1>1, <1>4, <1>5
<1>6. CASE I # {}
  <2>1. I \subseteq Nat  BY <1>2, <1>4
  <2>2. Min(I) \in I  BY <1>6, <2>1, MinIsLeast
  <2>3. Min(I) > 0  BY <1>2, <1>4, <2>2
  <2> QED  BY <1>1, <1>4, <1>6, <2>2, <2>3
<1> QED  BY <1>5, <1>6

(* A route of either table, and its place in the two of them. *)
Routes == ControlRoutes \o WireRoutes
LEMMA RoutesAre ==
  /\ Len(ControlRoutes) \in Nat /\ Len(WireRoutes) \in Nat
  /\ DOMAIN Routes = 1..Len(ControlRoutes) + Len(WireRoutes) /\ Len(Routes) \in Nat
  /\ Len(Routes) = Len(ControlRoutes) + Len(WireRoutes)
  /\ \A i \in 1..Len(ControlRoutes) : i \in DOMAIN Routes /\ Routes[i] = ControlRoutes[i]
  /\ \A i \in 1..Len(WireRoutes) : /\ Len(ControlRoutes) + i \in DOMAIN Routes
                                   /\ Routes[Len(ControlRoutes) + i] = WireRoutes[i]
<1> DEFINE C == ToSet(ControlRoutes)
           W == ToSet(WireRoutes)
<1>1. ControlRoutes \in Seq(C) /\ WireRoutes \in Seq(W)  BY RoutesNamed
<1> HIDE DEF C, W
<1> PICK m \in Nat, n \in Nat : m = Len(ControlRoutes) /\ n = Len(WireRoutes)  BY <1>1
<1>2. /\ Routes \in Seq(C \cup W) /\ Len(Routes) = m + n
      /\ \A i \in 1..m + n : Routes[i] = IF i <= m THEN ControlRoutes[i] ELSE WireRoutes[i - m]
  <2>1. ControlRoutes \in Seq(C \cup W) /\ WireRoutes \in Seq(C \cup W)  BY <1>1
  <2> QED  BY <2>1, ConcatProperties DEF Routes
<1>3. DOMAIN Routes = 1..m + n  BY <1>2
<1>5. \A i \in 1..m : i \in 1..m + n /\ i <= m  OBVIOUS
<1>6. \A i \in 1..n : m + i \in 1..m + n /\ ~ (m + i <= m) /\ (m + i) - m = i  OBVIOUS
<1> QED  BY <1>2, <1>3, <1>5, <1>6

\* The route that gave a packet its interface and its port, if it has an interface.
HasRoute(h) ==
  h.iface = 0 \/ \E k \in DOMAIN Routes : Routes[k].iface = h.iface /\ Routes[k].tport = h.tport

(* A packet has the port it is written to, and the interface of a route to   *)
(* it.                                                                       *)
LEMMA RoutedHasRoute ==
  ASSUME NEW source, NEW target
  PROVE  HasRoute(Routed(source, target)) /\ Routed(source, target).tport = target
<1> DEFINE C == {i \in 1..Len(ControlRoutes) :
                   ControlRoutes[i].sport = source /\ ControlRoutes[i].tport = target}
           W == {i \in 1..Len(WireRoutes) : WireRoutes[i].tport = target}
           c == ByPorts(source, target)
           w == WireByPort(target)
           On(route) == [tport |-> target, topic |-> route.topic, entity |-> route.target,
                         iface |-> route.iface]
<1>1. c = IF C # {} THEN Min(C) ELSE 0  BY DEF ByPorts, SelectInSeq
<1>2. w = IF W # {} THEN Min(W) ELSE 0  BY DEF WireByPort, SelectInSeq
<1>3. Routed(source, target) = IF c > 0 THEN On(ControlRoutes[c])
        ELSE IF w > 0 THEN On(WireRoutes[w])
        ELSE On([topic |-> Head(Topics), target |-> 0, iface |-> 0])
  BY DEF Routed
<1>4. c = 0 \/ c \in C
  <2>1. C \in SUBSET Nat  BY RoutesAre
  <2> HIDE DEF C
  <2> QED  BY <1>1, <2>1, MinIsLeast
<1>5. w = 0 \/ w \in W
  <2>1. W \in SUBSET Nat  BY RoutesAre
  <2> HIDE DEF W
  <2> QED  BY <1>2, <2>1, MinIsLeast
<1> HIDE DEF c, w
<1>6. CASE c > 0
  <2>1. c \in 1..Len(ControlRoutes) /\ ControlRoutes[c].tport = target  BY <1>4, <1>6
  <2>2. c \in DOMAIN Routes /\ Routes[c] = ControlRoutes[c]  BY <2>1, RoutesAre
  <2> HIDE DEF C, W
  <2>3. Routed(source, target) = On(ControlRoutes[c])  BY <1>3, <1>6
  <2> QED  BY <2>1, <2>2, <2>3 DEF HasRoute
<1>7. CASE ~ (c > 0) /\ w > 0
  <2>1. w \in 1..Len(WireRoutes) /\ WireRoutes[w].tport = target  BY <1>5, <1>7
  <2> DEFINE k == Len(ControlRoutes) + w
  <2>2. k \in DOMAIN Routes /\ Routes[k] = WireRoutes[w]  BY <2>1, RoutesAre
  <2> HIDE DEF C, W, k
  <2>3. Routed(source, target) = On(WireRoutes[w])  BY <1>3, <1>7
  <2> QED  BY <2>1, <2>2, <2>3 DEF HasRoute
<1>8. CASE ~ (c > 0) /\ ~ (w > 0)
  <2> HIDE DEF C, W
  <2>1. Routed(source, target) = On([topic |-> Head(Topics), target |-> 0, iface |-> 0])
    BY <1>3, <1>8
  <2> QED  BY <2>1 DEF HasRoute
<1> QED  BY <1>6, <1>7, <1>8

(* The interface of a packet leads to the port it was sent to. *)
LEMMA RouteKeepsPort ==
  ASSUME NEW p, NEW h, HasRoute(h)
  PROVE  RoutePort(p, h) = h.tport
<1> DEFINE routes == IF p = Main THEN ControlRoutes ELSE ControlRoutes \o WireRoutes
           I == {i \in 1..Len(routes) : routes[i].iface = h.iface}
           k == SelectInSeq(routes, LAMBDA r : r.iface = h.iface)
<1>1. k = IF I # {} THEN Min(I) ELSE 0  BY DEF SelectInSeq
<1>2. RoutePort(p, h) = IF k > 0 /\ (p = Main => routes[k].target = EntityOf[Main])
                        THEN routes[k].tport ELSE h.tport
  BY DEF RoutePort
<1>3. k = 0 \/ k \in I
  <2>1. I \in SUBSET Nat  BY RoutesAre DEF Routes
  <2> HIDE DEF I
  <2> QED  BY <1>1, <2>1, MinIsLeast
<1>4. \A i \in 1..Len(routes) : i \in DOMAIN Routes /\ routes[i] = Routes[i]
  BY RoutesAre DEF Routes
<1> HIDE DEF k, routes
<1>5. CASE k = 0  BY <1>2, <1>5
<1>6. CASE k \in I
  <2>1. k \in DOMAIN Routes /\ Routes[k].iface = h.iface /\ routes[k] = Routes[k]
    BY <1>4, <1>6
  <2>2. \A i \in DOMAIN Routes : Routes[i].iface # 0  BY RoutesNamed DEF Routes
  <2>3. PICK j \in DOMAIN Routes : Routes[j].iface = h.iface /\ Routes[j].tport = h.tport
    BY <2>1, <2>2 DEF HasRoute
  <2>4. k = j  BY <2>1, <2>3, RoutesNamed DEF Routes
  <2> QED  BY <1>2, <2>1, <2>3, <2>4
<1> QED  BY <1>3, <1>5, <1>6

(* A process takes what is for a port it reads, and nothing else, on an      *)
(* interface that reads it.                                                  *)
LEMMA TakesItsOwn ==
  ASSUME NEW p \in Runtime, NEW l \in DdsLink
  PROVE  /\ TakenOn[p][l] > 0 <=> l \in LinksTo[p]
         /\ l \in LinksTo[p] => /\ TakenOn[p][l] \in DOMAIN InfoPort[p]
                                /\ ReadPort(p, TakenOn[p][l]) = Routing[l].tport
<1> DEFINE h == Routing[l]
           port == h.tport
<1>1. HasRoute(h)
  <2>1. h = Routed(ReadPort(l[1], l[2]), WritePort(l[1], l[2]))  BY DEF Routing
  <2> HIDE DEF h
  <2> QED  BY <2>1, RoutedHasRoute
<1>2. TakenOn[p][l] = IF Targets(p, h) THEN FoundInterface(p, h) ELSE 0  BY DEF TakenOn
<1>3. l \in LinksTo[p] <=> \E i \in DOMAIN InfoPort[p] : ReadPort(p, i) = port
  BY DEF LinksTo
<1> HIDE DEF h
<1>4. RoutePort(p, h) = port  BY <1>1, RouteKeepsPort
<1>5. FoundInterface(p, h) = Reads(p, port)  BY <1>4 DEF FoundInterface
<1>6. (\E i \in DOMAIN InfoPort[p] : ReadPort(p, i) = port) => Targets(p, h)  BY DEF Targets
<1> HIDE DEF port
<1>7. CASE Reads(p, port) = 0 /\ \A i \in DOMAIN InfoPort[p] : ReadPort(p, i) # port
  BY <1>2, <1>3, <1>5, <1>7
<1>8. CASE /\ Reads(p, port) \in DOMAIN InfoPort[p] /\ Reads(p, port) > 0
           /\ ReadPort(p, Reads(p, port)) = port
  BY <1>2, <1>3, <1>5, <1>6, <1>8 DEF port, h
<1> QED  BY <1>7, <1>8, ReadsAPort

-----------------------------------------------------------------------------
(* Sequences put together and taken apart.                                   *)

(* Three sequences one after the other. *)
LEMMA ThreeInARow ==
  ASSUME NEW P, NEW a \in Seq(P), NEW b \in Seq(P), NEW c \in Seq(P)
  PROVE  (a \o b) \o c = a \o (b \o c) /\ a \o b \in Seq(P) /\ (a \o b) \o c \in Seq(P)
OBVIOUS

(* The parts of an empty sequence are empty. *)
LEMMA EmptyParts ==
  ASSUME NEW P, NEW a \in Seq(P), NEW b \in Seq(P)
  PROVE  a \o b = <<>> => a = <<>> /\ b = <<>>
<1> SUFFICES ASSUME a \o b = <<>> PROVE a = <<>> /\ b = <<>>  OBVIOUS
<1>1. Len(a \o b) = 0  OBVIOUS
<1>2. Len(a \o b) = Len(a) + Len(b)  OBVIOUS
<1>3. Len(a) \in Nat /\ Len(b) \in Nat  OBVIOUS
<1>4. Len(a) = 0 /\ Len(b) = 0
  <2> PICK m \in Nat, n \in Nat : m = Len(a) /\ n = Len(b)  BY <1>3
  <2> QED  BY <1>1, <1>2
<1> QED  BY <1>4

(* A sequence is its first element and the others. *)
LEMMA HeadAndTail ==
  ASSUME NEW P, NEW s \in Seq(P), s # <<>>
  PROVE  /\ s = <<Head(s)>> \o Tail(s) /\ Head(s) \in P /\ Tail(s) \in Seq(P)
         /\ <<Head(s)>> \in Seq(P)
         /\ \A g \in Seq(P) : Append(g, Head(s)) = g \o <<Head(s)>>
<1>1. Head(s) \in P /\ Tail(s) \in Seq(P)  OBVIOUS
<1>2. \A g \in Seq(P), x \in P : <<x>> \in Seq(P) /\ Append(g, x) = g \o <<x>>  OBVIOUS
<1>3. s = <<Head(s)>> \o Tail(s)  OBVIOUS
<1> QED  BY <1>1, <1>2, <1>3

(* A sequence is its first elements and the others. *)
LEMMA CutInTwo ==
  ASSUME NEW P, NEW s \in Seq(P), NEW n \in 0..Len(s)
  PROVE  /\ SubSeq(s, 1, n) \in Seq(P) /\ SubSeq(s, n + 1, Len(s)) \in Seq(P)
         /\ SubSeq(s, 1, n) \o SubSeq(s, n + 1, Len(s)) = s
<1> PICK m \in Nat : m = Len(s)  OBVIOUS
<1> DEFINE a == SubSeq(s, 1, n)
           b == SubSeq(s, n + 1, m)
<1>1. \A i \in 1..m : s[i] \in P  OBVIOUS
<1>2. a \in Seq(P) /\ Len(a) = n /\ \A i \in 1..n : a[i] = s[i]  BY <1>1
<1>3. b \in Seq(P) /\ Len(b) = m - n /\ \A i \in 1..m - n : b[i] = s[n + i]
  <2>1. n + 1 \in Int /\ m \in Int /\ \A i \in n + 1..m : s[i] \in P  BY <1>1
  <2>2. /\ b \in Seq(P) /\ Len(b) = IF n + 1 <= m THEN m - (n + 1) + 1 ELSE 0
        /\ \A i \in 1..m - (n + 1) + 1 : b[i] = s[(n + 1) + i - 1]
    BY <2>1, SubSeqProperties
  <2> HIDE DEF a, b
  <2>3. Len(b) = m - n  BY <2>2
  <2>4. ASSUME NEW i \in 1..m - n  PROVE b[i] = s[n + i]
    <3>1. i \in 1..m - (n + 1) + 1 /\ (n + 1) + i - 1 = n + i  BY <2>4
    <3> QED  BY <2>2, <3>1
  <2> QED  BY <2>2, <2>3, <2>4
<1> HIDE DEF a, b
<1>4. a \o b \in Seq(P) /\ Len(a \o b) = m
      /\ \A i \in 1..m : (a \o b)[i] = IF i <= n THEN a[i] ELSE b[i - n]
  <2>1. Len(a) + Len(b) = m  BY <1>2, <1>3
  <2>2. /\ a \o b \in Seq(P) /\ Len(a \o b) = Len(a) + Len(b)
        /\ \A i \in 1..Len(a) + Len(b) :
             (a \o b)[i] = IF i <= Len(a) THEN a[i] ELSE b[i - Len(a)]
    <3>1. a \in Seq(P) /\ b \in Seq(P)  BY <1>2, <1>3
    <3> QED  BY <3>1, ConcatProperties
  <2> QED  BY <1>2, <2>1, <2>2
<1>5. ASSUME NEW i \in 1..m  PROVE (a \o b)[i] = s[i]
  <2>1. CASE i <= n  BY <1>2, <1>4, <2>1
  <2>2. CASE ~ (i <= n)
    <3>1. i - n \in 1..m - n /\ n + (i - n) = i  BY <2>2
    <3> QED  BY <1>3, <1>4, <2>2, <3>1
  <2> QED  BY <2>1, <2>2
<1>6. a \o b = s  BY <1>4, <1>5, SeqEqual
<1> QED  BY <1>2, <1>3, <1>6 DEF a, b

(* What comes first is a prefix. *)
LEMMA PrefixOfWhole ==
  ASSUME NEW P, NEW a \in Seq(P), NEW b \in Seq(P)
  PROVE  IsPrefix(a, a \o b)
<1> DEFINE c == a \o b
<1> PICK m \in Nat, n \in Nat : m = Len(a) /\ n = Len(b)  OBVIOUS
<1>1. c \in Seq(P) /\ Len(c) = m + n /\ \A i \in 1..m : c[i] = a[i]  OBVIOUS
<1> HIDE DEF c
<1>2. SubSeq(c, 1, m) = SubSeq(a, 1, m)
  <2>1. SubSeq(c, 1, m) = [i \in 1..m |-> c[i]] /\ SubSeq(a, 1, m) = [i \in 1..m |-> a[i]]
    BY <1>1
  <2> QED  BY <1>1, <2>1
<1>3. m <= m + n  OBVIOUS
<1> QED  BY <1>1, <1>2, <1>3 DEF IsPrefix, c

(* A history that is not full has dropped nothing. *)
LEMMA KeptWhole ==
  ASSUME NEW P, NEW s \in Seq(P)
  PROVE  /\ Len(Kept(s)) < KeepLast => Kept(s) = s
         /\ Len(s) <= KeepLast => Kept(s) = s
<1> PICK k \in Nat : k = KeepLast /\ k # 0  BY DdsAssumption
<1> PICK m \in Nat : m = Len(s)  OBVIOUS
<1>1. CASE m > k
  <2> DEFINE r == SubSeq(s, m - k + 1, m)
  <2>1. Kept(s) = r  BY <1>1 DEF Kept, LastN
  <2>2. m - k + 1 \in 1..m  BY <1>1
  <2>3. Len(r) = m - (m - k + 1) + 1  BY <2>2
  <2>4. Len(r) = k  BY <1>1, <2>3
  <2> HIDE DEF r
  <2> QED  BY <1>1, <2>1, <2>4
<1>2. CASE ~ (m > k)  BY <1>2 DEF Kept, LastN
<1> QED  BY <1>1, <1>2

-----------------------------------------------------------------------------
(* What a process does once it has joined: it may write, and consume some of *)
(* what it took.                                                             *)

(* What is kept of packets on some links depends on these only. *)
LEMMA OnLinksOnly ==
  ASSUME NEW links, NEW s \in Seq(OnLinks(links))
  PROVE  /\ s \in Seq(Packet)
         /\ \A X, Y : (\A l \in links : l \in X <=> l \in Y) => Among(s, X) = Among(s, Y)
         /\ \A X : (\A l \in links : l \notin X) => Among(s, X) = <<>>
<1> DEFINE P == OnLinks(links)
<1>1. P \subseteq Packet /\ \A x \in P : x.link \in links  BY DEF OnLinks
<1> HIDE DEF P
<1>2. s \in Seq(Packet)
  <2>1. s \in Seq(P)  BY DEF P
  <2> QED  BY <1>1, <2>1
<1>3. ASSUME NEW X, NEW Y, \A l \in links : l \in X <=> l \in Y
      PROVE  Among(s, X) = Among(s, Y)
  <2>1. \A x \in P : x.link \in X <=> x.link \in Y  BY <1>1, <1>3
  <2>2. s \in Seq(P)  BY DEF P
  <2> QED  BY <2>1, <2>2, AmongSame
<1>4. ASSUME NEW X, \A l \in links : l \notin X  PROVE Among(s, X) = <<>>
  <2>1. \A x \in P : x.link \notin X  BY <1>1, <1>4
  <2>2. s \in Seq(P)  BY DEF P
  <2> QED  BY <2>1, <2>2, AmongNothing
<1> QED  BY <1>2, <1>3, <1>4

(* What is kept of packets is packets on the links. *)
LEMMA AmongPackets ==
  ASSUME NEW links, NEW s \in Seq(Packet)
  PROVE  /\ Among(s, links) \in Seq(Packet)
         /\ links \subseteq DdsLink => Among(s, links) \in Seq(OnLinks(links))
<1>1. Among(s, links) \in Seq({x \in Packet : x.link \in links})  BY AmongOnLinks
<1>2. Among(s, links) \in Seq(Packet)  BY AmongTyped
<1> QED  BY <1>1, <1>2 DEF OnLinks

Sends(c, packets) ==
  /\ packets \in Seq(OnLinks(LinksFrom(c)))
  /\ \A p \in Runtime : wrote'[p] = IF p = c THEN wrote[p] \o packets ELSE wrote[p]
  /\ \A p \in Runtime, t \in Topic :
       cache'[p][t] = IF Up(p) THEN cache[p][t] \o OnTopic(packets, t) ELSE cache[p][t]
Takes(c, head, rest) ==
  /\ head \in Seq(OnLinks(LinksTo[c])) /\ rest \in Seq(OnLinks(LinksTo[c]))
  /\ taken[c] = head \o rest /\ got'[c] = got[c] \o head
  /\ taken'[c] = rest \/ (taken'[c] = <<>> /\ spc'[c] = "stopped")
  /\ \A p \in Runtime : p # c => taken'[p] = taken[p] /\ got'[p] = got[p]
Turn(c, packets, head, rest) ==
  /\ Up(c) /\ Sends(c, packets) /\ Takes(c, head, rest)
  /\ spc'[c] # "down" /\ \A p \in Runtime : p # c => spc'[p] = spc[p]
  /\ \A d \in PD : d # c => pdState'[d] = pdState[d]
  /\ c \in PD /\ spc'[c] = "stopped" => pdState'[c] = "IDLE"

(* A turn leaves every packet on its links. *)
LEMMA TurnInPlace ==
  ASSUME DdsTyped, NEW c \in Runtime, NEW packets, NEW head, NEW rest,
         Turn(c, packets, head, rest), NEW p \in Runtime, InPlace(p)
  PROVE  InPlace(p)'
<1>1. wrote'[p] \in Seq(OnLinks(LinksFrom(p)))
  <2> DEFINE P == OnLinks(LinksFrom(p))
  <2>1. wrote[p] \in Seq(P) /\ (p = c => packets \in Seq(P))  BY DEF Turn, Sends, InPlace
  <2>2. wrote'[p] = IF p = c THEN wrote[p] \o packets ELSE wrote[p]  BY DEF Turn, Sends
  <2> HIDE DEF P
  <2>3. wrote'[p] \in Seq(P)  BY <2>1, <2>2
  <2> QED  BY <2>3 DEF P
<1>2. taken'[p] \in Seq(OnLinks(LinksTo[p])) /\ got'[p] \in Seq(OnLinks(LinksTo[p]))
  <2> DEFINE P == OnLinks(LinksTo[p])
  <2>1. taken[p] \in Seq(P) /\ got[p] \in Seq(P)  BY DEF InPlace
  <2>2. CASE p # c
    <3>1. taken'[p] = taken[p] /\ got'[p] = got[p]  BY <2>2 DEF Turn, Takes
    <3> QED  BY <2>1, <3>1
  <2>3. CASE p = c
    <3>1. /\ head \in Seq(P) /\ rest \in Seq(P) /\ got'[p] = got[p] \o head
          /\ taken'[p] = rest \/ taken'[p] = <<>>
      BY <2>3 DEF Turn, Takes
    <3> HIDE DEF P
    <3>2. <<>> \in Seq(P)  OBVIOUS
    <3>3. taken'[p] \in Seq(P)  BY <3>1, <3>2
    <3>4. got'[p] \in Seq(P)  BY <2>1, <3>1
    <3> QED  BY <3>3, <3>4 DEF P
  <2> QED  BY <2>2, <2>3
<1>3. ASSUME NEW t \in Topic  PROVE cache'[p][t] \in Seq(OnLinks(LinksOn[t]))
  <2>1. packets \in Seq(Packet)  BY OnLinksOnly DEF Turn, Sends
  <2>2. LinksOn[t] \subseteq DdsLink  BY DEF LinksOn
  <2>3. OnTopic(packets, t) \in Seq(OnLinks(LinksOn[t]))  BY <2>1, <2>2, AmongPackets DEF OnTopic
  <2>4. cache[p][t] \in Seq(OnLinks(LinksOn[t]))  BY DEF InPlace
  <2>5. cache'[p][t] = IF Up(p) THEN cache[p][t] \o OnTopic(packets, t) ELSE cache[p][t]
    BY DEF Turn, Sends
  <2> DEFINE P == OnLinks(LinksOn[t])
  <2> HIDE DEF P
  <2>6. OnTopic(packets, t) \in Seq(P) /\ cache[p][t] \in Seq(P)  BY <2>3, <2>4 DEF P
  <2>7. cache'[p][t] \in Seq(P)  BY <2>5, <2>6
  <2> QED  BY <2>7 DEF P
<1> QED  BY <1>1, <1>2, <1>3 DEF InPlace

(* A turn leaves what is not up without packets and without state. *)
LEMMA TurnOrdered ==
  ASSUME DdsTyped, NEW c \in Runtime, NEW packets, NEW head, NEW rest,
         Turn(c, packets, head, rest), NEW p \in Runtime, Ordered(p)
  PROVE  Ordered(p)'
<1>1. CASE p = c
  <2>1. spc'[p] # "down"  BY <1>1 DEF Turn
  <2>2. p \in PD /\ pdState'[p] # "IDLE" => spc'[p] # "stopped"  BY <1>1 DEF Turn
  <2> QED  BY <2>1, <2>2 DEF Ordered, Up
<1>2. CASE p # c
  <2>1. spc'[p] = spc[p] /\ wrote'[p] = wrote[p] /\ taken'[p] = taken[p] /\ got'[p] = got[p]
    BY <1>2 DEF Turn, Sends, Takes
  <2>2. p \in PD => pdState'[p] = pdState[p]  BY <1>2 DEF Turn
  <2> QED  BY <2>1, <2>2 DEF Ordered, Up
<1> QED  BY <1>1, <1>2

(* The parts of a stream, and what is added to its end. *)
LEMMA Rebracketed ==
  /\ \A a, b \in Seq(Packet) : a \o b \in Seq(Packet)
  /\ \A a, b, c \in Seq(Packet) : (a \o b) \o c = a \o (b \o c)
<1>1. ASSUME NEW a \in Seq(Packet), NEW b \in Seq(Packet), NEW c \in Seq(Packet)
      PROVE  (a \o b) \o c = a \o (b \o c)
  OBVIOUS
<1>2. ASSUME NEW a \in Seq(Packet), NEW b \in Seq(Packet)  PROVE a \o b \in Seq(Packet)
  OBVIOUS
<1> QED  BY <1>1, <1>2

Bracketed(a, b, c, d) ==
  /\ (a \o b) \o (c \o d) = ((a \o b) \o c) \o d
  /\ ((a \o b) \o c) \o d = a \o (b \o (c \o d))
  /\ b \o (c \o d) \in Seq(Packet)
  /\ (a \o b) \o c = a \o (b \o c) /\ b \o c \in Seq(Packet)
(* What is added to the end of a stream, however it is put together. *)
LEMMA Lengthened ==
  \A a, b, c, d \in Seq(Packet) : Bracketed(a, b, c, d)
<1>1. ASSUME NEW a \in Seq(Packet), NEW b \in Seq(Packet), NEW c \in Seq(Packet),
             NEW d \in Seq(Packet)
      PROVE  Bracketed(a, b, c, d)
  <2>1. c \o d \in Seq(Packet) /\ a \o b \in Seq(Packet) /\ b \o c \in Seq(Packet)
    BY Rebracketed, Zenon
  <2>2. b \o (c \o d) \in Seq(Packet)  BY <2>1, Rebracketed, Zenon
  <2>3. (a \o b) \o (c \o d) = ((a \o b) \o c) \o d
    <3>1. \A x \in Seq(Packet) : (x \o c) \o d = x \o (c \o d)  BY ThreeInARow
    <3> QED  BY <2>1, <3>1, Zenon
  <2>4. (a \o b) \o (c \o d) = a \o (b \o (c \o d))
    <3>1. \A x \in Seq(Packet) : (a \o b) \o x = a \o (b \o x)  BY Rebracketed, Zenon
    <3> QED  BY <2>1, <3>1, Zenon
  <2>5. ((a \o b) \o c) \o d = a \o (b \o (c \o d))  BY <2>3, <2>4, Zenon
  <2>6. (a \o b) \o c = a \o (b \o c)  BY Rebracketed, Zenon
  <2> QED  BY <2>1, <2>2, <2>3, <2>5, <2>6 DEF Bracketed
<1> QED  BY <1>1

(* The parts of a stream are packets. *)
LEMMA FlowTyped ==
  ASSUME DdsTyped, NEW p \in Runtime, NEW q \in Runtime, NEW t \in Topic, NEW links
  PROVE  /\ Among(got[p], links) \in Seq(Packet) /\ Among(taken[p], links) \in Seq(Packet)
         /\ Among(cache[p][t], links) \in Seq(Packet) /\ Among(wrote[q], links) \in Seq(Packet)
<1>1. /\ got[p] \in Seq(Packet) /\ taken[p] \in Seq(Packet) /\ cache[p][t] \in Seq(Packet)
      /\ wrote[q] \in Seq(Packet)
  BY DEF DdsTyped
<1> QED  BY <1>1, AmongTyped

(* What a turn adds to a stream is what it writes. *)
LEMMA TurnFlows ==
  ASSUME DdsTyped, NEW c \in Runtime, NEW packets, NEW head, NEW rest,
         Turn(c, packets, head, rest),
         NEW p \in Runtime, NEW q \in Runtime, NEW t \in Topic, Flows(p, q, t)
  PROVE  Flows(p, q, t)'
<1> DEFINE X == Between(p, q, t)
           a == Among(got[p], X)
           b == Among(taken[p], X)
           e == Among(cache[p][t], X)
           d == Among(packets, X)
           w == Among(wrote[q], X)
           h == Among(head, X)
           r == Among(rest, X)
<1>1. packets \in Seq(OnLinks(LinksFrom(c))) /\ packets \in Seq(Packet)
  BY OnLinksOnly DEF Turn, Sends
<1>2. head \in Seq(Packet) /\ rest \in Seq(Packet)  BY OnLinksOnly DEF Turn, Takes
<1>3. /\ a \in Seq(Packet) /\ b \in Seq(Packet) /\ e \in Seq(Packet) /\ d \in Seq(Packet)
      /\ w \in Seq(Packet) /\ h \in Seq(Packet) /\ r \in Seq(Packet)
  <2> HIDE DEF X
  <2>1. a \in Seq(Packet) /\ b \in Seq(Packet) /\ e \in Seq(Packet) /\ w \in Seq(Packet)
    BY FlowTyped
  <2>2. d \in Seq(Packet) /\ h \in Seq(Packet) /\ r \in Seq(Packet)
    BY <1>1, <1>2, AmongPackets
  <2> QED  BY <2>1, <2>2
<1>4. X \subseteq LinksOn[t] /\ X \subseteq LinksFrom(q)  BY DEF Between
<1>5. q # c => d = <<>>
  <2> SUFFICES ASSUME q # c PROVE d = <<>>  OBVIOUS
  <2>1. \A l \in LinksFrom(c) : l \notin X  BY DEF Between, LinksFrom
  <2> HIDE DEF X
  <2> QED  BY <1>1, <2>1, OnLinksOnly
<1>6. Among(wrote'[q], X) = w \o d
  <2> HIDE DEF X
  <2>1. wrote'[q] = IF q = c THEN wrote[q] \o packets ELSE wrote[q]  BY DEF Turn, Sends
  <2>2. CASE q = c
    <3>1. wrote[q] \in Seq(Packet)  BY DEF DdsTyped
    <3>2. Among(wrote[q] \o packets, X) = w \o d  BY <1>1, <3>1, AmongConcat
    <3> QED  BY <2>1, <2>2, <3>2
  <2>3. CASE q # c
    <3> HIDE DEF w, d
    <3>1. w \o <<>> = w  BY <1>3
    <3> QED  BY <1>5, <2>1, <2>3, <3>1 DEF w
  <2> QED  BY <2>2, <2>3
<1>7. Up(p) => Among(cache'[p][t], X) = e \o d
  <2> SUFFICES ASSUME Up(p) PROVE Among(cache'[p][t], X) = e \o d  OBVIOUS
  <2> DEFINE o == OnTopic(packets, t)
  <2>1. cache'[p][t] = cache[p][t] \o o  BY DEF Turn, Sends
  <2>2. cache[p][t] \in Seq(Packet)  BY DEF DdsTyped
  <2>3. o \in Seq(Packet)  BY <1>1, AmongPackets DEF OnTopic
  <2>4. Among(o, X) = d
    <3>1. Among(Among(packets, LinksOn[t]), X) = Among(packets, LinksOn[t] \cap X)
      <4> HIDE DEF X
      <4> QED  BY <1>1, AmongTwice
    <3>2. LinksOn[t] \cap X = X  BY <1>4
    <3> HIDE DEF X
    <3> QED  BY <3>1, <3>2 DEF OnTopic
  <2> HIDE DEF o, X
  <2>5. Among(cache[p][t] \o o, X) = e \o Among(o, X)  BY <2>2, <2>3, AmongConcat
  <2> QED  BY <2>1, <2>4, <2>5
<1>8. p = c => Among(got'[p], X) = a \o h /\ b = h \o r
               /\ (spc'[p] # "stopped" => Among(taken'[p], X) = r)
  <2> SUFFICES ASSUME p = c
      PROVE  Among(got'[p], X) = a \o h /\ b = h \o r
             /\ (spc'[p] # "stopped" => Among(taken'[p], X) = r)
    OBVIOUS
  <2>1. /\ taken[p] = head \o rest /\ got'[p] = got[p] \o head
        /\ spc'[p] # "stopped" => taken'[p] = rest
    BY DEF Turn, Takes
  <2>2. got[p] \in Seq(Packet)  BY DEF DdsTyped
  <2> HIDE DEF X
  <2>3. Among(got[p] \o head, X) = a \o h  BY <1>2, <2>2, AmongConcat
  <2>4. Among(head \o rest, X) = h \o r  BY <1>2, AmongConcat
  <2> QED  BY <2>1, <2>3, <2>4
<1>9. p # c => Among(got'[p], X) = a /\ Among(taken'[p], X) = b
  BY DEF Turn, Takes
<1>10. /\ p # c => spc'[p] = spc[p]
       /\ q # c => spc'[q] = spc[q]
       /\ spc[c] # "stopped" /\ Up(c)
  BY DEF Turn, Up
<1>11. /\ Up(p) => (a \o b) \o e = w \/ (spc[q] = "stopped" /\ (a \o b) \o e = <<>>)
       /\ \E z \in Seq(Packet) : w = a \o z
  BY DEF Flows, Stream
<1> DEFINE a1 == Among(got'[p], X)
           b1 == Among(taken'[p], X)
           e1 == Among(cache'[p][t], X)
           w1 == Among(wrote'[q], X)
<1>12. Flows(p, q, t)' <=>
         /\ spc'[p] \notin {"down", "stopped"} =>
              (a1 \o b1) \o e1 = w1 \/ (spc'[q] = "stopped" /\ (a1 \o b1) \o e1 = <<>>)
         /\ \E z \in Seq(Packet) : w1 = a1 \o z
  BY DEF Flows, Stream, Up, Between, LinksFrom
<1>13. /\ w1 = w \o d /\ (Up(p) => e1 = e \o d)
       /\ p = c => a1 = a \o h /\ b = h \o r /\ (spc'[p] # "stopped" => b1 = r)
       /\ p # c => a1 = a /\ b1 = b
  BY <1>6, <1>7, <1>8, <1>9
<1> HIDE DEF X, a, b, e, d, w, h, r, a1, b1, e1, w1
<1>14. p = c => (a \o h) \o r = a \o b
  <2> SUFFICES ASSUME p = c PROVE (a \o h) \o r = a \o b  OBVIOUS
  <2>1. b = h \o r  BY <1>13
  <2>2. (a \o h) \o r = a \o (h \o r)  BY <1>3, Rebracketed, Zenon
  <2> QED  BY <2>1, <2>2
<1>15. (a \o b) \o (e \o d) = ((a \o b) \o e) \o d
  <2>1. Bracketed(a, b, e, d)  BY <1>3, Lengthened
  <2> QED  BY <2>1 DEF Bracketed
<1>16. ASSUME spc'[p] \notin {"down", "stopped"}
       PROVE  (a1 \o b1) \o e1 = w1 \/ (spc'[q] = "stopped" /\ (a1 \o b1) \o e1 = <<>>)
  <2>1. Up(p)  BY <1>10, <1>16 DEF Up
  <2>2. a1 \o b1 = a \o b  BY <1>13, <1>14, <1>16
  <2>3. (a1 \o b1) \o e1 = ((a \o b) \o e) \o d  BY <1>13, <1>15, <2>1, <2>2
  <2>4. CASE (a \o b) \o e = w
    <3>1. (a1 \o b1) \o e1 = w1  BY <1>13, <2>3, <2>4
    <3> QED  BY <3>1
  <2>5. CASE spc[q] = "stopped" /\ (a \o b) \o e = <<>>
    <3>1. q # c  BY <1>10, <2>5
    <3>2. <<>> \o d = <<>>  BY <1>5, <3>1
    <3> QED  BY <1>10, <2>3, <2>5, <3>1, <3>2
  <2> QED  BY <1>11, <2>1, <2>4, <2>5
<1>17. \E z \in Seq(Packet) : w1 = a1 \o z
  <2>1. CASE p # c
    <3> PICK z \in Seq(Packet) : w = a \o z  BY <1>11
    <3>1. (a \o z) \o d = a \o (z \o d) /\ z \o d \in Seq(Packet)
      <4>1. Bracketed(a, z, d, d)  BY <1>3, Lengthened
      <4> QED  BY <4>1 DEF Bracketed
    <3> QED  BY <1>13, <2>1, <3>1
  <2>2. CASE p = c /\ (a \o b) \o e = w
    <3>1. a1 = a \o h  BY <1>13, <2>2
    <3>2. w1 = (((a \o h) \o r) \o e) \o d  BY <1>13, <1>14, <2>2
    <3> DEFINE g == a \o h
    <3>3. g \in Seq(Packet)  BY <1>3, Rebracketed, Zenon
    <3> HIDE DEF g
    <3>4. ((g \o r) \o e) \o d = g \o (r \o (e \o d)) /\ r \o (e \o d) \in Seq(Packet)
      <4>1. Bracketed(g, r, e, d)  BY <1>3, <3>3, Lengthened
      <4> QED  BY <4>1 DEF Bracketed
    <3> DEFINE z == r \o (e \o d)
    <3> HIDE DEF z
    <3>5. w1 = a1 \o z /\ z \in Seq(Packet)  BY <3>1, <3>2, <3>4 DEF g, z
    <3> QED  BY <3>5
  <2>3. CASE p = c /\ (a \o b) \o e = <<>>
    <3>1. a \o b \in Seq(Packet)  BY <1>3, Rebracketed, Zenon
    <3>2. a \o b = <<>>  BY <1>3, <2>3, <3>1, EmptyParts
    <3>3. a = <<>> /\ b = <<>>  BY <1>3, <3>2, EmptyParts
    <3>4. h = <<>>  BY <1>3, <1>13, <2>3, <3>3, EmptyParts
    <3>5. a1 = <<>>  BY <1>13, <2>3, <3>3, <3>4
    <3>6. w1 \in Seq(Packet)  BY <1>3, <1>13
    <3>7. w1 = <<>> \o w1  BY <3>6
    <3> QED  BY <3>5, <3>6, <3>7
  <2> QED  BY <1>10, <1>11, <2>1, <2>2, <2>3
<1> QED  BY <1>12, <1>16, <1>17

(* A visit moves the head of what a reader holds to what its server took,    *)
(* less what is for others.                                                  *)
LEMMA VisitFlows ==
  ASSUME DdsTyped, NEW c \in Runtime, NEW u \in Topic, Visit(c, u), InPlace(c),
         NEW p \in Runtime, NEW q \in Runtime, NEW t \in Topic, Flows(p, q, t)
  PROVE  Flows(p, q, t)' /\ InPlace(c)' /\ taken'[c] \in Seq(Packet)
<1> DEFINE s == cache[c][u]
           n == Min({Len(s), TakeMax})
           batch == SubSeq(s, 1, n)
           left == SubSeq(s, n + 1, Len(s))
           X == Between(p, q, t)
           P == OnLinks(LinksOn[u])
<1>1. n \in 0..Len(s)
  <2>1. Len(s) \in Nat
    <3>1. s \in Seq(Packet)  BY DEF DdsTyped
    <3> HIDE DEF s
    <3> QED  BY <3>1
  <2>2. {Len(s), TakeMax} \in SUBSET Nat  BY <2>1, DdsAssumption
  <2>3. n \in {Len(s), TakeMax} /\ \A y \in {Len(s), TakeMax} : n <= y  BY <2>2, MinIsLeast
  <2> HIDE DEF n, s
  <2>4. n \in Nat /\ n <= Len(s)  BY <2>2, <2>3
  <2> QED  BY <2>1, <2>4
<1>2. batch \in Seq(P) /\ left \in Seq(P) /\ batch \o left = s
  <2>1. s \in Seq(P)  BY DEF InPlace
  <2> HIDE DEF s, n, P
  <2> QED  BY <1>1, <2>1, CutInTwo
<1>3. batch \in Seq(Packet) /\ left \in Seq(Packet)
  <2> HIDE DEF batch, left
  <2> QED  BY <1>2, OnLinksOnly
<1>4. {l \in DdsLink : TakenOn[c][l] > 0} = LinksTo[c]
  <2>1. LinksTo[c] \subseteq DdsLink  BY DEF LinksTo
  <2>2. \A l \in DdsLink : TakenOn[c][l] > 0 <=> l \in LinksTo[c]  BY TakesItsOwn
  <2> QED  BY <2>1, <2>2
<1> DEFINE mine == Among(batch, LinksTo[c])
<1>5. /\ taken' = [taken EXCEPT ![c] = mine] /\ taken[c] = <<>>
      /\ cache' = [cache EXCEPT ![c][u] = left]
      /\ UNCHANGED <<spc, wrote, got>>
  BY <1>4 DEF Visit, Left
<1>6. mine \in Seq(OnLinks(LinksTo[c])) /\ mine \in Seq(Packet)
  <2>1. LinksTo[c] \subseteq DdsLink  BY DEF LinksTo
  <2> HIDE DEF batch
  <2> QED  BY <1>3, <2>1, AmongPackets
<1>7. \A r \in Runtime : taken'[r] = IF r = c THEN mine ELSE taken[r]
  <2> HIDE DEF mine
  <2> QED  BY <1>5 DEF DdsTyped
<1>8. \A r \in Runtime, v \in Topic :
        cache'[r][v] = IF r = c /\ v = u THEN left ELSE cache[r][v]
  <2> HIDE DEF left
  <2> QED  BY <1>5 DEF DdsTyped
<1>9. InPlace(c)'
  <2> HIDE DEF mine, left
  <2>1. \A v \in Topic : cache'[c][v] \in Seq(OnLinks(LinksOn[v]))  BY <1>2, <1>8 DEF InPlace
  <2>2. taken'[c] \in Seq(OnLinks(LinksTo[c]))  BY <1>6, <1>7
  <2>3. wrote'[c] = wrote[c] /\ got'[c] = got[c]  BY <1>5
  <2> QED  BY <2>1, <2>2, <2>3 DEF InPlace
<1>10. Flows(p, q, t)'
  <2>1. CASE p # c
    <3> HIDE DEF mine, left
    <3>1. taken'[p] = taken[p] /\ cache'[p][t] = cache[p][t] /\ UNCHANGED <<spc, wrote, got>>
      BY <1>5, <1>7, <1>8, <2>1
    <3> QED  BY <3>1 DEF Flows, Stream, Up, Between, LinksFrom
  <2>2. CASE p = c
    <3> DEFINE a == Among(got[p], X)
               b == Among(mine, X)
               e == Among(cache[p][t], X)
               e1 == Among(cache'[p][t], X)
    <3>1. X \subseteq LinksTo[c] /\ X \subseteq LinksOn[t]  BY <2>2 DEF Between
    <3>2. b = Among(batch, X)
      <4>1. LinksTo[c] \cap X = X  BY <3>1
      <4> HIDE DEF X, batch
      <4> QED  BY <1>3, <4>1, AmongTwice
    <3>3. /\ a \in Seq(Packet) /\ b \in Seq(Packet) /\ e \in Seq(Packet) /\ e1 \in Seq(Packet)
      <4>1. cache'[p][t] \in Seq(Packet)
        <5> HIDE DEF left
        <5> QED  BY <1>3, <1>8 DEF DdsTyped
      <4> HIDE DEF X, mine
      <4> QED  BY <1>6, <4>1, FlowTyped, AmongPackets
    <3>4. b \o e1 = e
      <4>1. CASE t = u
        <5>1. Among(batch \o left, X) = Among(batch, X) \o Among(left, X)
          <6> HIDE DEF batch, left, X
          <6> QED  BY <1>3, AmongConcat
        <5>2. cache[p][t] = batch \o left /\ cache'[p][t] = left
          <6> HIDE DEF batch, left
          <6> QED  BY <1>2, <1>8, <2>2, <4>1 DEF s
        <5> HIDE DEF batch, left, X, mine
        <5> QED  BY <3>2, <5>1, <5>2
      <4>2. CASE t # u
        <5>1. \A l \in LinksOn[u] : l \notin X  BY <3>1, <4>2 DEF LinksOn
        <5>2. Among(batch, X) = <<>>
          <6> HIDE DEF batch, X
          <6> QED  BY <1>2, <5>1, OnLinksOnly
        <5>3. e1 = e
          <6> HIDE DEF left
          <6> QED  BY <1>8, <4>2
        <5> HIDE DEF b, e, e1, X, batch
        <5> QED  BY <3>2, <3>3, <5>2, <5>3
      <4> QED  BY <4>1, <4>2
    <3>5. /\ Flows(p, q, t) <=>
             /\ Up(p) => \/ (a \o Among(taken[p], X)) \o e = Among(wrote[q], X)
                         \/ spc[q] = "stopped" /\ (a \o Among(taken[p], X)) \o e = <<>>
             /\ \E z \in Seq(Packet) : Among(wrote[q], X) = a \o z
          /\ Flows(p, q, t)' <=>
             /\ Up(p) => \/ (a \o b) \o e1 = Among(wrote[q], X)
                         \/ spc[q] = "stopped" /\ (a \o b) \o e1 = <<>>
             /\ \E z \in Seq(Packet) : Among(wrote[q], X) = a \o z
      <4>1. taken'[p] = mine  BY <1>7, <2>2
      <4>2. UNCHANGED <<spc, wrote, got>>  BY <1>5
      <4> HIDE DEF mine
      <4> QED  BY <4>1, <4>2 DEF Flows, Stream, Up, Between, LinksFrom
    <3>6. Among(taken[p], X) = <<>>
      <4>1. taken[p] = <<>>  BY <1>5, <2>2
      <4> HIDE DEF X
      <4> QED  BY <4>1, AmongNone
    <3> HIDE DEF a, b, e, e1, X
    <3>7. (a \o b) \o e1 = a \o e  BY <3>3, <3>4, Rebracketed, Zenon
    <3>8. (a \o <<>>) \o e = a \o e  BY <3>3
    <3> QED  BY <3>5, <3>6, <3>7, <3>8
  <2> QED  BY <2>1, <2>2
<1>11. taken'[c] \in Seq(Packet)  BY <1>6, <1>7
<1> QED  BY <1>9, <1>10, <1>11

-----------------------------------------------------------------------------
(* What a new reader is given.                                               *)

FlatStep(seqs, f, i) == IF i = 1 THEN seqs[i] ELSE f[i - 1] \o seqs[i]
IsFlat(seqs, f, m) == f = [i \in 1..m |-> FlatStep(seqs, f, i)]

(* A recursive function that puts sequences one after the other exists. *)
LEMMA FlatsExist ==
  ASSUME NEW seqs
  PROVE  \A m \in Nat : \E f : IsFlat(seqs, f, m)
<1> DEFINE S == {m \in Nat : \E f : IsFlat(seqs, f, m)}
<1>1. 0 \in S
  <2> DEFINE g == [i \in 1..0 |-> FlatStep(seqs, <<>>, i)]
  <2>1. g = [i \in 1..0 |-> FlatStep(seqs, g, i)]  OBVIOUS
  <2> HIDE DEF g
  <2>2. IsFlat(seqs, g, 0)  BY <2>1 DEF IsFlat
  <2> QED  BY <2>2
<1>2. ASSUME NEW m \in Nat, m \in S  PROVE m + 1 \in S
  <2>1. PICK g : g = [i \in 1..m |-> FlatStep(seqs, g, i)]  BY <1>2 DEF IsFlat
  <2> DEFINE h == [i \in 1..m + 1 |-> FlatStep(seqs, g, i)]
  <2>2. ASSUME NEW i \in 1..m + 1  PROVE FlatStep(seqs, h, i) = FlatStep(seqs, g, i)
    <3>1. ASSUME i # 1  PROVE h[i - 1] = g[i - 1]
      <4>1. i - 1 \in 1..m /\ i - 1 \in 1..m + 1  BY <1>2, <2>2, <3>1
      <4>2. g[i - 1] = FlatStep(seqs, g, i - 1)  BY <2>1, <4>1
      <4> QED  BY <4>1, <4>2
    <3> HIDE DEF h
    <3> QED  BY <3>1 DEF FlatStep
  <2>3. h = [i \in 1..m + 1 |-> FlatStep(seqs, h, i)]
    <3>1. \A i \in 1..m + 1 : FlatStep(seqs, h, i) = FlatStep(seqs, g, i)  BY <2>2
    <3> QED  BY <3>1
  <2> HIDE DEF h
  <2>4. \E f : IsFlat(seqs, f, m + 1)  BY <2>3 DEF IsFlat
  <2> QED  BY <2>4
<1> HIDE DEF S
<1>3. Nat \subseteq S  BY <1>1, <1>2, CountingUp
<1> QED  BY <1>3 DEF S

(* FlattenSeq is its last value. *)
LEMMA FlattenIsFlat ==
  ASSUME NEW seqs, Len(seqs) \in Nat, Len(seqs) # 0
  PROVE  \E f : IsFlat(seqs, f, Len(seqs)) /\ FlattenSeq(seqs) = f[Len(seqs)]
<1> DEFINE flatten == CHOOSE f : f = [i \in 1..Len(seqs) |-> FlatStep(seqs, f, i)]
<1>1. flatten = [i \in 1..Len(seqs) |-> FlatStep(seqs, flatten, i)]
  <2>1. \E f : f = [i \in 1..Len(seqs) |-> FlatStep(seqs, f, i)]  BY FlatsExist DEF IsFlat
  <2> QED  BY <2>1
<1>2. FlattenSeq(seqs) = flatten[Len(seqs)]  BY DEF FlattenSeq, FlatStep
<1> HIDE DEF flatten
<1> QED  BY <1>1, <1>2 DEF IsFlat

(* Of sequences of which one at most, the k-th, has packets on some links,   *)
(* one after the other: those packets.                                       *)
LEMMA AmongFlattened ==
  ASSUME NEW P, NEW seqs \in Seq(Seq(P)), NEW links, NEW k \in Nat,
         \A i \in 1..Len(seqs) : i # k => Among(seqs[i], links) = <<>>
  PROVE  /\ FlattenSeq(seqs) \in Seq(P)
         /\ k \in 1..Len(seqs) => Among(FlattenSeq(seqs), links) = Among(seqs[k], links)
         /\ k \notin 1..Len(seqs) => Among(FlattenSeq(seqs), links) = <<>>
<1> PICK m \in Nat : m = Len(seqs)  OBVIOUS
<1>1. CASE m = 0
  <2>1. FlattenSeq(seqs) = seqs
    <3>1. Len(seqs) = 0  BY <1>1
    <3> QED  BY <3>1 DEF FlattenSeq
  <2>2. seqs = <<>>
    <3>1. Len(seqs) = 0  BY <1>1
    <3> QED  BY <3>1
  <2>3. <<>> \in Seq(P) /\ k \notin 1..m  BY <1>1
  <2>4. Among(seqs, links) = <<>>  BY <2>2, AmongNone
  <2>5. FlattenSeq(seqs) \in Seq(P)  BY <2>1, <2>2, <2>3
  <2> QED  BY <2>1, <2>3, <2>4, <2>5
<1>2. CASE m # 0
  <2>1. PICK f : IsFlat(seqs, f, m) /\ FlattenSeq(seqs) = f[m]  BY <1>2, FlattenIsFlat
  <2>2. \A i \in 1..m : f[i] = FlatStep(seqs, f, i)  BY <2>1 DEF IsFlat
  <2>3. \A i \in 1..m : seqs[i] \in Seq(P)  OBVIOUS
  <2> DEFINE Good(i) == /\ f[i] \in Seq(P)
                        /\ k \in 1..i => Among(f[i], links) = Among(seqs[k], links)
                        /\ k \notin 1..i => Among(f[i], links) = <<>>
             S == {i \in Nat : i \in 1..m => Good(i)}
  <2>4. 0 \in S  OBVIOUS
  <2>5. ASSUME NEW i \in Nat, i \in S  PROVE i + 1 \in S
    <3> SUFFICES ASSUME i + 1 \in 1..m PROVE Good(i + 1)  OBVIOUS
    <3>1. CASE i = 0
      <4>1. f[1] = seqs[1]  BY <2>2, <3>1 DEF FlatStep
      <4>2. k \in 1..1 <=> k = 1  OBVIOUS
      <4>3. k # 1 => Among(seqs[1], links) = <<>>  BY <3>1
      <4> QED  BY <2>3, <3>1, <4>1, <4>2, <4>3
    <3>2. CASE i # 0
      <4>1. i \in 1..m /\ i + 1 # 1 /\ (i + 1) - 1 = i  BY <3>2
      <4>2. f[i + 1] = f[i] \o seqs[i + 1]  BY <2>2, <4>1 DEF FlatStep
      <4>3. Good(i)  BY <2>5, <4>1
      <4>4. k \in 1..i + 1 <=> k \in 1..i \/ k = i + 1  BY <3>2
      <4>5. k = i + 1 => k \notin 1..i  OBVIOUS
      <4>6. k # i + 1 => Among(seqs[i + 1], links) = <<>>  OBVIOUS
      <4> PICK a \in Seq(P), b \in Seq(P) : a = f[i] /\ b = seqs[i + 1]  BY <2>3, <4>3
      <4>7. Among(a \o b, links) = Among(a, links) \o Among(b, links)  BY AmongConcat
      <4> PICK x \in Seq(P), y \in Seq(P) : x = Among(a, links) /\ y = Among(b, links)
        BY AmongTyped
      <4>8. a \o b \in Seq(P) /\ x \o <<>> = x /\ <<>> \o y = y  OBVIOUS
      <4>9. CASE k = i + 1  BY <4>2, <4>3, <4>4, <4>5, <4>7, <4>8, <4>9
      <4>10. CASE k # i + 1  BY <4>2, <4>3, <4>4, <4>6, <4>7, <4>8, <4>10
      <4> QED  BY <4>9, <4>10
    <3> QED  BY <3>1, <3>2
  <2> HIDE DEF S
  <2>6. Nat \subseteq S  BY <2>4, <2>5, CountingUp
  <2>7. m \in S /\ m \in 1..m  BY <1>2, <2>6
  <2>8. Good(m)  BY <2>7 DEF S
  <2> QED  BY <2>1, <2>8
<1> QED  BY <1>1, <1>2

(* A sequence of a set, each element once, has all of them. *)
LEMMA EveryOneOnce ==
  ASSUME NEW S, IsFiniteSet(S), NEW ws \in SetToSeqs(S)
  PROVE  /\ Cardinality(S) \in Nat /\ ws \in Seq(S) /\ Len(ws) = Cardinality(S)
         /\ \A i, j \in 1..Len(ws) : i # j => ws[i] # ws[j]
         /\ \A q \in S : \E i \in 1..Len(ws) : ws[i] = q
<1> DEFINE n == Cardinality(S)
<1>1. n \in Nat  BY FS_CardinalityType
<1>2. ws \in [1..n -> S] /\ \A i, j \in 1..n : i # j => ws[i] # ws[j]  BY DEF SetToSeqs
<1> HIDE DEF n
<1>3. ws \in Seq(S) /\ Len(ws) = n  BY <1>1, <1>2
<1>4. ws \in Injection(1..n, S)  BY <1>2 DEF Injection, IsInjective
<1>5. Cardinality(1..n) = n  BY <1>1, FS_Interval
<1>6. ws \in Surjection(1..n, S)  BY <1>4, <1>5, FS_Injection DEF n
<1>7. \A q \in S : \E i \in 1..n : ws[i] = q  BY <1>6 DEF Surjection
<1> QED  BY <1>1, <1>2, <1>3, <1>7 DEF n

(* The processes are finitely many. *)
LEMMA RuntimeFinite == \A S \in SUBSET Runtime : IsFiniteSet(S)
<1>1. IsFiniteSet(PD)  BY DdsAssumption
<1>2. IsFiniteSet(PD \cup {Main})  BY <1>1, FS_AddElement
<1> QED  BY <1>2, FS_Subset DEF Runtime

(* A process that joins is given the streams of those that are up. *)
LEMMA JoinFlows ==
  ASSUME DdsInv, HistoriesHold, HistoriesHold', NEW c \in Runtime, Join(c),
         NEW p \in Runtime, NEW q \in Runtime, NEW t \in Topic
  PROVE  Flows(p, q, t)' /\ cache'[c][t] \in Seq(OnLinks(LinksOn[t]))
         /\ (p # c => cache'[p][t] = cache[p][t])
<1> DEFINE U == {r \in Runtime : Up(r)}
<1>1. PICK ws \in SetToSeqs(U) : cache' = [cache EXCEPT ![c] = [v \in Topic |-> Replayed(ws, v)]]
  BY DEF Join
<1>2. /\ spc[c] = "down" /\ spc' = [spc EXCEPT ![c] = IF c = Main THEN "loop" ELSE "joined"]
      /\ UNCHANGED <<taken, got, wrote>>
  BY DEF Join, servers
<1>3. /\ ws \in Seq(U) /\ \A i, j \in 1..Len(ws) : i # j => ws[i] # ws[j]
      /\ \A r \in U : \E i \in 1..Len(ws) : ws[i] = r
  <2>1. IsFiniteSet(U)  BY RuntimeFinite
  <2> HIDE DEF U
  <2> QED  BY <2>1, EveryOneOnce
<1> PICK m \in Nat : m = Len(ws)  BY <1>3
<1>4. DOMAIN ws = 1..m /\ \A i \in 1..m : ws[i] \in U
  <2> HIDE DEF U
  <2> QED  BY <1>3
<1> DEFINE seqs == [i \in 1..m |-> OnTopic(wrote[ws[i]], t)]
           P == OnLinks(LinksOn[t])
           X == Between(p, q, t)
<1>5. ASSUME NEW r \in Runtime
      PROVE  /\ OnTopic(wrote[r], t) \in Seq(P) /\ OnTopic(wrote[r], t) \in Seq(Packet)
             /\ Kept(OnTopic(wrote[r], t)) = OnTopic(wrote[r], t)
  <2>1. wrote[r] \in Seq(Packet) /\ LinksOn[t] \subseteq DdsLink
    BY DEF DdsInv, DdsTyped, LinksOn
  <2>2. OnTopic(wrote[r], t) \in Seq(P) /\ OnTopic(wrote[r], t) \in Seq(Packet)
    BY <2>1, AmongPackets DEF OnTopic
  <2>3. Len(OnTopic(wrote[r], t)) <= KeepLast  BY DEF HistoriesHold
  <2>4. OnTopic(wrote[r], t) \in Seq(Packet)
          => (Len(OnTopic(wrote[r], t)) <= KeepLast
                => Kept(OnTopic(wrote[r], t)) = OnTopic(wrote[r], t))
    BY KeptWhole
  <2> QED  BY <2>2, <2>3, <2>4
<1>6. seqs \in Seq(Seq(P)) /\ Len(seqs) = m
  <2> HIDE DEF P
  <2>1. \A i \in 1..m : OnTopic(wrote[ws[i]], t) \in Seq(P)  BY <1>4, <1>5
  <2> QED  BY <2>1
<1>7. cache'[c][t] = FlattenSeq(seqs)
  <2>1. [i \in DOMAIN ws |-> Kept(OnTopic(wrote[ws[i]], t))] = seqs
    <3>1. \A i \in 1..m : Kept(OnTopic(wrote[ws[i]], t)) = OnTopic(wrote[ws[i]], t)
      BY <1>4, <1>5
    <3> QED  BY <1>4, <3>1
  <2> HIDE DEF seqs
  <2>2. cache'[c][t] = Kept(FlattenSeq(seqs))
    <3>1. Replayed(ws, t) = Kept(FlattenSeq(seqs))  BY <2>1 DEF Replayed
    <3>2. cache'[c] = [v \in Topic |-> Replayed(ws, v)]  BY <1>1 DEF DdsInv, DdsTyped
    <3> QED  BY <3>1, <3>2
  <2>3. Len(cache'[c][t]) < KeepLast  BY DEF HistoriesHold
  <2>4. FlattenSeq(seqs) \in Seq(P)
    <3> DEFINE none == {}
    <3>1. \A i \in 1..m : Among(seqs[i], none) = <<>>
      <4>1. \A s \in Seq(P) : Among(s, none) = <<>>
        <5> HIDE DEF P
        <5> QED  BY AmongNothing
      <4> HIDE DEF P, none
      <4> QED  BY <1>6, <4>1
    <3> HIDE DEF P, none
    <3> QED  BY <1>6, <3>1, AmongFlattened
  <2> HIDE DEF P
  <2> QED  BY <2>2, <2>3, <2>4, KeptWhole
<1>8. ASSUME NEW k \in Nat, \A i \in 1..m : i # k => ws[i] # q
      PROVE  /\ FlattenSeq(seqs) \in Seq(P)
             /\ k \in 1..m => Among(FlattenSeq(seqs), X) = Among(wrote[ws[k]], X)
             /\ k \notin 1..m => Among(FlattenSeq(seqs), X) = <<>>
  <2>1. ASSUME NEW i \in 1..m  PROVE Among(seqs[i], X) = Among(wrote[ws[i]], X)
    <3>1. wrote[ws[i]] \in Seq(Packet)  BY <1>4 DEF DdsInv, DdsTyped
    <3>2. LinksOn[t] \cap X = X  BY DEF Between
    <3>3. seqs[i] = Among(wrote[ws[i]], LinksOn[t])  BY DEF OnTopic
    <3> HIDE DEF X, seqs
    <3> QED  BY <3>1, <3>2, <3>3, AmongTwice
  <2>2. ASSUME NEW i \in 1..m, i # k  PROVE Among(seqs[i], X) = <<>>
    <3>1. wrote[ws[i]] \in Seq(OnLinks(LinksFrom(ws[i])))  BY <1>4 DEF DdsInv, InPlace
    <3>2. ws[i] # q  BY <1>8, <2>2
    <3>3. \A l \in LinksFrom(ws[i]) : l \notin X  BY <3>2 DEF Between, LinksFrom
    <3> HIDE DEF X, seqs
    <3> QED  BY <2>1, <3>1, <3>3, OnLinksOnly
  <2> HIDE DEF P, seqs, X
  <2> QED  BY <1>6, <2>1, <2>2, AmongFlattened
<1> HIDE DEF seqs
<1>9. cache'[c][t] \in Seq(P)
  <2>1. \E k \in Nat : \A i \in 1..m : i # k => ws[i] # q
    <3>1. CASE \E i \in 1..m : ws[i] = q
      <4>1. PICK k \in 1..m : ws[k] = q  BY <3>1
      <4>2. k \in Nat /\ \A i \in 1..m : i # k => ws[i] # q  BY <1>3, <4>1
      <4> QED  BY <4>2
    <3>2. CASE ~ \E i \in 1..m : ws[i] = q  BY <3>2
    <3> QED  BY <3>1, <3>2
  <2> QED  BY <1>7, <1>8, <2>1
<1>10. p # c => cache'[p][t] = cache[p][t]  BY <1>1 DEF DdsInv, DdsTyped
<1>11. Flows(p, q, t)'
  <2>1. /\ \A r \in Runtime : r # c => spc'[r] = spc[r]
        /\ spc'[c] \notin {"down", "stopped"}
    BY <1>2 DEF DdsInv, DdsTyped
  <2>2. Flows(p, q, t)  BY DEF DdsInv
  <2>3. CASE p # c
    <3>1. spc'[p] = spc[p] /\ (spc[q] = "stopped" => spc'[q] = "stopped")
      BY <1>2, <2>1, <2>3
    <3> QED  BY <1>2, <1>10, <2>2, <2>3, <3>1 DEF Flows, Stream, Up, Between, LinksFrom
  <2>4. CASE p = c
    <3> DEFINE e == Among(cache'[p][t], X)
               w == Among(wrote[q], X)
    <3>1. /\ Among(got[p], X) = <<>> /\ Among(taken[p], X) = <<>>
          /\ spc[q] = "down" => w = <<>>
      <4>1. got[p] = <<>> /\ taken[p] = <<>> /\ (spc[q] = "down" => wrote[q] = <<>>)
        BY <1>2, <2>4 DEF DdsInv, Ordered
      <4> HIDE DEF X
      <4> QED  BY <4>1, AmongNone
    <3>2. e \in Seq(Packet) /\ w \in Seq(Packet)
      <4>1. wrote[q] \in Seq(Packet)  BY DEF DdsInv, DdsTyped
      <4>2. cache'[p][t] \in Seq(Packet)
        <5>1. cache'[p][t] \in Seq(OnLinks(LinksOn[t]))  BY <1>9, <2>4
        <5> QED  BY <5>1, OnLinksOnly
      <4> HIDE DEF X
      <4> QED  BY <4>1, <4>2, AmongPackets
    <3>3. e = w \/ (spc'[q] = "stopped" /\ e = <<>>)
      <4>1. CASE Up(q)
        <5>1. PICK k \in 1..m : ws[k] = q  BY <1>3, <4>1
        <5>2. k \in Nat /\ \A i \in 1..m : i # k => ws[i] # q  BY <1>3, <5>1
        <5>3. Among(FlattenSeq(seqs), X) = Among(wrote[ws[k]], X)
          <6> HIDE DEF X, P
          <6> QED  BY <1>8, <5>2
        <5> HIDE DEF X
        <5> QED  BY <1>7, <2>4, <5>1, <5>3
      <4>2. CASE ~ Up(q)
        <5>1. \A i \in 1..m : i # 0 => ws[i] # q  BY <1>4, <4>2
        <5>2. 0 \in Nat /\ 0 \notin 1..m  OBVIOUS
        <5>3. Among(FlattenSeq(seqs), X) = <<>>
          <6> HIDE DEF X, P
          <6> QED  BY <1>8, <5>1, <5>2
        <5>4. e = <<>>
          <6> HIDE DEF X
          <6> QED  BY <1>7, <2>4, <5>3
        <5>5. CASE spc[q] = "down"  BY <3>1, <5>4, <5>5
        <5>6. CASE spc[q] = "stopped"
          <6>1. q # c  BY <1>2, <5>6
          <6> QED  BY <2>1, <5>4, <5>6, <6>1
        <5> QED  BY <4>2, <5>5, <5>6 DEF Up
      <4> QED  BY <4>1, <4>2
    <3>4. Flows(p, q, t)' <=>
            /\ spc'[p] \notin {"down", "stopped"} =>
                 \/ (Among(got[p], X) \o Among(taken[p], X)) \o e = w
                 \/ spc'[q] = "stopped" /\ (Among(got[p], X) \o Among(taken[p], X)) \o e = <<>>
            /\ \E z \in Seq(Packet) : w = Among(got[p], X) \o z
      BY <1>2 DEF Flows, Stream, Up, Between, LinksFrom
    <3> HIDE DEF e, w, X
    <3>5. (<<>> \o <<>>) \o e = e /\ w = <<>> \o w  BY <3>2
    <3> QED  BY <3>1, <3>2, <3>3, <3>4, <3>5
  <2> QED  BY <2>3, <2>4
<1> QED  BY <1>9, <1>10, <1>11

-----------------------------------------------------------------------------
(* Every other action is a turn of its process.                              *)

HasTurn(c) == \E packets, head, rest : Turn(c, packets, head, rest)

(* A turn keeps the invariant. *)
LEMMA TurnKeepsInv ==
  ASSUME DdsInv, DdsTyped', NEW c \in Runtime, HasTurn(c)
  PROVE  DdsInv'
<1>1. PICK packets, head, rest : Turn(c, packets, head, rest)  BY DEF HasTurn
<1>2. \A p \in Runtime : InPlace(p)'  BY <1>1, TurnInPlace DEF DdsInv
<1>3. \A p \in Runtime : Ordered(p)'  BY <1>1, TurnOrdered DEF DdsInv
<1>4. \A p, q \in Runtime, t \in Topic : Flows(p, q, t)'  BY <1>1, TurnFlows DEF DdsInv
<1> QED  BY <1>2, <1>3, <1>4 DEF DdsInv

(* A packet is on the interface it is written on. *)
LEMMA SampleOnLink ==
  ASSUME NEW p \in Runtime, NEW i \in DOMAIN InfoPort[p], NEW op \in DdsOp
  PROVE  /\ Sample(p, i, op) \in OnLinks(LinksFrom(p))
         /\ <<Sample(p, i, op)>> \in Seq(OnLinks(LinksFrom(p)))
<1>1. <<p, i>> \in LinksFrom(p) /\ <<p, i>> \in DdsLink  BY PortsAreNumbers DEF LinksFrom
<1>2. Sample(p, i, op) \in OnLinks(LinksFrom(p))  BY <1>1 DEF Sample, OnLinks, Packet
<1> DEFINE P == OnLinks(LinksFrom(p))
           x == Sample(p, i, op)
<1>3. x \in P  BY <1>2
<1> HIDE DEF P, x
<1>4. <<x>> \in Seq(P)  BY <1>3
<1> QED  BY <1>3, <1>4 DEF P, x

(* The packets of a broadcast are on links of the main process. *)
LEMMA BroadcastOnLinks ==
  ASSUME NEW op \in DdsOp
  PROVE  Broadcast(op) \in Seq(OnLinks(LinksFrom(Main)))
<1>1. Main \in Runtime  BY DEF Runtime
<1>2. InfoPort[Main] \in Seq(Nat)  BY <1>1, DdsAssumption
<1>3. Len(InfoPort[Main]) \in Nat /\ DOMAIN InfoPort[Main] = 1..Len(InfoPort[Main])  BY <1>2
<1> DEFINE P == OnLinks(LinksFrom(Main))
<1>4. \A i \in DOMAIN InfoPort[Main] : Sample(Main, i, op) \in P  BY <1>1, SampleOnLink
<1> HIDE DEF P
<1>5. Broadcast(op) \in Seq(P)  BY <1>3, <1>4 DEF Broadcast
<1> QED  BY <1>5 DEF P

(* A packet to the father is on a link of its domain. *)
LEMMA ToFatherOnLinks ==
  ASSUME NEW d \in PD, NEW op \in DdsOp
  PROVE  ToFather(d, op) \in Seq(OnLinks(LinksFrom(d)))
<1>1. d \in Runtime  BY DEF Runtime
<1>2. NbClient[d] + 1 \in DOMAIN InfoPort[d]  BY DdsAssumption
<1> QED  BY <1>1, <1>2, SampleOnLink DEF ToFather

(* A write reaches the end of every reader that is up: no history is full. *)
LEMMA WriteSends ==
  ASSUME DdsTyped, HistoriesHold', NEW c \in Runtime,
         NEW packets \in Seq(OnLinks(LinksFrom(c))), Write(c, packets)
  PROVE  /\ Sends(c, packets)
         /\ wrote' \in [Runtime -> Seq(Packet)] /\ cache' \in [Runtime -> [Topic -> Seq(Packet)]]
<1>1. packets \in Seq(Packet)  BY OnLinksOnly
<1>2. wrote' = [wrote EXCEPT ![c] = @ \o packets]
      /\ cache' = [q \in Runtime |-> [t \in Topic |->
                    IF Up(q) THEN Kept(cache[q][t] \o OnTopic(packets, t)) ELSE cache[q][t]]]
  BY DEF Write
<1>3. \A p \in Runtime : wrote'[p] = IF p = c THEN wrote[p] \o packets ELSE wrote[p]
  BY <1>2 DEF DdsTyped
<1>4. wrote' \in [Runtime -> Seq(Packet)]
  <2>1. wrote[c] \o packets \in Seq(Packet)
    <3>1. wrote[c] \in Seq(Packet)  BY DEF DdsTyped
    <3> QED  BY <1>1, <3>1, Rebracketed
  <2> QED  BY <1>2, <2>1 DEF DdsTyped
<1>5. ASSUME NEW p \in Runtime, NEW t \in Topic
      PROVE  /\ cache'[p][t] = IF Up(p) THEN cache[p][t] \o OnTopic(packets, t) ELSE cache[p][t]
             /\ cache'[p][t] \in Seq(Packet)
  <2> DEFINE s == cache[p][t] \o OnTopic(packets, t)
  <2>1. cache[p][t] \in Seq(Packet)  BY DEF DdsTyped
  <2>2. OnTopic(packets, t) \in Seq(Packet)  BY <1>1, AmongPackets DEF OnTopic
  <2>3. s \in Seq(Packet)  BY <2>1, <2>2, Rebracketed
  <2>4. cache'[p][t] = IF Up(p) THEN Kept(s) ELSE cache[p][t]  BY <1>2
  <2>5. Len(cache'[p][t]) < KeepLast  BY DEF HistoriesHold
  <2> HIDE DEF s
  <2>6. Up(p) => cache'[p][t] = s  BY <2>3, <2>4, <2>5, KeptWhole
  <2> QED  BY <2>1, <2>3, <2>4, <2>6 DEF s
<1>6. cache' \in [Runtime -> [Topic -> Seq(Packet)]]  BY <1>2, <1>5
<1> QED  BY <1>3, <1>4, <1>5, <1>6 DEF Sends

(* To write nothing is to send nothing. *)
LEMMA NothingSent ==
  ASSUME DdsTyped, NEW c \in Runtime, UNCHANGED <<wrote, cache>>
  PROVE  Sends(c, <<>>)
<1> DEFINE e == <<>>
<1>1. e \in Seq(OnLinks(LinksFrom(c))) /\ e \in Seq(Packet)  OBVIOUS
<1>2. \A p \in Runtime : wrote[p] \o e = wrote[p]
  <2>1. \A s \in Seq(Packet) : s \o e = s  OBVIOUS
  <2>2. \A p \in Runtime : wrote[p] \in Seq(Packet)  BY DEF DdsTyped
  <2> HIDE DEF e
  <2> QED  BY <2>1, <2>2
<1>3. \A p \in Runtime, t \in Topic : cache[p][t] \o OnTopic(e, t) = cache[p][t]
  <2>1. \A s \in Seq(Packet) : s \o <<>> = s  OBVIOUS
  <2>2. \A p \in Runtime, t \in Topic : cache[p][t] \in Seq(Packet)  BY DEF DdsTyped
  <2>3. \A t \in Topic : OnTopic(e, t) = <<>>  BY AmongNone DEF OnTopic
  <2> HIDE DEF e
  <2> QED  BY <2>1, <2>2, <2>3
<1> HIDE DEF e
<1>4. Sends(c, e)  BY <1>1, <1>2, <1>3 DEF Sends
<1> QED  BY <1>4 DEF e

(* To consume nothing leaves what was taken. *)
LEMMA NothingTaken ==
  ASSUME DdsTyped, NEW c \in Runtime, InPlace(c), UNCHANGED <<taken, got>>
  PROVE  Takes(c, <<>>, taken[c])
<1> DEFINE e == <<>>
<1>1. e \in Seq(OnLinks(LinksTo[c])) /\ taken[c] \in Seq(OnLinks(LinksTo[c]))
  BY DEF InPlace
<1>2. taken[c] = e \o taken[c] /\ got[c] \o e = got[c]
  <2>1. taken[c] \in Seq(Packet) /\ got[c] \in Seq(Packet)  BY DEF DdsTyped
  <2> QED  BY <2>1
<1> HIDE DEF e
<1>3. Takes(c, e, taken[c])  BY <1>1, <1>2 DEF Takes
<1> QED  BY <1>3 DEF e

(* A delivery consumes the first packet taken, and keeps the others unless   *)
(* the server stops.                                                         *)
LEMMA DeliveredTakes ==
  ASSUME DdsTyped, NEW c \in Runtime, InPlace(c), NEW stops, Delivered(c, stops),
         stops => spc'[c] = "stopped"
  PROVE  /\ Takes(c, <<Next1(c)>>, Tail(taken[c])) /\ Next1(c) \in OnLinks(LinksTo[c])
         /\ taken' \in [Runtime -> Seq(Packet)] /\ got' \in [Runtime -> Seq(Packet)]
<1> DEFINE P == OnLinks(LinksTo[c])
           x == Next1(c)
           s == taken[c]
<1>1. /\ s \in Seq(P) /\ s # <<>> /\ got[c] \in Seq(P)
      /\ taken' = [taken EXCEPT ![c] = IF stops THEN <<>> ELSE Tail(s)]
      /\ got' = [got EXCEPT ![c] = Append(@, x)]
  BY DEF Delivered, InPlace
<1>2. /\ s = <<x>> \o Tail(s) /\ x \in P /\ Tail(s) \in Seq(P) /\ <<x>> \in Seq(P)
      /\ Append(got[c], x) = got[c] \o <<x>>
  <2> HIDE DEF P, s
  <2>1. x = Head(s)  BY DEF Next1, s
  <2> HIDE DEF x
  <2>2. /\ s = <<Head(s)>> \o Tail(s) /\ Head(s) \in P /\ Tail(s) \in Seq(P)
        /\ <<Head(s)>> \in Seq(P)
        /\ \A g \in Seq(P) : Append(g, Head(s)) = g \o <<Head(s)>>
    BY <1>1, HeadAndTail
  <2> QED  BY <1>1, <2>1, <2>2
<1>3. P \subseteq Packet  BY DEF OnLinks
<1> HIDE DEF P, x, s
<1>4. Append(got[c], x) \in Seq(Packet) /\ Tail(s) \in Seq(Packet) /\ <<>> \in Seq(Packet)
  <2>1. Append(got[c], x) \in Seq(P)  BY <1>1, <1>2
  <2> QED  BY <1>2, <1>3, <2>1
<1>5. taken' \in [Runtime -> Seq(Packet)]  BY <1>1, <1>4 DEF DdsTyped
<1>6. got' \in [Runtime -> Seq(Packet)]  BY <1>1, <1>4 DEF DdsTyped
<1>7. \A p \in Runtime : p # c => taken'[p] = taken[p] /\ got'[p] = got[p]
  BY <1>1 DEF DdsTyped
<1>8. /\ got'[c] = got[c] \o <<x>>
      /\ taken'[c] = Tail(s) \/ (taken'[c] = <<>> /\ spc'[c] = "stopped")
  BY <1>1, <1>2 DEF DdsTyped
<1>9. Takes(c, <<x>>, Tail(s))  BY <1>2, <1>7, <1>8 DEF Takes, P, s
<1> QED  BY <1>2, <1>5, <1>6, <1>9 DEF P, x, s

(* main_proc_consume_control_msg is a turn. *)
LEMMA MainConsumesTurns ==
  ASSUME DdsInv, HistoriesHold', MainConsumes
  PROVE  DdsTyped' /\ HasTurn(Main)
<1>1. Main \in Runtime /\ Main \notin PD  BY DdsAssumption DEF Runtime
<1>2. DdsTyped /\ InPlace(Main)  BY <1>1 DEF DdsInv
<1> DEFINE x == Next1(Main)
           stops == x.op = "KILL"
           reply(o) == <<Sample(Main, TakenOn[Main][x.link], o)>>
           P == OnLinks(LinksFrom(Main))
<1>3. Delivered(Main, stops) /\ UNCHANGED pdState  BY DEF MainConsumes
<1>4. spc[Main] = "loop"  BY <1>3 DEF Delivered
<1>5. taken[Main] # <<>>  BY <1>3 DEF Delivered
<1>6. x \in OnLinks(LinksTo[Main])
  <2>1. taken[Main] \in Seq(OnLinks(LinksTo[Main]))  BY <1>2 DEF InPlace
  <2> DEFINE s == taken[Main]
  <2> HIDE DEF s
  <2>2. s \in Seq(OnLinks(LinksTo[Main])) /\ s # <<>>  BY <1>5, <2>1 DEF s
  <2>3. Head(s) \in OnLinks(LinksTo[Main])  BY <2>2, HeadAndTail
  <2> QED  BY <2>3 DEF Next1, s
<1>7. \A o \in DdsOp : reply(o) \in Seq(P)
  <2>1. x.link \in DdsLink /\ x.link \in LinksTo[Main]  BY <1>6 DEF OnLinks, Packet
  <2>2. TakenOn[Main][x.link] \in DOMAIN InfoPort[Main]  BY <1>1, <2>1, TakesItsOwn
  <2> HIDE DEF x
  <2> QED  BY <1>1, <2>2, SampleOnLink
<1>8. \A o \in DdsOp : Broadcast(o) \in Seq(P)  BY BroadcastOnLinks
<1>9. <<>> \in Seq(P)  OBVIOUS
<1>10. \E packets \in Seq(P) : Write(Main, packets)
  <2> HIDE DEF P
  <2>1. CASE x.op = "CLIENT_INIT" /\ Write(Main,
                IF nbInit + 1 = Cardinality(PD) THEN Broadcast("INIT_MOD")
                ELSE IF nbInit + 1 > Cardinality(PD) THEN reply("INIT_MOD") ELSE <<>>)
    <3>1. "INIT_MOD" \in DdsOp  BY DEF DdsOp
    <3> HIDE DEF x, reply
    <3> QED  BY <1>7, <1>8, <1>9, <2>1, <3>1
  <2>2. CASE x.op = "CLIENT_READY" /\ Write(Main,
                IF nbReady + 1 = Cardinality(PD) THEN Broadcast("START_MOD")
                ELSE IF nbReady + 1 > Cardinality(PD) THEN reply("START_MOD") ELSE <<>>)
    <3>1. "START_MOD" \in DdsOp  BY DEF DdsOp
    <3> HIDE DEF x, reply
    <3> QED  BY <1>7, <1>8, <1>9, <2>2, <3>1
  <2>3. CASE Write(Main, LastOrders)
    <3>1. "KILL" \in DdsOp  BY DEF DdsOp
    <3> QED  BY <1>8, <2>3, <3>1 DEF LastOrders
  <2> QED  BY <2>1, <2>2, <2>3 DEF MainConsumes
<1>11. PICK packets \in Seq(P) : Write(Main, packets)  BY <1>10
<1>12. /\ spc' \in [Runtime -> {"down", "joined", "loop", "test", "announce", "stopped"}]
       /\ \A p \in Runtime : p # Main => spc'[p] = spc[p]
       /\ spc'[Main] # "down" /\ (stops => spc'[Main] = "stopped")
  <2>1. \/ spc' = spc /\ ~stops
        \/ spc' = [spc EXCEPT ![Main] = "stopped"]
    BY DEF MainConsumes
  <2> HIDE DEF stops
  <2> QED  BY <1>1, <1>2, <1>4, <2>1 DEF DdsTyped
<1>13. /\ Sends(Main, packets) /\ wrote' \in [Runtime -> Seq(Packet)]
       /\ cache' \in [Runtime -> [Topic -> Seq(Packet)]]
  BY <1>1, <1>2, <1>11, WriteSends
<1>14. /\ Takes(Main, <<x>>, Tail(taken[Main]))
       /\ taken' \in [Runtime -> Seq(Packet)] /\ got' \in [Runtime -> Seq(Packet)]
  <2> HIDE DEF stops
  <2> QED  BY <1>1, <1>2, <1>3, <1>12, DeliveredTakes
<1>15. Up(Main)  BY <1>4 DEF Up
<1> HIDE DEF x
<1>16. Turn(Main, packets, <<x>>, Tail(taken[Main]))
  BY <1>1, <1>3, <1>12, <1>13, <1>14, <1>15 DEF Turn
<1>17. HasTurn(Main)  BY <1>16 DEF HasTurn
<1> QED  BY <1>2, <1>3, <1>12, <1>13, <1>14, <1>17 DEF DdsTyped

(* domain_proc_consume_msg is a turn. *)
LEMMA DomainConsumesTurns ==
  ASSUME DdsInv, NEW d \in PD, DomainConsumes(d)
  PROVE  DdsTyped' /\ HasTurn(d)
<1>1. d \in Runtime  BY DEF Runtime
<1>2. DdsTyped /\ InPlace(d)  BY <1>1 DEF DdsInv
<1> DEFINE stops == Next1(d).op = "KILL"
<1>3. Delivered(d, stops) /\ UNCHANGED <<wrote, cache>>  BY DEF DomainConsumes
<1>4. spc[d] = "loop"  BY <1>3 DEF Delivered
<1>5. /\ \/ spc' = spc /\ ~stops
         \/ spc' = [spc EXCEPT ![d] = "test"] /\ ~stops
         \/ spc' = [spc EXCEPT ![d] = "stopped"] /\ pdState' = [pdState EXCEPT ![d] = "IDLE"]
      /\ \/ pdState' = pdState
         \/ pdState' = [pdState EXCEPT ![d] = "RUNNING"]
         \/ pdState' = [pdState EXCEPT ![d] = "IDLE"]
  BY DEF DomainConsumes
<1>6. /\ spc' \in [Runtime -> {"down", "joined", "loop", "test", "announce", "stopped"}]
      /\ \A p \in Runtime : p # d => spc'[p] = spc[p]
      /\ spc'[d] # "down" /\ (stops => spc'[d] = "stopped")
  <2> HIDE DEF stops
  <2> QED  BY <1>1, <1>2, <1>4, <1>5 DEF DdsTyped
<1>7. /\ pdState' \in [PD -> {"IDLE", "INIT", "READY", "RUNNING"}]
      /\ \A e \in PD : e # d => pdState'[e] = pdState[e]
      /\ spc'[d] = "stopped" => pdState'[d] = "IDLE"
  <2> HIDE DEF stops
  <2> QED  BY <1>1, <1>2, <1>4, <1>5 DEF DdsTyped
<1>8. Sends(d, <<>>)  BY <1>1, <1>2, <1>3, NothingSent
<1>9. /\ Takes(d, <<Next1(d)>>, Tail(taken[d]))
      /\ taken' \in [Runtime -> Seq(Packet)] /\ got' \in [Runtime -> Seq(Packet)]
  <2> HIDE DEF stops
  <2> QED  BY <1>1, <1>2, <1>3, <1>6, DeliveredTakes
<1>10. Up(d)  BY <1>4 DEF Up
<1>11. Turn(d, <<>>, <<Next1(d)>>, Tail(taken[d]))
  BY <1>6, <1>7, <1>8, <1>9, <1>10 DEF Turn
<1>12. HasTurn(d)  BY <1>11 DEF HasTurn
<1> QED  BY <1>2, <1>3, <1>6, <1>7, <1>9, <1>12 DEF DdsTyped

(* A domain that writes, or only goes on. *)
LEMMA SendingTurns ==
  ASSUME DdsInv, HistoriesHold', NEW d \in PD, Up(d), NEW packets \in Seq(OnLinks(LinksFrom(d))),
         Write(d, packets) \/ (UNCHANGED <<wrote, cache>> /\ packets = <<>>),
         UNCHANGED <<taken, got>>,
         NEW at \in {"loop", "announce"},
         spc' = spc \/ spc' = [spc EXCEPT ![d] = at],
         NEW st \in {"INIT", "READY"},
         pdState' = pdState \/ pdState' = [pdState EXCEPT ![d] = st]
  PROVE  DdsTyped' /\ HasTurn(d)
<1>1. d \in Runtime  BY DEF Runtime
<1>2. DdsTyped /\ InPlace(d)  BY <1>1 DEF DdsInv
<1>3. /\ spc' \in [Runtime -> {"down", "joined", "loop", "test", "announce", "stopped"}]
      /\ \A p \in Runtime : p # d => spc'[p] = spc[p]
      /\ spc'[d] \notin {"down", "stopped"}
  BY <1>1, <1>2 DEF DdsTyped, Up
<1>4. /\ pdState' \in [PD -> {"IDLE", "INIT", "READY", "RUNNING"}]
      /\ \A e \in PD : e # d => pdState'[e] = pdState[e]
  BY <1>2 DEF DdsTyped
<1>5. /\ Sends(d, packets) /\ wrote' \in [Runtime -> Seq(Packet)]
      /\ cache' \in [Runtime -> [Topic -> Seq(Packet)]]
  <2>1. CASE Write(d, packets)  BY <1>1, <1>2, <2>1, WriteSends
  <2>2. CASE UNCHANGED <<wrote, cache>> /\ packets = <<>>
    <3>1. Sends(d, <<>>)  BY <1>1, <1>2, <2>2, NothingSent
    <3> QED  BY <1>2, <2>2, <3>1 DEF DdsTyped
  <2> QED  BY <2>1, <2>2
<1>6. Takes(d, <<>>, taken[d])  BY <1>1, <1>2, NothingTaken
<1>7. Turn(d, packets, <<>>, taken[d])  BY <1>3, <1>4, <1>5, <1>6 DEF Turn
<1>8. HasTurn(d)  BY <1>7 DEF HasTurn
<1> QED  BY <1>2, <1>3, <1>4, <1>5, <1>8 DEF DdsTyped

-----------------------------------------------------------------------------
(* The invariant, and the order of what is consumed.                         *)

(* At first there is no packet. *)
LEMMA InitFlows == DdsInit => DdsInv
<1> SUFFICES ASSUME DdsInit PROVE DdsInv  OBVIOUS
<1> DEFINE e == <<>>
<1>1. e \in Seq(Packet) /\ (\A links : e \in Seq(OnLinks(links)))  OBVIOUS
<1>2. \A p \in Runtime : spc[p] = "down" /\ wrote[p] = e /\ got[p] = e /\ taken[p] = e
                         /\ \A t \in Topic : cache[p][t] = e
  BY DEF DdsInit
<1>3. DdsTyped  BY <1>1 DEF DdsInit, DdsTyped
<1>4. \A d \in PD : pdState[d] = "IDLE"  BY DEF DdsInit
<1> HIDE DEF e
<1>5. ASSUME NEW p \in Runtime  PROVE InPlace(p) /\ Ordered(p)
  <2>1. InPlace(p)  BY <1>1, <1>2 DEF InPlace
  <2>2. Ordered(p)  BY <1>2, <1>4 DEF Ordered, e
  <2> QED  BY <2>1, <2>2
<1>6. ASSUME NEW p \in Runtime, NEW q \in Runtime, NEW t \in Topic  PROVE Flows(p, q, t)
  <2>1. ~ Up(p)  BY <1>2 DEF Up
  <2>2. \A links : Among(wrote[q], links) = e /\ Among(got[p], links) = e
    BY <1>2, AmongNone DEF e
  <2>3. e = e \o e  BY DEF e
  <2> QED  BY <1>1, <2>1, <2>2, <2>3 DEF Flows
<1> QED  BY <1>3, <1>5, <1>6 DEF DdsInv

(* A visit keeps the invariant. *)
LEMMA VisitKeepsInv ==
  ASSUME DdsInv, NEW c \in Runtime, NEW u \in Topic, Visit(c, u)
  PROVE  DdsInv'
<1>1. DdsTyped /\ InPlace(c)  BY DEF DdsInv
<1>2. \A p, q \in Runtime, t \in Topic : Flows(p, q, t)'
  BY <1>1, VisitFlows DEF DdsInv
<1>3. InPlace(c)' /\ taken'[c] \in Seq(Packet)
  <2>1. \A p \in Runtime, q \in Runtime, t \in Topic : Flows(p, q, t)  BY DEF DdsInv
  <2>2. Flows(c, c, u)  BY <2>1
  <2> QED  BY <1>1, <2>2, VisitFlows
<1>4. UNCHANGED <<spc, wrote, got, pdState>>  BY DEF Visit
<1>5. \A p \in Runtime : p # c => taken'[p] = taken[p] /\ cache'[p] = cache[p]
  BY <1>1 DEF Visit, DdsTyped
<1>6. \A p \in Runtime : InPlace(p)'
  <2>1. ASSUME NEW p \in Runtime, p # c  PROVE InPlace(p)'
    <3>1. InPlace(p)  BY DEF DdsInv
    <3> QED  BY <1>4, <1>5, <2>1, <3>1 DEF InPlace, LinksFrom
  <2> QED  BY <1>3, <2>1
<1>7. ASSUME NEW p \in Runtime  PROVE Ordered(p)'
  <2>1. Ordered(p) /\ (p = c => spc[p] = "loop")  BY DEF DdsInv, Visit
  <2> QED  BY <1>4, <1>5, <2>1 DEF Ordered, Up
<1>8. DdsTyped'
  <2>1. taken' \in [Runtime -> Seq(Packet)]
    <3>1. \E x : taken' = [taken EXCEPT ![c] = x]  BY DEF Visit
    <3> QED  BY <1>1, <1>3, <3>1 DEF DdsTyped
  <2>2. cache' \in [Runtime -> [Topic -> Seq(Packet)]]
    <3>1. PICK x : cache' = [cache EXCEPT ![c][u] = x]  BY DEF Visit
    <3>2. cache'[c][u] \in Seq(OnLinks(LinksOn[u]))  BY <1>3 DEF InPlace
    <3>3. cache'[c][u] = x  BY <1>1, <3>1 DEF DdsTyped
    <3>4. x \in Seq(Packet)  BY <3>2, <3>3, OnLinksOnly
    <3> QED  BY <1>1, <3>1, <3>4 DEF DdsTyped
  <2> QED  BY <1>1, <1>4, <2>1, <2>2 DEF DdsTyped
<1> QED  BY <1>2, <1>6, <1>7, <1>8 DEF DdsInv

(* A process that joins keeps the invariant. *)
LEMMA JoinKeepsInv ==
  ASSUME DdsInv, HistoriesHold, HistoriesHold', NEW c \in Runtime, Join(c)
  PROVE  DdsInv'
<1>1. DdsTyped  BY DEF DdsInv
<1>2. \A p, q \in Runtime, t \in Topic : Flows(p, q, t)'  BY JoinFlows
<1>3. \A t \in Topic : cache'[c][t] \in Seq(OnLinks(LinksOn[t]))  BY JoinFlows
<1>4. \A p \in Runtime, t \in Topic : p # c => cache'[p][t] = cache[p][t]  BY JoinFlows
<1>5. /\ spc' = [spc EXCEPT ![c] = IF c = Main THEN "loop" ELSE "joined"]
      /\ UNCHANGED <<taken, got, wrote, pdState>>
      /\ \E f : cache' = [cache EXCEPT ![c] = [t \in Topic |-> f[t]]]
  <2>1. PICK ws : cache' = [cache EXCEPT ![c] = [t \in Topic |-> Replayed(ws, t)]]  BY DEF Join
  <2> DEFINE f == [t \in Topic |-> Replayed(ws, t)]
  <2>2. cache' = [cache EXCEPT ![c] = [t \in Topic |-> f[t]]]  BY <2>1
  <2> HIDE DEF f
  <2>3. \E g : cache' = [cache EXCEPT ![c] = [t \in Topic |-> g[t]]]  BY <2>2
  <2> QED  BY <2>3 DEF Join, servers
<1>6. \A p \in Runtime : InPlace(p)'
  <2>1. ASSUME NEW p \in Runtime  PROVE InPlace(p)'
    <3>1. InPlace(p)  BY DEF DdsInv
    <3>2. \A t \in Topic : cache'[p][t] \in Seq(OnLinks(LinksOn[t]))
      BY <1>3, <1>4, <3>1 DEF InPlace
    <3> QED  BY <1>5, <3>1, <3>2 DEF InPlace, LinksFrom
  <2> QED  BY <2>1
<1>7. ASSUME NEW p \in Runtime  PROVE Ordered(p)'
  <2>1. Ordered(p) /\ spc'[p] = IF p = c THEN (IF c = Main THEN "loop" ELSE "joined") ELSE spc[p]
    BY <1>1, <1>5 DEF DdsInv, DdsTyped
  <2> QED  BY <1>5, <2>1 DEF Ordered, Up
<1>8. DdsTyped'
  <2>1. ASSUME NEW t \in Topic  PROVE cache'[c][t] \in Seq(Packet)
    <3>1. cache'[c][t] \in Seq(OnLinks(LinksOn[t]))  BY <1>3
    <3> QED  BY <3>1, OnLinksOnly
  <2>2. PICK f : cache' = [cache EXCEPT ![c] = [t \in Topic |-> f[t]]]  BY <1>5
  <2>3. \A t \in Topic : f[t] \in Seq(Packet)  BY <1>1, <2>1, <2>2 DEF DdsTyped
  <2>4. cache' \in [Runtime -> [Topic -> Seq(Packet)]]  BY <1>1, <2>2, <2>3 DEF DdsTyped
  <2> QED  BY <1>1, <1>5, <2>4 DEF DdsTyped
<1> QED  BY <1>2, <1>6, <1>7, <1>8 DEF DdsInv

(* So does what changes nothing of the packets, the servers and the          *)
(* states.                                                                   *)
LEMMA StillKeepsInv ==
  ASSUME DdsInv, UNCHANGED <<spc, cache, taken, wrote, got, pdState>>
  PROVE  DdsInv'
<1>1. DdsTyped'  BY DEF DdsInv, DdsTyped
<1>2. \A p \in Runtime : InPlace(p)' /\ Ordered(p)'
  BY DEF DdsInv, InPlace, LinksFrom, Ordered, Up
<1>3. ASSUME NEW p \in Runtime, NEW q \in Runtime, NEW t \in Topic  PROVE Flows(p, q, t)'
  <2>1. Flows(p, q, t)  BY DEF DdsInv
  <2> QED  BY <2>1 DEF Flows, Stream, Up, Between, LinksFrom
<1> QED  BY <1>1, <1>2, <1>3 DEF DdsInv

(* Every step keeps the invariant. *)
LEMMA DdsStepKeepsInv ==
  ASSUME DdsInv, HistoriesHold, HistoriesHold', [DdsNext]_ddsVars
  PROVE  DdsInv'
<1> USE DEF Runtime
<1>1. CASE UNCHANGED ddsVars  BY <1>1, StillKeepsInv DEF ddsVars
<1>2. ASSUME NEW c \in Runtime, Join(c)  PROVE DdsInv'  BY <1>2, JoinKeepsInv
<1>3. ASSUME NEW c \in Runtime, NEW t \in Topic, Visit(c, t)  PROVE DdsInv'
  BY <1>3, VisitKeepsInv
<1>4. CASE MainConsumes
  <2>1. DdsTyped' /\ HasTurn(Main)  BY <1>4, MainConsumesTurns
  <2>2. Main \in Runtime  OBVIOUS
  <2> QED  BY <2>1, <2>2, TurnKeepsInv
<1>5. ASSUME NEW d \in PD, DdsTyped' /\ HasTurn(d)  PROVE DdsInv'
  <2>1. d \in Runtime  OBVIOUS
  <2> QED  BY <1>5, <2>1, TurnKeepsInv
<1>6. ASSUME NEW d \in PD, DomainConsumes(d)  PROVE DdsInv'
  BY <1>5, <1>6, DomainConsumesTurns
<1>7. ASSUME NEW d \in PD, SendReady(d) \/ SendInit(d)  PROVE DdsInv'
  <2>1. PICK op \in {"CLIENT_READY", "CLIENT_INIT"}, st \in {"INIT", "READY"} :
          Write(d, ToFather(d, op)) /\ pdState' = [pdState EXCEPT ![d] = st]
    BY <1>7 DEF SendReady, SendInit
  <2>2. Up(d) /\ spc' = [spc EXCEPT ![d] = "loop"] /\ UNCHANGED <<taken, got>>
    BY <1>7 DEF SendReady, SendInit, Up, servers
  <2>3. ToFather(d, op) \in Seq(OnLinks(LinksFrom(d)))  BY ToFatherOnLinks DEF DdsOp
  <2>4. DdsTyped' /\ HasTurn(d)  BY <2>1, <2>2, <2>3, SendingTurns
  <2> QED  BY <1>5, <2>4
<1>8. ASSUME NEW d \in PD, TestReady(d)  PROVE DdsInv'
  <2>1. PICK at \in {"loop", "announce"} : spc' = [spc EXCEPT ![d] = at]  BY <1>8 DEF TestReady
  <2>2. Up(d) /\ UNCHANGED <<taken, got, wrote, cache, pdState>>  BY <1>8 DEF TestReady, Up, servers
  <2> DEFINE e == <<>>
  <2>3. e \in Seq(OnLinks(LinksFrom(d)))  OBVIOUS
  <2> HIDE DEF e
  <2>4. DdsTyped' /\ HasTurn(d)  BY <2>1, <2>2, <2>3, SendingTurns DEF e
  <2> QED  BY <1>5, <2>4
<1>9. ASSUME NEW d \in PD, Modules(d)  PROVE DdsInv'
  <2>1. PICK m \in ModulesOf[d] : Initialized(d, m) \/ Notify(d, m)  BY <1>9 DEF Modules
  <2>2. CASE UNCHANGED <<spc, cache, taken, wrote, got, pdState>>  BY <2>2, StillKeepsInv
  <2>3. CASE /\ pdState[d] = "INIT" /\ Write(d, ToFather(d, "CLIENT_READY"))
             /\ pdState' = [pdState EXCEPT ![d] = "READY"] /\ UNCHANGED <<spc, taken, got>>
    <3>1. Up(d)  BY <2>3 DEF DdsInv, Ordered
    <3>2. ToFather(d, "CLIENT_READY") \in Seq(OnLinks(LinksFrom(d)))
      BY ToFatherOnLinks DEF DdsOp
    <3>3. DdsTyped' /\ HasTurn(d)  BY <2>3, <3>1, <3>2, SendingTurns
    <3> QED  BY <1>5, <3>3
  <2> QED  BY <2>1, <2>2, <2>3 DEF Initialized, Notify, servers
<1>10. ASSUME NEW d \in PD, SendData(d) \/ SendKill(d)  PROVE DdsInv'
  <2>1. PICK packets \in {<<Sample(d, DataInterface[d], "DATA")>>, ToFather(d, "KILL")} :
          Write(d, packets)
    BY <1>10 DEF SendData, SendKill
  <2>2. Up(d) /\ UNCHANGED <<spc, taken, got, pdState>>
    BY <1>10 DEF SendData, SendKill, servers
  <2>3. packets \in Seq(OnLinks(LinksFrom(d)))
    <3>1. d \in Runtime /\ DataInterface[d] \in DOMAIN InfoPort[d]  BY DdsAssumption
    <3>2. "DATA" \in DdsOp /\ "KILL" \in DdsOp  BY DEF DdsOp
    <3>3. <<Sample(d, DataInterface[d], "DATA")>> \in Seq(OnLinks(LinksFrom(d)))
      BY <3>1, <3>2, SampleOnLink
    <3> QED  BY <3>2, <3>3, ToFatherOnLinks
  <2>4. DdsTyped' /\ HasTurn(d)  BY <2>1, <2>2, <2>3, SendingTurns
  <2> QED  BY <1>5, <2>4
<1> QED
  BY <1>1, <1>2, <1>3, <1>4, <1>6, <1>7, <1>8, <1>9, <1>10 DEF DdsNext, MainServer, DomainServer

(* The invariant gives the order. *)
LEMMA InvGivesOrder ==
  ASSUME DdsInv
  PROVE  DdsInOrder
<1> SUFFICES ASSUME NEW p \in Runtime, NEW q \in Runtime
    PROVE  LET consumed == Among(got[p], {l \in DdsLink : l[1] = q})
               addressed == Among(wrote[q], LinksTo[p])
           IN /\ \A t \in Topic : IsPrefix(OnTopic(consumed, t), OnTopic(addressed, t))
              /\ \A i \in DOMAIN consumed :
                   ReadPort(p, TakenOn[p][consumed[i].link]) = Routing[consumed[i].link].tport
  BY DEF DdsInOrder
<1> DEFINE consumed == Among(got[p], LinksFrom(q))
           addressed == Among(wrote[q], LinksTo[p])
<1>1. /\ got[p] \in Seq(OnLinks(LinksTo[p])) /\ wrote[q] \in Seq(OnLinks(LinksFrom(q)))
      /\ got[p] \in Seq(Packet) /\ wrote[q] \in Seq(Packet)
  BY DEF DdsInv, InPlace, DdsTyped
<1>2. ASSUME NEW t \in Topic  PROVE IsPrefix(OnTopic(consumed, t), OnTopic(addressed, t))
  <2> DEFINE X == Between(p, q, t)
             Y == LinksFrom(q) \cap LinksOn[t]
             Z == LinksTo[p] \cap LinksOn[t]
  <2>1. OnTopic(consumed, t) = Among(got[p], Y)  BY <1>1, AmongTwice DEF OnTopic
  <2>2. OnTopic(addressed, t) = Among(wrote[q], Z)  BY <1>1, AmongTwice DEF OnTopic
  <2>3. \A l \in LinksTo[p] : l \in X <=> l \in Y  BY DEF Between
  <2>4. \A l \in LinksFrom(q) : l \in X <=> l \in Z  BY DEF Between
  <2> HIDE DEF X, Y, Z, consumed, addressed
  <2>5. Among(got[p], X) = Among(got[p], Y)  BY <1>1, <2>3, OnLinksOnly
  <2>6. Among(wrote[q], X) = Among(wrote[q], Z)  BY <1>1, <2>4, OnLinksOnly
  <2>7. PICK rest \in Seq(Packet) : Among(wrote[q], X) = Among(got[p], X) \o rest
    BY DEF DdsInv, Flows, X
  <2>8. Among(got[p], X) \in Seq(Packet)  BY <1>1, AmongPackets
  <2>9. IsPrefix(Among(got[p], X), Among(got[p], X) \o rest)  BY <2>8, PrefixOfWhole
  <2> QED  BY <2>1, <2>2, <2>5, <2>6, <2>7, <2>9
<1>3. ASSUME NEW i \in DOMAIN consumed
      PROVE  ReadPort(p, TakenOn[p][consumed[i].link]) = Routing[consumed[i].link].tport
  <2> DEFINE P == OnLinks(LinksTo[p])
  <2>1. consumed \in Seq(P)  BY <1>1, AmongTyped
  <2>2. consumed[i] \in P
    <3> HIDE DEF consumed, P
    <3> QED  BY <1>3, <2>1
  <2>3. consumed[i].link \in LinksTo[p] /\ consumed[i].link \in DdsLink
    <3> HIDE DEF consumed
    <3> QED  BY <2>2 DEF OnLinks, Packet
  <2> HIDE DEF consumed
  <2> QED  BY <2>3, TakesItsOwn
<1>4. LinksFrom(q) = {l \in DdsLink : l[1] = q}  BY DEF LinksFrom
<1> QED  BY <1>2, <1>3, <1>4

(* While the histories are deep enough for what is written, whatever the     *)
(* ports, the routes, the topics and the order in which processes join and   *)
(* stop, a process consumes in order, once and with no gap what another      *)
(* writes to it on a topic, on an interface that reads its port.             *)
THEOREM ConsumedInOrder == DdsSpec /\ []HistoriesHold => []DdsInOrder
<1>1. DdsInit => DdsInv  BY InitFlows
<1>2. DdsInv /\ HistoriesHold /\ HistoriesHold' /\ [DdsNext]_ddsVars => DdsInv'
  BY DdsStepKeepsInv
<1>3. DdsInv => DdsInOrder  BY InvGivesOrder
<1> QED  BY <1>1, <1>2, <1>3, PTL DEF DdsSpec
=============================================================================
