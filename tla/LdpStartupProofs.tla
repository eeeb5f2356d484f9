-------------------------- MODULE LdpStartupProofs --------------------------
(***************************************************************************)
(* Proofs about LdpStartup, for every set of domains and units, every      *)
(* launcher.txt, every number of crashes and of orders of a fault handler: *)
(* the units, the state of their domain and the counts of the main process *)
(* agree (StatesAgree), and when no domain crashes before the platform has *)
(* started, START_MOD is broadcast when every domain is READY              *)
(* (StartWhenAllReady).                                                    *)
(*                                                                         *)
(* The inductive invariant has three parts beside TypeOK.  Always says     *)
(* what every mode of the platform keeps; Plain follows the life of a      *)
(* domain that only INIT_MOD, START_MOD and KILL reach; Counts follows the *)
(* CLIENT_READY of the domains until the first fault.                      *)
(***************************************************************************)
EXTENDS LdpStartup, FiniteSetTheorems, SequenceTheorems, TLAPS

Ids(d) == {m.id : m \in ToSet(to_domain[d])}
Ops(u) == ToSet(queue[u])
Alive(d) == spc[d] \in {"poll", "starting"}
Announcing(d) == \E u \in Units(d) : upc[u] = "announce"

LauncherIdle == ~launcher_file => lpc = 0
KillEnds == \A d \in Domain : "KILL" \in Ids(d) \/ spc[d] = "stopped" => main = "ended"
ShutdownOrdered == \A d \in Domain : "SHUTDOWN" \in Ids(d) => orders > 0
DownIsEmpty ==
  \A u \in Unit : spc[DomainOf[u]] = "down" => Ops(u) = {} /\ ustate[u] = "IDLE" /\ upc[u] = "off"
AnnouncesAlone ==
  \A u, v \in Unit :
    upc[u] = "announce" /\ upc[v] = "announce" /\ DomainOf[u] = DomainOf[v] => u = v
FaultsLate == orders > 0 \/ (restarts > 0 /\ ~CrashesEarly) => nb_ready_clients >= PDNumber

Always ==
  /\ LauncherIdle
  /\ KillEnds
  /\ ShutdownOrdered
  /\ DownIsEmpty
  /\ AnnouncesAlone
  /\ FaultsLate

NotStarted(u) == "START" \notin Ops(u) /\ ustate[u] # "RUNNING"
Waiting(u) == "START" \notin Ops(u) /\ ustate[u] = "READY"

PlainMessages(d) == Ids(d) \subseteq {"INIT_MOD", "START_MOD", "KILL"}
PlainOps(d) ==
  \A u \in Units(d) : /\ Ops(u) \subseteq {"INITIALIZE", "START", "KILL"}
                      /\ "KILL" \in Ops(u) => ~Alive(d)

\* What the units are as far as the state of their domain tells.
Follows(d) ==
  /\ spc[d] = "poll" /\ state[d] \in {"IDLE", "INIT"} => \A u \in Units(d) : NotStarted(u)
  /\ spc[d] = "poll" /\ state[d] = "READY" => \A u \in Units(d) : Waiting(u)
  /\ Alive(d) /\ Announcing(d) =>
       /\ spc[d] = "poll" /\ state[d] \in {"INIT", "RUNNING"}
       /\ \A u \in Units(d) : Waiting(u)
  /\ spc[d] = "starting" =>
       /\ state[d] = "READY"
       /\ \A u \in Units(d) \ Trigger : Waiting(u)
TriggersLead(d) ==
  Alive(d) /\ (\E u \in Units(d) \ Trigger : ~NotStarted(u)) =>
    \A t \in Units(d) \cap Trigger : ustate[t] = "RUNNING"

Quiet == ~launcher_file /\ orders = 0
PlainDomain(d) == PlainMessages(d) /\ PlainOps(d) /\ Follows(d) /\ TriggersLead(d)
Plain == Quiet => \A d \in Domain : PlainDomain(d)

Far == {d \in Domain : state[d] \in {"READY", "RUNNING"}}
OnTheirWay == {d \in Domain : Announced(d) # {}}

CountsOf(d) ==
  /\ \A i, j \in Announced(d) : i = j
  /\ Announced(d) # {} => state[d] \in {"READY", "RUNNING"}
  /\ Announcing(d) => state[d] = "INIT"
  /\ spc[d] = "down" => state[d] = "IDLE"
  /\ "START_MOD" \in Ids(d) \/ spc[d] = "starting" \/ state[d] = "RUNNING" =>
       nb_ready_clients >= PDNumber

Faultless == restarts + orders = 0 /\ main = "running"
Counts ==
  Faultless =>
    /\ \A d \in Domain : CountsOf(d)
    /\ nb_ready_clients + Cardinality(OnTheirWay) = Cardinality(Far)

Inv == TypeOK /\ Always /\ Plain /\ Counts

-----------------------------------------------------------------------------
(* Sequences. *)

\* Any of a sequence is in its set: what ToSet says of Append, Tail and Head.
LEMMA Appended ==
  ASSUME NEW S, NEW s \in Seq(S), NEW e \in S
  PROVE  /\ Append(s, e) \in Seq(S) /\ ToSet(Append(s, e)) = ToSet(s) \cup {e}
         /\ Len(Append(s, e)) = Len(s) + 1 /\ Append(s, e)[Len(s) + 1] = e
         /\ \A i \in DOMAIN s : i \in DOMAIN Append(s, e) /\ Append(s, e)[i] = s[i]
<1>1. DOMAIN s = 1..Len(s) /\ Len(s) \in Nat  OBVIOUS
<1>2. DOMAIN Append(s, e) = 1..(Len(s) + 1)  OBVIOUS
<1>3. \A i \in 1..Len(s) : Append(s, e)[i] = s[i]  OBVIOUS
<1>4. Append(s, e)[Len(s) + 1] = e  OBVIOUS
<1> QED  BY <1>1, <1>2, <1>3, <1>4 DEF ToSet

\* The queue of which the first is taken holds nothing new.
LEMMA Taken ==
  ASSUME NEW S, NEW s \in Seq(S), s # <<>>
  PROVE  /\ Tail(s) \in Seq(S) /\ ToSet(Tail(s)) \subseteq ToSet(s)
         /\ Head(s) \in S /\ Head(s) \in ToSet(s)
         /\ Len(Tail(s)) = Len(s) - 1 /\ Head(s) = s[1]
         /\ \A i \in DOMAIN Tail(s) : i + 1 \in DOMAIN s /\ Tail(s)[i] = s[i + 1]
<1>1. DOMAIN s = 1..Len(s) /\ Len(s) \in Nat \ {0}  OBVIOUS
<1>2. Tail(s) \in Seq(S) /\ Len(Tail(s)) = Len(s) - 1 /\ DOMAIN Tail(s) = 1..(Len(s) - 1)
  BY <1>1
<1>3. \A i \in 1..(Len(s) - 1) : Tail(s)[i] = s[i + 1]  BY <1>1
<1>4. Head(s) = s[1] /\ s[1] \in S  BY <1>1
<1> QED  BY <1>1, <1>2, <1>3, <1>4 DEF ToSet

\* The set of the empty sequence, and of a sequence in Seq(S).
LEMMA SetOf ==
  /\ ToSet(<<>>) = {}
  /\ \A S : \A s \in Seq(S) : ToSet(s) \subseteq S
BY DEF ToSet

\* A set of natural numbers has a least one.
LEMMA MinIsLeast ==
  ASSUME NEW S \in SUBSET Nat, S # {}
  PROVE  Min(S) \in S /\ \A y \in S : Min(S) <= y
<1> DEFINE Below == {0 .. y : y \in S}
           R == StrictSubsetOrdering(Nat)
<1>1. Below \subseteq FiniteSubsetsOf(Nat) /\ Below # {}
  <2>1. \A y \in S : 0 .. y \in SUBSET Nat /\ IsFiniteSet(0 .. y)  BY FS_Interval
  <2> QED  BY <2>1 DEF FiniteSubsetsOf
<1>2. \E T \in Below : \A U \in Below : ~ (<<U, T>> \in R)
  <2> HIDE DEF Below, R
  <2>1. IsWellFoundedOn(StrictSubsetOrdering(Nat), FiniteSubsetsOf(Nat))
    BY FS_StrictSubsetOrderingWellFounded
  <2> QED  BY <1>1, <2>1, WFMin DEF R
<1>3. PICK x \in S : \A y \in S : ~ (<<0 .. y, 0 .. x>> \in R)
  BY <1>2
<1>4. ASSUME NEW y \in S, y < x  PROVE FALSE
  <2>1. 0 .. y \subseteq 0 .. x  BY <1>4
  <2>2. x \in 0 .. x /\ x \notin 0 .. y  BY <1>4
  <2>3. 0 .. y \in SUBSET Nat /\ 0 .. x \in SUBSET Nat  OBVIOUS
  <2>4. <<0 .. y, 0 .. x>> \in R  BY <2>1, <2>2, <2>3 DEF StrictSubsetOrdering
  <2> QED  BY <1>3, <2>4
<1>5. \A y \in S : x <= y
  BY <1>4
<1> QED  BY <1>5 DEF Min

\* The k-th of a set of positions: the least with k of them up to it.
LEMMA Kth ==
  ASSUME NEW n \in Nat, NEW A \in SUBSET (1..n), NEW k \in 1..Cardinality(A)
  PROVE  \E i \in A : Cardinality({j \in A : j <= i}) = k
<1> DEFINE UpTo(i) == {j \in A : j <= i}
           S == {i \in 0..n : Cardinality(UpTo(i)) >= k}
           m == Min(S)
<1>0. A \subseteq Int /\ \A j \in A : 1 <= j /\ j <= n  OBVIOUS
<1>1. IsFiniteSet(A) /\ Cardinality(A) \in Nat
  <2>1. IsFiniteSet(1..n)  BY FS_Interval
  <2> QED  BY <2>1, FS_Subset, FS_CardinalityType
<1>2. ASSUME NEW i \in Int  PROVE IsFiniteSet(UpTo(i)) /\ Cardinality(UpTo(i)) \in Nat
  <2>1. UpTo(i) \in SUBSET A  OBVIOUS
  <2> HIDE DEF UpTo
  <2> QED  BY <1>1, <2>1, FS_Subset, FS_CardinalityType
<1>3. UpTo(n) = A /\ UpTo(0) = {}
  <2>1. UpTo(n) = A  BY <1>0
  <2>2. \A j \in A : ~(j <= 0)  BY <1>0
  <2>3. UpTo(0) = {}  BY <2>2
  <2> QED  BY <2>1, <2>3
<1>4. n \in S /\ 0 \notin S
  <2> HIDE DEF UpTo
  <2> QED  BY <1>1, <1>3, FS_EmptySet
<1>5. m \in S /\ \A i \in S : m <= i
  <2>1. S \in SUBSET Nat  OBVIOUS
  <2> HIDE DEF S
  <2> QED  BY <1>4, <2>1, MinIsLeast
<1> HIDE DEF m
<1>6. m \in 1..n /\ Cardinality(UpTo(m)) >= k  BY <1>4, <1>5
<1>7. Cardinality(UpTo(m - 1)) < k
  <2>0. m - 1 \notin S
    <3> HIDE DEF S
    <3>1. ~(m <= m - 1)  BY <1>6
    <3> QED  BY <1>5, <3>1
  <2>1. m - 1 \in 0..n /\ m - 1 \notin S  BY <1>6, <2>0
  <2>2. Cardinality(UpTo(m - 1)) \in Nat  BY <1>2, <2>1
  <2>3. ~(Cardinality(UpTo(m - 1)) >= k)  BY <2>1
  <2> HIDE DEF UpTo
  <2> QED  BY <2>2, <2>3
<1>8. m \in A
  <2> SUFFICES ASSUME m \notin A  PROVE FALSE
    OBVIOUS
  <2>1. \A j \in A : j <= m <=> j <= m - 1  BY <1>0, <1>6
  <2>2. UpTo(m) = UpTo(m - 1)  BY <2>1
  <2>3. m \in Int  BY <1>6
  <2> HIDE DEF UpTo
  <2> QED  BY <1>6, <1>7, <2>2, <2>3, <1>2
<1>9. UpTo(m) = UpTo(m - 1) \cup {m} /\ m \notin UpTo(m - 1)
  <2>1. \A j \in A : j <= m <=> j <= m - 1 \/ j = m  BY <1>0, <1>6
  <2>2. ~(m <= m - 1)  BY <1>6
  <2> QED  BY <1>8, <2>1, <2>2
<1>10. Cardinality(UpTo(m)) = Cardinality(UpTo(m - 1)) + 1
  <2>1. m - 1 \in Int  BY <1>6
  <2>2. IsFiniteSet(UpTo(m - 1))  BY <1>2, <2>1
  <2> HIDE DEF UpTo
  <2> QED  BY <1>9, <2>2, FS_AddElement
<1>11. Cardinality(UpTo(m)) = k
  <2>1. m \in Int /\ m - 1 \in Int /\ k \in Int  BY <1>1, <1>6
  <2>2. Cardinality(UpTo(m - 1)) \in Nat  BY <1>2, <2>1
  <2> HIDE DEF UpTo
  <2> QED  BY <1>6, <1>7, <1>10, <2>1, <2>2
<1> QED  BY <1>8, <1>11

\* What is filtered is a sequence of members of both, and not longer.
LEMMA FilteredIsASequence ==
  ASSUME NEW T, NEW q \in Seq(T), NEW S
  PROVE  Filtered(q, S) \in Seq(T \cap S) /\ Len(Filtered(q, S)) \in 0..Len(q)
<1> DEFINE at == {i \in DOMAIN q : q[i] \in S}
           kth(k) == CHOOSE i \in at : Cardinality({j \in at : j <= i}) = k
<1>1. DOMAIN q = 1..Len(q) /\ Len(q) \in Nat  OBVIOUS
<1>2. IsFiniteSet(at) /\ Cardinality(at) \in 0..Len(q)
  <2>1. at \in SUBSET (1..Len(q))  BY <1>1
  <2> HIDE DEF at
  <2>2. IsFiniteSet(1..Len(q)) /\ Cardinality(1..Len(q)) = Len(q)  BY <1>1, FS_Interval
  <2>3. IsFiniteSet(at) /\ Cardinality(at) <= Len(q)  BY <2>1, <2>2, FS_Subset
  <2>4. Cardinality(at) \in Nat  BY <2>3, FS_CardinalityType
  <2> QED  BY <1>1, <2>3, <2>4
<1>3. ASSUME NEW k \in 1..Cardinality(at)  PROVE kth(k) \in at
  <2>1. at \in SUBSET (1..Len(q))  BY <1>1
  <2> HIDE DEF at
  <2>2. \E i \in at : Cardinality({j \in at : j <= i}) = k  BY <1>1, <2>1, Kth
  <2> QED  BY <2>2
<1> HIDE DEF kth
<1>4. \A k \in 1..Cardinality(at) : q[kth(k)] \in T \cap S  BY <1>3
<1>5. Filtered(q, S) = [k \in 1..Cardinality(at) |-> q[kth(k)]]  BY DEF Filtered, kth
<1> DEFINE c == Cardinality(at)
<1>6. c \in Nat  BY <1>1, <1>2
<1> HIDE DEF c, at
<1>7. Filtered(q, S) \in [1..c -> T \cap S]  BY <1>4, <1>5 DEF c
<1>8. Filtered(q, S) \in Seq(T \cap S) /\ Len(Filtered(q, S)) = c  BY <1>6, <1>7
<1> QED  BY <1>2, <1>8 DEF c

\* What is left of a queue by a clean is a queue.
LEMMA CleanedIsASequence ==
  ASSUME NEW q \in Seq(Life), NEW s  PROVE Cleaned(q, s) \in Seq(Life)
<1> DEFINE F == {i \in DOMAIN q : q[i] = "START"} \cup {Len(q) + 1}
           from == Min(F)
<1>1. from \in 1..(Len(q) + 1)
  <2>1. F \in SUBSET Nat /\ F # {} /\ F \subseteq 1..(Len(q) + 1)  OBVIOUS
  <2> HIDE DEF F
  <2> QED  BY <2>1, MinIsLeast
<1> HIDE DEF from
<1>2. \A i \in 1..Len(q) : q[i] \in Life  OBVIOUS
<1>3. SubSeq(q, 1, from - 1) \in Seq(Life) /\ SubSeq(q, from, Len(q)) \in Seq(Life)
  BY <1>1, <1>2, SubSeqProperties
<1>4. \A S : \A r \in Seq(Life) : Filtered(r, S) \in Seq(Life)
  <2>1. \A S : Life \cap S \subseteq Life  OBVIOUS
  <2> QED  BY <2>1, FilteredIsASequence, SeqMonotonic
<1>5. Filtered(SubSeq(q, 1, from - 1), {"KILL", "SHUTDOWN"}) \o SubSeq(q, from, Len(q))
        \in Seq(Life)
  <2>1. Filtered(SubSeq(q, 1, from - 1), {"KILL", "SHUTDOWN"}) \in Seq(Life)  BY <1>3, <1>4
  <2> QED  BY <1>3, <2>1, ConcatProperties
<1> QED  BY <1>4, <1>5 DEF Cleaned, from

-----------------------------------------------------------------------------
(* What the calls of the code do to the messages and the queues. *)

\* write_msg adds its message and no other (broadcast_to_client).
LEMMA Written ==
  ASSUME TypeOK, NEW ds, NEW msg \in ToDomain, to_domain' = WrittenTo(ds, msg)
  PROVE  /\ to_domain' \in [Domain -> Seq(ToDomain)]
         /\ \A d \in Domain : Ids(d)' \subseteq Ids(d) \cup {msg.id}
<1>1. \A d \in Domain : to_domain[d] \in Seq(ToDomain)  BY DEF TypeOK
<1>2. \A d \in Domain : to_domain'[d] \in {to_domain[d], Append(to_domain[d], msg)}
  BY DEF WrittenTo
<1>3. ASSUME NEW d \in Domain
      PROVE  to_domain'[d] \in Seq(ToDomain) /\ Ids(d)' \subseteq Ids(d) \cup {msg.id}
  <2>1. /\ Append(to_domain[d], msg) \in Seq(ToDomain)
        /\ ToSet(Append(to_domain[d], msg)) = ToSet(to_domain[d]) \cup {msg}
    BY <1>1, Appended
  <2>2. ToSet(to_domain'[d]) \subseteq ToSet(to_domain[d]) \cup {msg}  BY <1>2, <2>1
  <2> QED  BY <1>1, <1>2, <2>1, <2>2 DEF Ids
<1>4. to_domain' = [d \in Domain |-> to_domain'[d]]  BY DEF WrittenTo
<1> QED  BY <1>3, <1>4

\* The messages that the processes write are messages.
LEMMA MessagesAreTyped ==
  /\ \A i \in {"INIT_MOD", "START_MOD", "KILL", "SHUTDOWN"} : Msg(i) \in ToDomain /\ Msg(i).id = i
  /\ \A n \in ModuleId : \A o \in Life : Sync(n, o) \in ToDomain /\ Sync(n, o).id = "SYNC"
<1>1. 0 \in ModuleId  BY DEF ModuleId
<1> QED  BY <1>1 DEF Msg, Sync, ToDomain, Life

\* The first message is taken from a socket (domain_proc_consume_msg).
LEMMA Read ==
  ASSUME TypeOK, NEW d \in Domain, to_domain[d] # <<>>,
         to_domain' = [to_domain EXCEPT ![d] = Tail(@)]
  PROVE  /\ to_domain' \in [Domain -> Seq(ToDomain)]
         /\ Head(to_domain[d]) \in ToDomain /\ Head(to_domain[d]).id \in Ids(d)
         /\ \A e \in Domain : Ids(e)' \subseteq Ids(e)
<1>1. to_domain \in [Domain -> Seq(ToDomain)]  BY DEF TypeOK
<1>2. /\ Tail(to_domain[d]) \in Seq(ToDomain) /\ ToSet(Tail(to_domain[d])) \subseteq ToSet(to_domain[d])
      /\ Head(to_domain[d]) \in ToDomain /\ Head(to_domain[d]) \in ToSet(to_domain[d])
  BY <1>1, Taken
<1>3. to_domain' \in [Domain -> Seq(ToDomain)]  BY <1>1, <1>2
<1>4. \A e \in Domain : to_domain'[e] = IF e = d THEN Tail(to_domain[d]) ELSE to_domain[e]
  BY <1>1
<1>5. \A e \in Domain : ToSet(to_domain'[e]) \subseteq ToSet(to_domain[e])  BY <1>2, <1>4
<1> QED  BY <1>2, <1>3, <1>5 DEF Ids

\* comp_server_push_fifo adds its operation to the queues of its units.
LEMMA PushedTo ==
  ASSUME TypeOK, NEW us, NEW o \in Life, queue' = Pushed(us, o)
  PROVE  /\ queue' \in [Unit -> Seq(Life)]
         /\ \A u \in Unit : Ops(u)' = IF u \in us THEN Ops(u) \cup {o} ELSE Ops(u)
<1>1. \A u \in Unit : queue[u] \in Seq(Life)  BY DEF TypeOK
<1>2. \A u \in Unit : queue'[u] = IF u \in us THEN Append(queue[u], o) ELSE queue[u]
  BY DEF Pushed
<1>3. \A u \in Unit : /\ Append(queue[u], o) \in Seq(Life)
                      /\ ToSet(Append(queue[u], o)) = ToSet(queue[u]) \cup {o}
  BY <1>1, Appended
<1>4. queue' = [u \in Unit |-> queue'[u]]  BY DEF Pushed
<1>5. \A u \in Unit : queue'[u] \in Seq(Life)  BY <1>1, <1>2, <1>3
<1> QED  BY <1>2, <1>3, <1>4, <1>5 DEF Ops

-----------------------------------------------------------------------------
(* Types. *)

LEMMA InitTyped == Init => TypeOK
BY StartupAssumption DEF Init, TypeOK, ToMain, ToDomain, Life

LEMMA ConnectTyped == ASSUME TypeOK, NEW d \in Domain, Connect(d)  PROVE TypeOK'
BY DEF Connect, TypeOK, bounds

LEMMA SendInitTyped == ASSUME TypeOK, NEW d \in Domain, SendInit(d)  PROVE TypeOK'
<1>1. Append(to_main[d], "CLIENT_INIT") \in Seq(ToMain)  BY DEF TypeOK, ToMain
<1> QED  BY <1>1 DEF SendInit, TypeOK, mainVars, unitVars, bounds

LEMMA DomainConsumesTyped == ASSUME TypeOK, NEW d \in Domain, DomainConsumes(d)  PROVE TypeOK'
<1> DEFINE msg == Head(to_domain[d])
<1>1. to_domain' \in [Domain -> Seq(ToDomain)] /\ msg \in ToDomain
  BY Read DEF DomainConsumes
<1> HIDE DEF msg
<1>2. msg.op \in Life /\ {"INITIALIZE", "START", "KILL", "SHUTDOWN"} \subseteq Life
  BY <1>1 DEF ToDomain, Life
<1>3. queue' = queue \/ \E us : \E o \in Life : queue' = Pushed(us, o)
  BY <1>2 DEF DomainConsumes, msg
<1>4. queue' \in [Unit -> Seq(Life)]
  <2>1. CASE queue' = queue  BY <2>1 DEF TypeOK
  <2>2. CASE queue' # queue  BY <1>3, <2>2, PushedTo
  <2> QED  BY <2>1, <2>2
<1>5. /\ state' \in [Domain -> {"IDLE", "INIT", "READY", "RUNNING"}]
      /\ spc' \in [Domain -> {"down", "poll", "starting", "stopped"}]
      /\ nb_try' \in [Domain -> 0..NbTry] /\ gave_up' = gave_up
  <2>1. nb_try \in [Domain -> 0..NbTry] /\ NbTry \in 0..NbTry
    BY StartupAssumption DEF TypeOK
  <2>2. nb_try' \in [Domain -> 0..NbTry]  BY <2>1 DEF DomainConsumes, domainVars
  <2>3. state' \in [Domain -> {"IDLE", "INIT", "READY", "RUNNING"}]
    BY DEF DomainConsumes, TypeOK, domainVars
  <2>4. spc' \in [Domain -> {"down", "poll", "starting", "stopped"}]
    <3>1. \/ spc' = spc
          \/ \E x \in {"starting", "stopped"} : spc' = [spc EXCEPT ![d] = x]
      BY DEF DomainConsumes, domainVars
    <3> QED  BY <3>1 DEF TypeOK
  <2>5. gave_up' = gave_up  BY DEF DomainConsumes, TypeOK, domainVars
  <2> QED  BY <2>2, <2>3, <2>4, <2>5
<1>6. UNCHANGED <<main, launcher_file, lpc, sent, nb_init_clients, nb_ready_clients, link,
                  to_main, ustate, upc, restarts, orders>>
  BY DEF DomainConsumes, mainVars, bounds
<1> QED  BY <1>1, <1>4, <1>5, <1>6 DEF TypeOK

LEMMA AwaitTriggersTyped == ASSUME TypeOK, NEW d \in Domain, AwaitTriggers(d)  PROVE TypeOK'
<1>1. queue' = queue \/ queue' = Pushed(Units(d) \ Trigger, "START")
  BY DEF AwaitTriggers
<1>2. queue' \in [Unit -> Seq(Life)]
  <2>1. CASE queue' = queue  BY <2>1 DEF TypeOK
  <2>2. CASE queue' # queue  BY <1>1, <2>2, PushedTo DEF Life
  <2> QED  BY <2>1, <2>2
<1>3. /\ state' \in [Domain -> {"IDLE", "INIT", "READY", "RUNNING"}]
      /\ spc' \in [Domain -> {"down", "poll", "starting", "stopped"}]
      /\ nb_try' \in [Domain -> 0..NbTry] /\ gave_up' \in [Domain -> BOOLEAN]
  <2>1. nb_try \in [Domain -> 0..NbTry] /\ NbTry \in 0..NbTry
    BY StartupAssumption DEF TypeOK
  <2>2. nb_try' \in [Domain -> 0..NbTry]  BY <2>1 DEF AwaitTriggers, domainVars
  <2>3. state' \in [Domain -> {"IDLE", "INIT", "READY", "RUNNING"}]
    BY DEF AwaitTriggers, TypeOK, domainVars
  <2>4. spc' \in [Domain -> {"down", "poll", "starting", "stopped"}]
    BY DEF AwaitTriggers, TypeOK, domainVars
  <2>5. gave_up' \in [Domain -> BOOLEAN]  BY DEF AwaitTriggers, TypeOK, domainVars
  <2> QED  BY <2>2, <2>3, <2>4, <2>5
<1>4. UNCHANGED <<main, launcher_file, lpc, sent, nb_init_clients, nb_ready_clients, link,
                  to_main, to_domain, ustate, upc, restarts, orders>>
  BY DEF AwaitTriggers, mainVars, bounds
<1> QED  BY <1>2, <1>3, <1>4 DEF TypeOK

LEMMA UnitPopsTyped == ASSUME TypeOK, NEW u \in Unit, UnitPops(u)  PROVE TypeOK'
<1>1. Tail(queue[u]) \in Seq(Life)  BY Taken DEF UnitPops, TypeOK
<1>2. \A s : Cleaned(Tail(queue[u]), s) \in Seq(Life)  BY <1>1, CleanedIsASequence
<1>3. \E s \in {"IDLE", "READY", "RUNNING"}, q \in Seq(Life) : Becomes(u, s, q)
  BY <1>1, <1>2 DEF UnitPops, TypeOK
<1>4. /\ ustate' \in [Unit -> {"IDLE", "READY", "RUNNING"}] /\ queue' \in [Unit -> Seq(Life)]
  BY <1>3 DEF Becomes, TypeOK
<1>5. upc' \in [Unit -> {"off", "pop", "notify", "announce", "over"}]
  BY DEF UnitPops, TypeOK
<1> QED  BY <1>4, <1>5 DEF UnitPops, TypeOK, mainVars, domainVars, bounds

LEMMA NotifyTyped == ASSUME TypeOK, NEW u \in Unit, Notify(u)  PROVE TypeOK'
BY DEF Notify, TypeOK, mainVars, domainVars, bounds

LEMMA AnnounceTyped == ASSUME TypeOK, NEW u \in Unit, Announce(u)  PROVE TypeOK'
<1>1. DomainOf[u] \in Domain  BY StartupAssumption
<1>2. Append(to_main[DomainOf[u]], "CLIENT_READY") \in Seq(ToMain)  BY <1>1 DEF TypeOK, ToMain
<1> QED  BY <1>1, <1>2 DEF Announce, TypeOK, mainVars, bounds

LEMMA KillPlatformTyped == ASSUME TypeOK, NEW u \in Unit, KillPlatform(u)  PROVE TypeOK'
<1>1. DomainOf[u] \in Domain  BY StartupAssumption
<1>2. Append(to_main[DomainOf[u]], "KILL") \in Seq(ToMain)  BY <1>1 DEF TypeOK, ToMain
<1> QED  BY <1>1, <1>2 DEF KillPlatform, TypeOK, mainVars, domainVars, unitVars, bounds

LEMMA CrashTyped == ASSUME TypeOK, NEW d \in Domain, Crash(d)  PROVE TypeOK'
BY DEF Crash, TypeOK, mainVars

LEMMA MainConsumesTyped == ASSUME TypeOK, NEW d \in Domain, MainConsumes(d)  PROVE TypeOK'
<1>1. Tail(to_main[d]) \in Seq(ToMain)  BY Taken DEF MainConsumes, TypeOK
<1>2. to_main' \in [Domain -> Seq(ToMain)]  BY <1>1 DEF MainConsumes, TypeOK
<1>3. to_domain' = to_domain
        \/ \E ds : \E i \in {"INIT_MOD", "START_MOD", "KILL"} : to_domain' = WrittenTo(ds, Msg(i))
  BY DEF MainConsumes, ClientInit, ClientReady, Lost
<1>4. to_domain' \in [Domain -> Seq(ToDomain)]
  <2>1. CASE to_domain' = to_domain  BY <2>1 DEF TypeOK
  <2>2. CASE to_domain' # to_domain  BY <1>3, <2>2, Written, MessagesAreTyped
  <2> QED  BY <2>1, <2>2
<1>5. Len(Script) \in Nat  BY StartupAssumption
<1>6. nb_init_clients' \in Nat /\ nb_ready_clients' \in Nat /\ sent' = sent
  BY DEF MainConsumes, ClientInit, ClientReady, TypeOK
<1>7. main' \in {"running", "ended"}
  BY DEF MainConsumes, ClientInit, ClientReady, TypeOK
<1>8. lpc' \in 0..(Len(Script) + 1)
  <2>1. lpc' \in {lpc, 1}  BY DEF MainConsumes, ClientInit, ClientReady
  <2> QED  BY <1>5, <2>1 DEF TypeOK
<1>9. UNCHANGED <<launcher_file, link, state, spc, nb_try, gave_up, queue, ustate, upc, restarts,
                  orders>>
  BY DEF MainConsumes, domainVars, unitVars, bounds
<1> QED  BY <1>2, <1>4, <1>6, <1>7, <1>8, <1>9 DEF TypeOK

\* The units of a line are units, no more than the launching thread knows.
LEMMA TargetsAreUnits ==
  ASSUME NEW l \in DOMAIN Script
  PROVE  Targets[l] \in Seq(Unit) /\ Len(Targets[l]) \in 0..Len(Descriptors)
<1>1. \A S : Filtered(Descriptors, S) \in Seq(Unit \cap S)
              /\ Len(Filtered(Descriptors, S)) \in 0..Len(Descriptors)
  BY StartupAssumption, FilteredIsASequence
<1>2. \A S : Filtered(Descriptors, S) \in Seq(Unit)
  <2>1. \A S : Unit \cap S \subseteq Unit  OBVIOUS
  <2> QED  BY <1>1, <2>1, SeqMonotonic
<1> QED  BY <1>1, <1>2 DEF Targets

\* The order of the launching thread is a message for a module.
LEMMA OrderIsTyped ==
  ASSUME TypeOK, NEW l \in 1..Len(Script), NEW k \in 1..Len(Targets[l])
  PROVE  Sync(IdOf[Targets[l][k]], Script[l][1]) \in ToDomain
<1>1. l \in DOMAIN Script  BY StartupAssumption
<1>2. Targets[l][k] \in Unit  BY <1>1, TargetsAreUnits, ElementOfSeq
<1>3. IdOf[Targets[l][k]] \in ModuleId /\ Script[l][1] \in Life
  BY <1>1, <1>2, StartupAssumption
<1> QED  BY <1>3, MessagesAreTyped

LEMMA LauncherSendsTyped == ASSUME TypeOK, LauncherSends  PROVE TypeOK'
<1>1. Len(Script) \in Nat /\ DOMAIN Script = 1..Len(Script) /\ Len(Descriptors) \in Nat
  BY StartupAssumption
<1>2. lpc \in DOMAIN Script  BY <1>1 DEF LauncherSends
<1> DEFINE n == Len(Targets[lpc])
<1>3. n \in 0..Len(Descriptors)  BY <1>2, TargetsAreUnits
<1> DEFINE m == Sync(IdOf[Targets[lpc][sent + 1]], Script[lpc][1])
<1>4. sent < n => m \in ToDomain
  <2>1. sent < n => sent + 1 \in 1..n  BY <1>3 DEF TypeOK
  <2> QED  BY <1>1, <1>2, <2>1, OrderIsTyped
<1>5. to_domain' \in [Domain -> Seq(ToDomain)]
  <2> HIDE DEF m
  <2>1. to_domain' = to_domain \/ (sent < n /\ to_domain' = WrittenTo(Domain, m))
    BY DEF LauncherSends, m
  <2>2. CASE to_domain' = to_domain  BY <2>2 DEF TypeOK
  <2>3. CASE to_domain' # to_domain  BY <1>4, <2>1, <2>3, Written
  <2> QED  BY <2>2, <2>3
<1>6. sent' \in 0..Len(Descriptors) /\ lpc' \in 0..(Len(Script) + 1)
  <2> HIDE DEF m, n
  <2>1. \/ sent < n /\ sent' = sent + 1 /\ lpc' = lpc
        \/ sent' = 0 /\ lpc' = lpc + 1
    BY DEF LauncherSends, n
  <2>2. lpc \in 1..Len(Script) /\ sent \in 0..Len(Descriptors)  BY <1>1, <1>2 DEF TypeOK
  <2> QED  BY <1>1, <1>3, <2>1, <2>2
<1> QED  BY <1>5, <1>6 DEF LauncherSends, TypeOK, domainVars, unitVars, bounds

LEMMA FaultHandlerOrdersTyped ==
  ASSUME TypeOK, NEW d \in Domain, FaultHandlerOrders(d)  PROVE TypeOK'
<1>1. \E i \in Orders : to_domain' = WrittenTo({d}, Msg(i))  BY DEF FaultHandlerOrders
<1>2. PICK i \in Orders : to_domain' = WrittenTo({d}, Msg(i))  BY <1>1
<1>3. Msg(i) \in ToDomain  BY StartupAssumption, MessagesAreTyped
<1>4. to_domain' \in [Domain -> Seq(ToDomain)]  BY <1>2, <1>3, Written
<1>5. /\ orders' = orders + 1
      /\ UNCHANGED <<main, launcher_file, lpc, sent, nb_init_clients, nb_ready_clients, link,
                      to_main, state, spc, nb_try, gave_up, queue, ustate, upc, restarts>>
  BY DEF FaultHandlerOrders, mainVars, domainVars, unitVars
<1> QED  BY <1>4, <1>5 DEF TypeOK

LEMMA AcceptTyped == ASSUME TypeOK, NEW d \in Domain, Accept(d)  PROVE TypeOK'
BY DEF Accept, TypeOK, domainVars, unitVars, bounds

LEMMA MainReadsEofTyped == ASSUME TypeOK, NEW d \in Domain, MainReadsEof(d)  PROVE TypeOK'
BY DEF MainReadsEof, TypeOK, domainVars, unitVars, bounds

\* Every step keeps the types.
LEMMA StepTyped == TypeOK /\ [Next]_vars => TypeOK'
<1>1. ASSUME TypeOK, UNCHANGED vars  PROVE TypeOK'
  BY <1>1 DEF TypeOK, vars, mainVars, domainVars, unitVars, bounds
<1> QED
  BY <1>1, ConnectTyped, SendInitTyped, DomainConsumesTyped, AwaitTriggersTyped, UnitPopsTyped,
     NotifyTyped, AnnounceTyped, KillPlatformTyped, CrashTyped, MainConsumesTyped,
     LauncherSendsTyped, FaultHandlerOrdersTyped, AcceptTyped, MainReadsEofTyped
  DEF Next, ServerNext, UnitNext, MainNext

-----------------------------------------------------------------------------
(* What no step undoes, and which messages a step may write. *)

\* Counts do not go down, a platform that has ended does not run again and
\* launcher.txt stays.
Onward ==
  /\ launcher_file' = launcher_file
  /\ main = "ended" => main' = "ended"
  /\ nb_ready_clients' \in Nat /\ nb_ready_clients' >= nb_ready_clients
  /\ orders' \in Nat /\ orders' >= orders
  /\ restarts' \in Nat /\ restarts' >= restarts

\* A step of a domain or of its units leaves the main process as it is.
LEMMA MainApart ==
  ASSUME TypeOK, UNCHANGED <<main, launcher_file, nb_ready_clients, orders>>,
         restarts' \in {restarts, restarts + 1}
  PROVE  Onward
BY DEF TypeOK, Onward

\* Every step goes onward.
LEMMA StepGoesOnward == ASSUME TypeOK, Next  PROVE Onward
<1> USE DEF mainVars, domainVars, unitVars, bounds
<1>1. ASSUME NEW d \in Domain, Connect(d)  PROVE Onward  BY <1>1, MainApart DEF Connect
<1>2. ASSUME NEW d \in Domain, SendInit(d)  PROVE Onward  BY <1>2, MainApart DEF SendInit
<1>3. ASSUME NEW d \in Domain, DomainConsumes(d)  PROVE Onward
  BY <1>3, MainApart DEF DomainConsumes
<1>4. ASSUME NEW d \in Domain, AwaitTriggers(d)  PROVE Onward
  BY <1>4, MainApart DEF AwaitTriggers
<1>5. ASSUME NEW d \in Domain, Accept(d)  PROVE Onward  BY <1>5, MainApart DEF Accept
<1>6. ASSUME NEW d \in Domain, MainConsumes(d)  PROVE Onward
  BY <1>6 DEF MainConsumes, ClientInit, ClientReady, TypeOK, Onward
<1>7. ASSUME NEW d \in Domain, MainReadsEof(d)  PROVE Onward
  BY <1>7, MainApart DEF MainReadsEof
<1>8. ASSUME NEW d \in Domain, Crash(d)  PROVE Onward  BY <1>8, MainApart DEF Crash
<1>9. ASSUME NEW d \in Domain, FaultHandlerOrders(d)  PROVE Onward
  BY <1>9 DEF FaultHandlerOrders, TypeOK, Onward
<1>10. ASSUME NEW u \in Unit, UnitPops(u)  PROVE Onward  BY <1>10, MainApart DEF UnitPops
<1>11. ASSUME NEW u \in Unit, Notify(u)  PROVE Onward  BY <1>11, MainApart DEF Notify
<1>12. ASSUME NEW u \in Unit, Announce(u)  PROVE Onward  BY <1>12, MainApart DEF Announce
<1>13. ASSUME NEW u \in Unit, KillPlatform(u)  PROVE Onward
  BY <1>13, MainApart DEF KillPlatform
<1>14. ASSUME LauncherSends  PROVE Onward  BY <1>14, MainApart DEF LauncherSends
<1> QED
  BY <1>1, <1>2, <1>3, <1>4, <1>5, <1>6, <1>7, <1>8, <1>9, <1>10, <1>11, <1>12, <1>13, <1>14
  DEF Next, ServerNext, UnitNext, MainNext

\* What a message that is new tells: a KILL that the main process has ended, a
\* SHUTDOWN that a fault handler acted, START_MOD that every CLIENT_READY was
\* counted; and only the launching thread writes others.
News(d) ==
  /\ "KILL" \in Ids(d)' => "KILL" \in Ids(d) \/ main' = "ended"
  /\ "SHUTDOWN" \in Ids(d)' => "SHUTDOWN" \in Ids(d) \/ orders' > 0
  /\ "START_MOD" \in Ids(d)' => "START_MOD" \in Ids(d) \/ nb_ready_clients' >= PDNumber
  /\ Ids(d)' \subseteq Ids(d) \cup {"INIT_MOD", "START_MOD", "KILL"} \/ lpc > 0 \/ orders' > 0

LEMMA NoNews == ASSUME NEW d \in Domain, Ids(d)' \subseteq Ids(d)  PROVE News(d)
BY DEF News

LEMMA MainConsumesNews ==
  ASSUME TypeOK, NEW d \in Domain, MainConsumes(d), NEW e \in Domain  PROVE News(e)
<1>0. PDNumber \in Nat  BY StartupAssumption, FS_CardinalityType DEF PDNumber
<1>1. \/ to_domain' = to_domain
      \/ \E ds : to_domain' = WrittenTo(ds, Msg("INIT_MOD"))
      \/ (\E ds : to_domain' = WrittenTo(ds, Msg("START_MOD"))) /\ nb_ready_clients' >= PDNumber
      \/ (\E ds : to_domain' = WrittenTo(ds, Msg("KILL"))) /\ main' = "ended"
  <2>1. CASE ClientInit(d)  BY <2>1 DEF ClientInit, Lost
  <2>2. CASE ClientReady(d)
    <3>1. nb_ready_clients' \in Nat  BY <2>2 DEF ClientReady, TypeOK
    <3>2. \/ to_domain' = to_domain
          \/ (\E ds : to_domain' = WrittenTo(ds, Msg("START_MOD")))
               /\ (EverybodyReady(nb_ready_clients') \/ nb_ready_clients' > PDNumber)
      BY <2>2 DEF ClientReady, Lost
    <3> QED  BY <1>0, <3>1, <3>2 DEF EverybodyReady
  <2>3. CASE to_domain' = WrittenTo(Domain, Msg("KILL")) /\ main' = "ended"  BY <2>3
  <2> QED  BY <2>1, <2>2, <2>3 DEF MainConsumes
<1>2. CASE to_domain' = to_domain  BY <1>2, NoNews DEF Ids
<1>3. ASSUME NEW ds, to_domain' = WrittenTo(ds, Msg("INIT_MOD"))  PROVE News(e)
  <2>1. Ids(e)' \subseteq Ids(e) \cup {"INIT_MOD"}  BY <1>3, Written, MessagesAreTyped
  <2> QED  BY <2>1 DEF News
<1>4. ASSUME NEW ds, to_domain' = WrittenTo(ds, Msg("START_MOD")), nb_ready_clients' >= PDNumber
      PROVE  News(e)
  <2>1. Ids(e)' \subseteq Ids(e) \cup {"START_MOD"}  BY <1>4, Written, MessagesAreTyped
  <2> QED  BY <1>4, <2>1 DEF News
<1>5. ASSUME NEW ds, to_domain' = WrittenTo(ds, Msg("KILL")), main' = "ended"  PROVE News(e)
  <2>1. Ids(e)' \subseteq Ids(e) \cup {"KILL"}  BY <1>5, Written, MessagesAreTyped
  <2> QED  BY <1>5, <2>1 DEF News
<1> QED  BY <1>1, <1>2, <1>3, <1>4, <1>5

LEMMA LauncherNews ==
  ASSUME TypeOK, LauncherSends, NEW e \in Domain  PROVE News(e)
<1>1. Len(Script) \in Nat /\ lpc \in 1..Len(Script) /\ lpc > 0 /\ lpc \in DOMAIN Script
  BY StartupAssumption DEF LauncherSends
<1> DEFINE n == Len(Targets[lpc])
           m == Sync(IdOf[Targets[lpc][sent + 1]], Script[lpc][1])
<1>2. n \in 0..Len(Descriptors) /\ Len(Descriptors) \in Nat
  BY <1>1, TargetsAreUnits, StartupAssumption
<1>3. sent < n => m \in ToDomain /\ m.id = "SYNC"
  <2>1. sent < n => sent + 1 \in 1..n  BY <1>2 DEF TypeOK
  <2>2. sent < n => m \in ToDomain  BY <1>1, <2>1, OrderIsTyped
  <2> QED  BY <2>2 DEF Sync
<1> HIDE DEF m
<1>4. to_domain' = to_domain \/ (sent < n /\ to_domain' = WrittenTo(Domain, m))
  BY DEF LauncherSends, m
<1>5. Ids(e)' \subseteq Ids(e) \cup {"SYNC"}
  <2>1. CASE to_domain' = to_domain  BY <2>1 DEF Ids
  <2>2. CASE to_domain' # to_domain  BY <1>3, <1>4, <2>2, Written
  <2> QED  BY <2>1, <2>2
<1> QED  BY <1>1, <1>5 DEF News

LEMMA FaultHandlerNews ==
  ASSUME TypeOK, NEW d \in Domain, FaultHandlerOrders(d), NEW e \in Domain  PROVE News(e)
<1>1. PICK i \in Orders : to_domain' = WrittenTo({d}, Msg(i))  BY DEF FaultHandlerOrders
<1>2. i \in {"INIT_MOD", "START_MOD", "SHUTDOWN"}  BY StartupAssumption
<1>3. Msg(i) \in ToDomain /\ Msg(i).id = i  BY <1>2, MessagesAreTyped
<1>4. Ids(e)' \subseteq Ids(e) \cup {i}  BY <1>1, <1>3, Written
<1>5. orders' > 0 /\ nb_ready_clients' >= PDNumber
  BY DEF FaultHandlerOrders, mainVars, TypeOK
<1> QED  BY <1>2, <1>4, <1>5 DEF News

LEMMA StepNews == ASSUME TypeOK, Next, NEW e \in Domain  PROVE News(e)
<1> USE DEF mainVars, domainVars, unitVars, bounds
<1>0. ASSUME to_domain' = to_domain  PROVE News(e)  BY <1>0, NoNews DEF Ids
<1>1. ASSUME NEW d \in Domain, Connect(d)  PROVE News(e)
  <2>1. to_domain'[e] = <<>> \/ to_domain'[e] = to_domain[e]  BY <1>1 DEF Connect, TypeOK
  <2>2. Ids(e)' \subseteq Ids(e)  BY <2>1, SetOf DEF Ids
  <2> QED  BY <2>2, NoNews
<1>2. ASSUME NEW d \in Domain, SendInit(d)  PROVE News(e)  BY <1>0, <1>2 DEF SendInit
<1>3. ASSUME NEW d \in Domain, DomainConsumes(d)  PROVE News(e)
  <2>1. Ids(e)' \subseteq Ids(e)  BY <1>3, Read DEF DomainConsumes
  <2> QED  BY <2>1, NoNews
<1>4. ASSUME NEW d \in Domain, AwaitTriggers(d)  PROVE News(e)  BY <1>0, <1>4 DEF AwaitTriggers
<1>5. ASSUME NEW d \in Domain, Accept(d)  PROVE News(e)  BY <1>0, <1>5 DEF Accept
<1>6. ASSUME NEW d \in Domain, MainReadsEof(d)  PROVE News(e)  BY <1>0, <1>6 DEF MainReadsEof
<1>7. ASSUME NEW d \in Domain, Crash(d)  PROVE News(e)  BY <1>0, <1>7 DEF Crash
<1>8. ASSUME NEW u \in Unit, UnitPops(u)  PROVE News(e)  BY <1>0, <1>8 DEF UnitPops
<1>9. ASSUME NEW u \in Unit, Notify(u)  PROVE News(e)  BY <1>0, <1>9 DEF Notify
<1>10. ASSUME NEW u \in Unit, Announce(u)  PROVE News(e)  BY <1>0, <1>10 DEF Announce
<1>11. ASSUME NEW u \in Unit, KillPlatform(u)  PROVE News(e)  BY <1>0, <1>11 DEF KillPlatform
<1> QED
  BY <1>1, <1>2, <1>3, <1>4, <1>5, <1>6, <1>7, <1>8, <1>9, <1>10, <1>11,
     MainConsumesNews, LauncherNews, FaultHandlerNews
  DEF Next, ServerNext, UnitNext, MainNext

-----------------------------------------------------------------------------
(* What always holds. *)

LEMMA InitAlways == Init => Always
<1> SUFFICES ASSUME Init  PROVE Always
  OBVIOUS
<1>1. \A d \in Domain : Ids(d) = {} /\ spc[d] = "down"  BY SetOf DEF Init, Ids
<1>2. \A u \in Unit : Ops(u) = {} /\ ustate[u] = "IDLE" /\ upc[u] = "off"
  BY SetOf DEF Init, Ops
<1> QED
  BY <1>1, <1>2 DEF Init, Always, LauncherIdle, KillEnds, ShutdownOrdered, DownIsEmpty,
                    AnnouncesAlone, FaultsLate

LEMMA LauncherIdleKept == ASSUME TypeOK, LauncherIdle, Next  PROVE LauncherIdle'
<1> USE DEF mainVars, domainVars, unitVars, bounds, LauncherIdle
<1>1. ASSUME NEW d \in Domain, MainConsumes(d)  PROVE LauncherIdle'
  BY <1>1 DEF MainConsumes, ClientInit, ClientReady
<1>2. ASSUME LauncherSends  PROVE LauncherIdle'
  <2>1. Len(Script) \in Nat  BY StartupAssumption
  <2>2. lpc # 0  BY <1>2, <2>1 DEF LauncherSends
  <2> QED  BY <1>2, <2>2 DEF LauncherSends
<1>3. ASSUME UNCHANGED <<launcher_file, lpc>>  PROVE LauncherIdle'  BY <1>3
<1>4. ASSUME NEW d \in Domain,
             Connect(d) \/ SendInit(d) \/ DomainConsumes(d) \/ AwaitTriggers(d) \/ Accept(d)
               \/ MainReadsEof(d) \/ Crash(d) \/ FaultHandlerOrders(d)
      PROVE  UNCHANGED <<launcher_file, lpc>>
  BY <1>4 DEF Connect, SendInit, DomainConsumes, AwaitTriggers, Accept, MainReadsEof, Crash,
              FaultHandlerOrders
<1>5. ASSUME NEW u \in Unit, UnitPops(u) \/ Notify(u) \/ Announce(u) \/ KillPlatform(u)
      PROVE  UNCHANGED <<launcher_file, lpc>>
  BY <1>5 DEF UnitPops, Notify, Announce, KillPlatform
<1> QED
  BY <1>1, <1>2, <1>3, <1>4, <1>5 DEF Next, ServerNext, UnitNext, MainNext

\* A server stops for a KILL that it reads.
LEMMA Stops ==
  ASSUME TypeOK, Next, NEW d \in Domain, spc'[d] = "stopped"
  PROVE  spc[d] = "stopped" \/ "KILL" \in Ids(d)
<1> USE DEF mainVars, domainVars, unitVars, bounds
<1>1. ASSUME NEW e \in Domain, DomainConsumes(e)
      PROVE  spc[d] = "stopped" \/ "KILL" \in Ids(d)
  <2>1. Head(to_domain[e]).id \in Ids(e)  BY <1>1, Read DEF DomainConsumes
  <2>2. \/ spc' = spc \/ spc' = [spc EXCEPT ![e] = "starting"]
        \/ spc' = [spc EXCEPT ![e] = "stopped"] /\ Head(to_domain[e]).id = "KILL"
    BY <1>1 DEF DomainConsumes
  <2> QED  BY <2>1, <2>2 DEF TypeOK
<1>2. ASSUME NEW e \in Domain, AwaitTriggers(e)
      PROVE  spc[d] = "stopped" \/ "KILL" \in Ids(d)
  <2>1. spc' = spc \/ spc' = [spc EXCEPT ![e] = "poll"]  BY <1>2 DEF AwaitTriggers
  <2> QED  BY <2>1 DEF TypeOK
<1>3. ASSUME NEW e \in Domain, Connect(e) \/ Crash(e)
      PROVE  spc[d] = "stopped" \/ "KILL" \in Ids(d)
  BY <1>3 DEF Connect, Crash, TypeOK
<1>4. ASSUME NEW e \in Domain, SendInit(e) \/ Accept(e) \/ MainConsumes(e) \/ MainReadsEof(e)
                                \/ FaultHandlerOrders(e)
      PROVE  spc' = spc
  BY <1>4 DEF SendInit, Accept, MainConsumes, MainReadsEof, FaultHandlerOrders
<1>5. ASSUME NEW u \in Unit, UnitPops(u) \/ Notify(u) \/ Announce(u) \/ KillPlatform(u)
      PROVE  spc' = spc
  BY <1>5 DEF UnitPops, Notify, Announce, KillPlatform
<1>6. ASSUME LauncherSends  PROVE spc' = spc  BY <1>6 DEF LauncherSends
<1> QED
  BY <1>1, <1>2, <1>3, <1>4, <1>5, <1>6 DEF Next, ServerNext, UnitNext, MainNext

LEMMA KillEndsKept == ASSUME TypeOK, KillEnds, Next  PROVE KillEnds'
<1> SUFFICES ASSUME NEW d \in Domain, "KILL" \in Ids(d)' \/ spc'[d] = "stopped"
             PROVE  main' = "ended"
  BY DEF KillEnds
<1>1. Onward /\ News(d)  BY StepGoesOnward, StepNews
<1> QED  BY <1>1, Stops DEF KillEnds, Onward, News

LEMMA ShutdownOrderedKept == ASSUME TypeOK, ShutdownOrdered, Next  PROVE ShutdownOrdered'
<1> SUFFICES ASSUME NEW d \in Domain, "SHUTDOWN" \in Ids(d)'  PROVE orders' > 0
  BY DEF ShutdownOrdered
<1>1. Onward /\ News(d)  BY StepGoesOnward, StepNews
<1> QED  BY <1>1 DEF ShutdownOrdered, Onward, News, TypeOK

LEMMA FaultsLateKept == ASSUME TypeOK, FaultsLate, Next  PROVE FaultsLate'
<1>0. PDNumber \in Nat  BY StartupAssumption, FS_CardinalityType DEF PDNumber
<1>1. Onward  BY StepGoesOnward
<1>2. (orders' = orders /\ restarts' = restarts) \/ CrashesEarly \/ nb_ready_clients >= PDNumber
  <2> USE DEF mainVars, domainVars, unitVars, bounds
  <2>1. ASSUME NEW d \in Domain, Crash(d)  PROVE CrashesEarly \/ nb_ready_clients >= PDNumber
    BY <2>1 DEF Crash
  <2>2. ASSUME NEW d \in Domain, FaultHandlerOrders(d)  PROVE nb_ready_clients >= PDNumber
    BY <2>2 DEF FaultHandlerOrders
  <2>3. ASSUME NEW d \in Domain,
               Connect(d) \/ SendInit(d) \/ DomainConsumes(d) \/ AwaitTriggers(d) \/ Accept(d)
                 \/ MainConsumes(d) \/ MainReadsEof(d)
        PROVE  orders' = orders /\ restarts' = restarts
    BY <2>3 DEF Connect, SendInit, DomainConsumes, AwaitTriggers, Accept, MainConsumes,
                MainReadsEof
  <2>4. ASSUME NEW u \in Unit, UnitPops(u) \/ Notify(u) \/ Announce(u) \/ KillPlatform(u)
        PROVE  orders' = orders /\ restarts' = restarts
    BY <2>4 DEF UnitPops, Notify, Announce, KillPlatform
  <2>5. ASSUME LauncherSends  PROVE orders' = orders /\ restarts' = restarts
    BY <2>5 DEF LauncherSends
  <2> QED  BY <2>1, <2>2, <2>3, <2>4, <2>5 DEF Next, ServerNext, UnitNext, MainNext
<1>3. orders' = orders \/ nb_ready_clients >= PDNumber
  <2> USE DEF mainVars, domainVars, unitVars, bounds
  <2>2. ASSUME NEW d \in Domain, FaultHandlerOrders(d)  PROVE nb_ready_clients >= PDNumber
    BY <2>2 DEF FaultHandlerOrders
  <2>3. ASSUME NEW d \in Domain,
               Connect(d) \/ SendInit(d) \/ DomainConsumes(d) \/ AwaitTriggers(d) \/ Accept(d)
                 \/ MainConsumes(d) \/ MainReadsEof(d) \/ Crash(d)
        PROVE  orders' = orders
    BY <2>3 DEF Connect, SendInit, DomainConsumes, AwaitTriggers, Accept, MainConsumes,
                MainReadsEof, Crash
  <2>4. ASSUME NEW u \in Unit, UnitPops(u) \/ Notify(u) \/ Announce(u) \/ KillPlatform(u)
        PROVE  orders' = orders
    BY <2>4 DEF UnitPops, Notify, Announce, KillPlatform
  <2>5. ASSUME LauncherSends  PROVE orders' = orders  BY <2>5 DEF LauncherSends
  <2> QED  BY <2>2, <2>3, <2>4, <2>5 DEF Next, ServerNext, UnitNext, MainNext
<1> QED  BY <1>0, <1>1, <1>2, <1>3 DEF FaultsLate, Onward, TypeOK

LEMMA AnnouncesAloneKept == ASSUME TypeOK, AnnouncesAlone, Next  PROVE AnnouncesAlone'
<1> USE DEF mainVars, domainVars, unitVars, bounds
<1>1. ASSUME \A u \in Unit : upc'[u] = "announce" => upc[u] = "announce"
      PROVE  AnnouncesAlone'
  BY <1>1 DEF AnnouncesAlone
<1>2. ASSUME NEW u \in Unit, Notify(u)  PROVE AnnouncesAlone'
  <2>1. \A v \in Unit : upc'[v] = "announce" => upc[v] = "announce" \/ v = u
    BY <1>2 DEF Notify, TypeOK
  <2>2. \A v \in Unit : DomainOf[v] = DomainOf[u] => upc[v] # "announce"
    BY <1>2 DEF Notify, Units
  <2> QED  BY <2>1, <2>2 DEF AnnouncesAlone
<1>3. ASSUME NEW u \in Unit, UnitPops(u) \/ Announce(u) \/ KillPlatform(u),
             NEW v \in Unit, upc'[v] = "announce"
      PROVE  upc[v] = "announce"
  BY <1>3 DEF UnitPops, Announce, KillPlatform, TypeOK
<1>4. ASSUME NEW d \in Domain, Connect(d) \/ Crash(d), NEW v \in Unit, upc'[v] = "announce"
      PROVE  upc[v] = "announce"
  BY <1>4 DEF Connect, Crash, TypeOK
<1>5. ASSUME NEW d \in Domain,
             SendInit(d) \/ DomainConsumes(d) \/ AwaitTriggers(d) \/ Accept(d)
               \/ MainConsumes(d) \/ MainReadsEof(d) \/ FaultHandlerOrders(d)
      PROVE  upc' = upc
  BY <1>5 DEF SendInit, DomainConsumes, AwaitTriggers, Accept, MainConsumes, MainReadsEof,
              FaultHandlerOrders
<1>6. ASSUME LauncherSends  PROVE upc' = upc  BY <1>6 DEF LauncherSends
<1> QED
  BY <1>1, <1>2, <1>3, <1>4, <1>5, <1>6 DEF Next, ServerNext, UnitNext, MainNext

\* A unit whose domain stays up is no concern of DownIsEmpty.
LEMMA DownIsEmptyKept == ASSUME TypeOK, DownIsEmpty, Next  PROVE DownIsEmpty'
<1> DEFINE Empty(u) == Ops(u) = {} /\ ustate[u] = "IDLE" /\ upc[u] = "off"
<1> USE DEF mainVars, domainVars, unitVars, bounds
<1>0. DomainOf \in [Unit -> Domain]  BY StartupAssumption
<1>1. SUFFICES ASSUME NEW u \in Unit, spc'[DomainOf[u]] = "down"  PROVE Empty(u)'
  BY DEF DownIsEmpty
<1>2. spc[DomainOf[u]] = "down" => Empty(u)  BY DEF DownIsEmpty
<1>3. ASSUME UNCHANGED <<queue[u], ustate[u], upc[u]>>, spc[DomainOf[u]] = "down"
      PROVE  Empty(u)'
  BY <1>2, <1>3 DEF Ops
<1>4. ASSUME NEW d \in Domain, Crash(d)  PROVE Empty(u)'
  <2>1. CASE DomainOf[u] = d
    <3>1. queue'[u] = <<>> /\ ustate'[u] = "IDLE" /\ upc'[u] = "off"  BY <1>4, <2>1 DEF Crash
    <3> QED  BY <3>1, SetOf DEF Ops
  <2>2. CASE DomainOf[u] # d
    <3>1. UNCHANGED <<queue[u], ustate[u], upc[u]>> /\ spc[DomainOf[u]] = "down"
      BY <1>0, <1>1, <1>4, <2>2 DEF Crash, TypeOK
    <3> QED  BY <1>3, <3>1
  <2> QED  BY <2>1, <2>2
<1>5. ASSUME NEW d \in Domain, Connect(d)  PROVE Empty(u)'
  <2>1. DomainOf[u] # d /\ spc[DomainOf[u]] = "down"  BY <1>0, <1>1, <1>5 DEF Connect, TypeOK
  <2>2. UNCHANGED <<queue[u], ustate[u], upc[u]>>  BY <1>5, <2>1 DEF Connect
  <2> QED  BY <1>3, <2>1, <2>2
<1>6. ASSUME NEW d \in Domain, DomainConsumes(d)  PROVE Empty(u)'
  <2>1. \/ spc' = spc
        \/ \E x \in {"starting", "stopped"} : spc' = [spc EXCEPT ![d] = x]
    BY <1>6 DEF DomainConsumes
  <2>2. spc[DomainOf[u]] = "down"  BY <1>0, <1>1, <2>1 DEF TypeOK
  <2>3. DomainOf[u] # d  BY <1>6, <2>2 DEF DomainConsumes
  <2>4. queue' = queue \/ \E us \in SUBSET Units(d) : \E o : queue' = Pushed(us, o)
    BY <1>6 DEF DomainConsumes
  <2>5. queue'[u] = queue[u]  BY <2>3, <2>4 DEF Pushed, Units
  <2> QED  BY <1>3, <1>6, <2>2, <2>5 DEF DomainConsumes
<1>7. ASSUME NEW d \in Domain, AwaitTriggers(d)  PROVE Empty(u)'
  <2>1. spc' = spc \/ spc' = [spc EXCEPT ![d] = "poll"]  BY <1>7 DEF AwaitTriggers
  <2>2. spc[DomainOf[u]] = "down"  BY <1>0, <1>1, <2>1 DEF TypeOK
  <2>3. DomainOf[u] # d  BY <1>7, <2>2 DEF AwaitTriggers
  <2>4. queue' = queue \/ queue' = Pushed(Units(d) \ Trigger, "START")
    BY <1>7 DEF AwaitTriggers
  <2>5. queue'[u] = queue[u]  BY <2>3, <2>4 DEF Pushed, Units
  <2> QED  BY <1>3, <1>7, <2>2, <2>5 DEF AwaitTriggers
<1>8. ASSUME NEW v \in Unit, UnitPops(v) \/ Notify(v) \/ Announce(v)  PROVE Empty(u)'
  <2>1. spc' = spc /\ upc[v] # "off"  BY <1>8 DEF UnitPops, Notify, Announce
  <2>2. u # v  BY <1>1, <1>2, <2>1
  <2>3. UNCHANGED <<queue[u], ustate[u], upc[u]>>
    BY <1>8, <2>2 DEF UnitPops, Notify, Announce, Becomes, TypeOK
  <2> QED  BY <1>1, <1>3, <2>1, <2>3
<1>9. ASSUME spc' = spc, UNCHANGED unitVars  PROVE Empty(u)'  BY <1>1, <1>3, <1>9
<1>10. ASSUME NEW d \in Domain, SendInit(d) \/ Accept(d) \/ MainConsumes(d) \/ MainReadsEof(d)
                                 \/ FaultHandlerOrders(d)
       PROVE  spc' = spc /\ UNCHANGED unitVars
  BY <1>10 DEF SendInit, Accept, MainConsumes, MainReadsEof, FaultHandlerOrders
<1>11. ASSUME LauncherSends \/ \E v \in Unit : KillPlatform(v)
       PROVE  spc' = spc /\ UNCHANGED unitVars
  BY <1>11 DEF LauncherSends, KillPlatform
<1> HIDE DEF Empty
<1> QED
  BY <1>4, <1>5, <1>6, <1>7, <1>8, <1>9, <1>10, <1>11 DEF Next, ServerNext, UnitNext, MainNext

LEMMA AlwaysKept == ASSUME TypeOK, Always, Next  PROVE Always'
BY LauncherIdleKept, KillEndsKept, ShutdownOrderedKept, DownIsEmptyKept, AnnouncesAloneKept,
   FaultsLateKept DEF Always

-----------------------------------------------------------------------------
(* The life of a domain that only INIT_MOD, START_MOD and KILL reach. *)

\* A domain that a step does not touch.
LEMMA PlainFrame ==
  ASSUME NEW e \in Domain, PlainDomain(e), PlainMessages(e)', spc'[e] = spc[e],
         state'[e] = state[e],
         \A u \in Units(e) : UNCHANGED <<queue[u], ustate[u], upc[u]>>
  PROVE  PlainDomain(e)'
<1>1. Alive(e)' = Alive(e)  BY DEF Alive
<1>2. \A u \in Units(e) : Ops(u)' = Ops(u)  BY DEF Ops
<1>3. Announcing(e)' = Announcing(e)  BY DEF Announcing
<1>4. PlainOps(e)'  BY <1>1, <1>2 DEF PlainDomain, PlainOps
<1>5. Follows(e)'
  BY <1>1, <1>2, <1>3 DEF PlainDomain, Follows, NotStarted, Waiting
<1>6. TriggersLead(e)'  BY <1>1, <1>2 DEF PlainDomain, TriggersLead, NotStarted
<1> QED  BY <1>4, <1>5, <1>6 DEF PlainDomain

\* No message of another kind arrives as long as nobody writes one.
LEMMA MessagesStayPlain ==
  ASSUME TypeOK, Always, Next, Quiet', NEW e \in Domain, Plain
  PROVE  Quiet /\ PlainDomain(e) /\ PlainMessages(e)'
<1>1. Onward /\ News(e)  BY StepGoesOnward, StepNews
<1>2. Quiet  BY <1>1 DEF Quiet, Onward, TypeOK
<1>3. PlainDomain(e)  BY <1>2 DEF Plain
<1>4. lpc = 0 /\ orders' = 0  BY <1>2 DEF Quiet, Always, LauncherIdle
<1> QED  BY <1>1, <1>2, <1>3, <1>4 DEF News, PlainDomain, PlainMessages

LEMMA ConnectPlain ==
  ASSUME TypeOK, Always, NEW d \in Domain, Connect(d), NEW e \in Domain,
         PlainDomain(e), PlainMessages(e)'
  PROVE  PlainDomain(e)'
<1>1. CASE e # d
  <2>1. \A u \in Units(e) : UNCHANGED <<queue[u], ustate[u], upc[u]>>
    BY <1>1 DEF Connect, Units
  <2>2. spc'[e] = spc[e] /\ state'[e] = state[e]  BY <1>1 DEF Connect, TypeOK
  <2> QED  BY <2>1, <2>2, PlainFrame
<1>2. CASE e = d
  <2>1. spc'[e] = "poll" /\ state'[e] = "IDLE"  BY <1>2 DEF Connect, TypeOK
  <2>2. \A u \in Units(e) : Ops(u)' = {} /\ ustate'[u] = "IDLE" /\ upc'[u] = "pop"
    BY <1>2 DEF Connect, Units, Ops, Always, DownIsEmpty
  <2>3. ~Announcing(e)'  BY <2>2 DEF Announcing
  <2>4. PlainOps(e)'  BY <2>2 DEF PlainOps
  <2>5. Follows(e)'  BY <2>1, <2>2, <2>3 DEF Follows, NotStarted
  <2>6. TriggersLead(e)'  BY <2>2 DEF TriggersLead, NotStarted
  <2> QED  BY <2>4, <2>5, <2>6 DEF PlainDomain
<1> QED  BY <1>1, <1>2

LEMMA SendInitPlain ==
  ASSUME TypeOK, NEW d \in Domain, SendInit(d), NEW e \in Domain,
         PlainDomain(e), PlainMessages(e)'
  PROVE  PlainDomain(e)'
<1>1. \A u \in Units(e) : UNCHANGED <<queue[u], ustate[u], upc[u]>>  BY DEF SendInit, unitVars
<1>2. CASE e # d
  <2>1. spc'[e] = spc[e] /\ state'[e] = state[e]  BY <1>2 DEF SendInit, TypeOK
  <2> QED  BY <1>1, <2>1, PlainFrame
<1>3. CASE e = d
  <2>1. spc'[e] = "poll" /\ state'[e] = "INIT" /\ spc[e] = "poll" /\ state[e] = "IDLE"
    BY <1>3 DEF SendInit, TypeOK
  <2>2. Alive(e)' = Alive(e) /\ Alive(e)  BY <2>1 DEF Alive
  <2>3. \A u \in Units(e) : Ops(u)' = Ops(u)  BY <1>1 DEF Ops
  <2>4. ~Announcing(e)  BY <2>1, <2>2 DEF PlainDomain, Follows
  <2>5. ~Announcing(e)'  BY <1>1, <2>4 DEF Announcing
  <2>6. PlainOps(e)'  BY <2>2, <2>3 DEF PlainDomain, PlainOps
  <2>7. Follows(e)'  BY <1>1, <2>1, <2>3, <2>5 DEF PlainDomain, Follows, NotStarted
  <2>8. TriggersLead(e)'  BY <1>1, <2>2, <2>3 DEF PlainDomain, TriggersLead, NotStarted
  <2> QED  BY <2>6, <2>7, <2>8 DEF PlainDomain
<1> QED  BY <1>2, <1>3

LEMMA DomainConsumesPlain ==
  ASSUME TypeOK, NEW d \in Domain, DomainConsumes(d), NEW e \in Domain, PlainDomain(d),
         PlainDomain(e), PlainMessages(e)'
  PROVE  PlainDomain(e)'
<1> DEFINE msg == Head(to_domain[d])
<1>1. spc[d] = "poll" /\ ustate' = ustate /\ upc' = upc  BY DEF DomainConsumes
<1>2. msg.id \in {"INIT_MOD", "START_MOD", "KILL"}
  <2>1. msg.id \in Ids(d)  BY Read DEF DomainConsumes
  <2> QED  BY <2>1 DEF PlainDomain, PlainMessages
<1>3. CASE e # d
  <2>1. queue' = queue \/ \E us \in SUBSET Units(d) : \E o : queue' = Pushed(us, o)
    BY DEF DomainConsumes
  <2>2. \A u \in Units(e) : UNCHANGED <<queue[u], ustate[u], upc[u]>>
    BY <1>1, <1>3, <2>1 DEF Pushed, Units
  <2>3. \/ spc' = spc
        \/ \E x \in {"starting", "stopped"} : spc' = [spc EXCEPT ![d] = x]
    BY DEF DomainConsumes, domainVars
  <2>4. \/ state' = state
        \/ \E x \in {"RUNNING", "IDLE", "INIT"} : state' = [state EXCEPT ![d] = x]
    BY DEF DomainConsumes, domainVars
  <2>5. spc'[e] = spc[e] /\ state'[e] = state[e]  BY <1>3, <2>3, <2>4 DEF TypeOK
  <2> QED  BY <2>2, <2>5, PlainFrame
<1>4. CASE e = d
  <2>0. Announcing(e)' = Announcing(e)  BY <1>1 DEF Announcing
  <2>1. CASE msg.id = "INIT_MOD"
    <3>1. spc' = spc /\ state' = state
      BY <2>1 DEF DomainConsumes, domainVars
    <3>2. queue' = queue \/ queue' = Pushed(Units(d), "INITIALIZE")
      BY <2>1 DEF DomainConsumes
    <3>3. \A u \in Units(e) : Ops(u)' = Ops(u) \/ Ops(u)' = Ops(u) \cup {"INITIALIZE"}
      <4>1. CASE queue' = queue  BY <4>1 DEF Ops
      <4>2. CASE queue' = Pushed(Units(d), "INITIALIZE")  BY <4>2, PushedTo DEF Units, Life
      <4> QED  BY <3>2, <4>1, <4>2
    <3>4. Alive(e)' = Alive(e)  BY <3>1 DEF Alive
    <3>5. PlainOps(e)'  BY <3>3, <3>4 DEF PlainDomain, PlainOps
    <3>6. Follows(e)'  BY <1>1, <2>0, <3>1, <3>3, <3>4 DEF PlainDomain, Follows, NotStarted, Waiting
    <3>7. TriggersLead(e)'  BY <1>1, <3>3, <3>4 DEF PlainDomain, TriggersLead, NotStarted
    <3> QED  BY <3>5, <3>6, <3>7 DEF PlainDomain
  <2>2. CASE msg.id = "START_MOD" /\ state[d] = "READY"
    <3>1. /\ spc'[e] = "starting" /\ state'[e] = "READY"
          /\ queue' = Pushed(Units(d) \cap Trigger, "START")
      <4>1. /\ spc' = [spc EXCEPT ![d] = "starting"] /\ state' = state
            /\ queue' = Pushed(Units(d) \cap Trigger, "START")
        BY <2>2 DEF DomainConsumes
      <4> QED  BY <1>4, <2>2, <4>1 DEF TypeOK
    <3>2. \A u \in Units(e) : Ops(u)' = IF u \in Trigger THEN Ops(u) \cup {"START"} ELSE Ops(u)
      <4>1. "START" \in Life  BY DEF Life
      <4>2. \A u \in Unit : Ops(u)' = IF u \in Units(d) \cap Trigger THEN Ops(u) \cup {"START"} ELSE Ops(u)
        BY <4>1, <3>1, PushedTo
      <4> QED  BY <1>4, <4>2 DEF Units
    <3>3. \A u \in Units(e) : Waiting(u)  BY <1>1, <1>4, <2>2 DEF PlainDomain, Follows
    <3>4. ~Announcing(e)  BY <1>1, <1>4, <2>2 DEF PlainDomain, Follows, Alive
    <3>5. Alive(e)' = Alive(e) /\ Alive(e)  BY <1>1, <1>4, <3>1 DEF Alive
    <3>6. PlainOps(e)'  BY <3>2, <3>5 DEF PlainDomain, PlainOps
    <3>7. \A u \in Units(e) \ Trigger : Waiting(u)'  BY <1>1, <3>2, <3>3 DEF Waiting
    <3>8. Follows(e)'  BY <2>0, <3>1, <3>4, <3>7 DEF Follows
    <3>9. TriggersLead(e)'  BY <3>7 DEF TriggersLead, Waiting, NotStarted
    <3> QED  BY <3>6, <3>8, <3>9 DEF PlainDomain
  <2>3. CASE msg.id = "START_MOD" /\ state[d] # "READY"
    <3>1. spc' = spc /\ queue' = queue /\ state'[e] = "RUNNING"
      BY <1>4, <2>3 DEF DomainConsumes, TypeOK
    <3>2. Alive(e)' = Alive(e)  BY <3>1 DEF Alive
    <3>3. \A u \in Units(e) : Ops(u)' = Ops(u)  BY <3>1 DEF Ops
    <3>4. PlainOps(e)'  BY <3>2, <3>3 DEF PlainDomain, PlainOps
    <3>5. Follows(e)'
      BY <1>1, <1>4, <2>0, <3>1, <3>2, <3>3 DEF PlainDomain, Follows, Waiting
    <3>6. TriggersLead(e)'  BY <1>1, <3>2, <3>3 DEF PlainDomain, TriggersLead, NotStarted
    <3> QED  BY <3>4, <3>5, <3>6 DEF PlainDomain
  <2>4. CASE msg.id = "KILL"
    <3>1. spc'[e] = "stopped" /\ queue' = Pushed(Units(d), "KILL")
      <4>1. spc' = [spc EXCEPT ![d] = "stopped"] /\ queue' = Pushed(Units(d), "KILL")
        BY <2>4 DEF DomainConsumes
      <4> QED  BY <1>4, <4>1 DEF TypeOK
    <3>2. ~Alive(e)'  BY <3>1 DEF Alive
    <3>3. \A u \in Units(e) : Ops(u)' = Ops(u) \cup {"KILL"}
      <4>1. "KILL" \in Life  BY DEF Life
      <4>2. \A u \in Unit : Ops(u)' = IF u \in Units(d) THEN Ops(u) \cup {"KILL"} ELSE Ops(u)
        BY <4>1, <3>1, PushedTo
      <4> QED  BY <1>4, <4>2 DEF Units
    <3>4. PlainOps(e)'  BY <3>2, <3>3 DEF PlainDomain, PlainOps
    <3>5. Follows(e)'  BY <3>1, <3>2 DEF Follows
    <3>6. TriggersLead(e)'  BY <3>2 DEF TriggersLead
    <3> QED  BY <3>4, <3>5, <3>6 DEF PlainDomain
  <2> QED  BY <1>2, <2>1, <2>2, <2>3, <2>4
<1> QED  BY <1>3, <1>4

LEMMA AwaitTriggersPlain ==
  ASSUME TypeOK, NEW d \in Domain, AwaitTriggers(d), NEW e \in Domain, PlainDomain(e),
         PlainMessages(e)'
  PROVE  PlainDomain(e)'
<1>1. spc[d] = "starting" /\ ustate' = ustate /\ upc' = upc  BY DEF AwaitTriggers
<1>2. CASE e # d
  <2>1. queue' = queue \/ queue' = Pushed(Units(d) \ Trigger, "START")
    BY DEF AwaitTriggers
  <2>2. \A u \in Units(e) : UNCHANGED <<queue[u], ustate[u], upc[u]>>
    BY <1>1, <1>2, <2>1 DEF Pushed, Units
  <2>3. spc' = spc \/ spc' = [spc EXCEPT ![d] = "poll"]  BY DEF AwaitTriggers
  <2>4. state' = state \/ state' = [state EXCEPT ![d] = "RUNNING"]  BY DEF AwaitTriggers
  <2>5. spc'[e] = spc[e] /\ state'[e] = state[e]  BY <1>2, <2>3, <2>4 DEF TypeOK
  <2> QED  BY <2>2, <2>5, PlainFrame
<1>3. CASE e = d
  <2>0. Alive(e) /\ ~Announcing(e)  BY <1>1, <1>3 DEF PlainDomain, Follows, Alive
  <2>1. ~Announcing(e)'  BY <1>1, <2>0 DEF Announcing
  <2>2. CASE queue' = queue /\ spc' = spc /\ state' = state
    BY <1>1, <2>2, PlainFrame
  <2>3. CASE queue' = queue /\ spc'[e] = "poll" /\ state'[e] = "RUNNING"
    <3>1. \A u \in Units(e) : Ops(u)' = Ops(u)  BY <2>3 DEF Ops
    <3>2. Alive(e)'  BY <2>3 DEF Alive
    <3>3. PlainOps(e)'  BY <2>0, <3>1, <3>2 DEF PlainDomain, PlainOps
    <3>4. Follows(e)'  BY <2>1, <2>3 DEF Follows
    <3>5. TriggersLead(e)'  BY <1>1, <2>0, <3>1 DEF PlainDomain, TriggersLead, NotStarted
    <3> QED  BY <3>3, <3>4, <3>5 DEF PlainDomain
  <2>4. CASE TriggersStarted(d) /\ queue' = Pushed(Units(d) \ Trigger, "START")
               /\ spc'[e] = "poll" /\ state'[e] = "RUNNING"
    <3>1. \A u \in Units(e) : Ops(u)' = IF u \in Trigger THEN Ops(u) ELSE Ops(u) \cup {"START"}
      <4>1. "START" \in Life  BY DEF Life
      <4>2. \A u \in Unit : Ops(u)' = IF u \in Units(d) \ Trigger THEN Ops(u) \cup {"START"} ELSE Ops(u)
        BY <4>1, <2>4, PushedTo
      <4> QED  BY <1>3, <4>2 DEF Units
    <3>2. Alive(e)'  BY <2>4 DEF Alive
    <3>3. PlainOps(e)'  BY <2>0, <3>1, <3>2 DEF PlainDomain, PlainOps
    <3>4. Follows(e)'  BY <2>1, <2>4 DEF Follows
    <3>5. TriggersLead(e)'  BY <1>1, <1>3, <2>4 DEF TriggersStarted, TriggersLead
    <3> QED  BY <3>3, <3>4, <3>5 DEF PlainDomain
  <2> QED  BY <1>3, <2>2, <2>3, <2>4 DEF AwaitTriggers, TypeOK
<1> QED  BY <1>2, <1>3

LEMMA UnitPopsPlain ==
  ASSUME TypeOK, NEW u \in Unit, UnitPops(u), NEW e \in Domain, PlainDomain(e),
         PlainMessages(e)'
  PROVE  PlainDomain(e)'
<1>0. DomainOf[u] \in Domain  BY StartupAssumption
<1>1. spc' = spc /\ state' = state  BY DEF UnitPops, domainVars
<1>2. \A v \in Unit \ {u} : UNCHANGED <<queue[v], ustate[v], upc[v]>>
  BY DEF UnitPops, Becomes, TypeOK
<1>3. CASE e # DomainOf[u]
  <2>1. \A v \in Units(e) : UNCHANGED <<queue[v], ustate[v], upc[v]>>  BY <1>2, <1>3 DEF Units
  <2> QED  BY <1>1, <2>1, PlainFrame
<1>4. CASE e = DomainOf[u]
  <2> DEFINE o == Head(queue[u])
  <2>1. o \in Ops(u) /\ u \in Units(e)  BY <1>4, Taken DEF UnitPops, TypeOK, Ops, Units
  <2>2. o \in {"INITIALIZE", "START", "KILL"} /\ (o = "KILL" => ~Alive(e))
    BY <2>1 DEF PlainDomain, PlainOps
  <2>3. \/ o = "INITIALIZE" /\ ustate[u] = "IDLE" /\ ustate'[u] = "READY"
        \/ o = "START" /\ ustate[u] = "READY" /\ ustate'[u] = "RUNNING"
        \/ o = "KILL"
        \/ ustate'[u] = ustate[u]
    BY <2>2 DEF UnitPops, Becomes, TypeOK
  <2>4. queue'[u] = Tail(queue[u])
    BY <2>2 DEF UnitPops, Becomes, TypeOK
  <2>5. Ops(u)' \subseteq Ops(u)  BY <2>4, Taken DEF UnitPops, TypeOK, Ops
  <2>6. \A v \in Units(e) : Ops(v)' \subseteq Ops(v)  BY <1>2, <2>5 DEF Ops, Units
  <2>7. upc'[u] # "announce"  BY <2>2 DEF UnitPops, TypeOK
  <2>8. Announcing(e)' => Announcing(e)  BY <1>2, <2>7 DEF Announcing, Units
  <2>9. Alive(e)' = Alive(e)  BY <1>1 DEF Alive
  <2> HIDE DEF o
  <2>10. PlainOps(e)'  BY <2>6, <2>9 DEF PlainDomain, PlainOps
  <2>11. Alive(e) => \A v \in Units(e) : Waiting(v) => Waiting(v)'
    BY <1>2, <2>1, <2>2, <2>3, <2>6 DEF Waiting, Units
  <2>12. Alive(e) => \A v \in Units(e) : NotStarted(v) => NotStarted(v)'
    BY <1>2, <2>1, <2>2, <2>3, <2>6 DEF NotStarted, Units
  <2>13. Follows(e)'
    BY <1>1, <2>8, <2>9, <2>11, <2>12 DEF PlainDomain, Follows, Alive
  <2>14. Alive(e) => \A v \in Units(e) : ustate[v] = "RUNNING" => ustate'[v] = "RUNNING"
    BY <1>2, <2>2, <2>3 DEF Units
  <2>15. TriggersLead(e)'
    BY <2>9, <2>12, <2>14 DEF PlainDomain, TriggersLead
  <2> QED  BY <2>10, <2>13, <2>15 DEF PlainDomain
<1> QED  BY <1>3, <1>4

LEMMA NotifyPlain ==
  ASSUME TypeOK, NEW u \in Unit, Notify(u), NEW e \in Domain, PlainDomain(e), PlainMessages(e)'
  PROVE  PlainDomain(e)'
<1>1. spc' = spc /\ state' = state /\ queue' = queue /\ ustate' = ustate
  BY DEF Notify, domainVars
<1>2. \A v \in Unit \ {u} : upc'[v] = upc[v]  BY DEF Notify, TypeOK
<1>3. upc'[u] = "announce" => AllReady(DomainOf[u])  BY DEF Notify, TypeOK
<1>4. Alive(e)' = Alive(e)  BY <1>1 DEF Alive
<1>5. \A v \in Units(e) : Ops(v)' = Ops(v)  BY <1>1 DEF Ops
<1>6. PlainOps(e)'  BY <1>4, <1>5 DEF PlainDomain, PlainOps
<1>7. TriggersLead(e)'  BY <1>1, <1>4, <1>5 DEF PlainDomain, TriggersLead, NotStarted
<1>8. Announcing(e)' => Announcing(e) \/ AllReady(e)
  BY <1>2, <1>3 DEF Announcing, Units
<1>9. Alive(e) /\ AllReady(e) =>
        spc[e] = "poll" /\ state[e] = "INIT" /\ \A v \in Units(e) : Waiting(v)
  BY DEF AllReady, PlainDomain, Follows, Alive, NotStarted, Waiting
<1>10. Follows(e)'
  BY <1>1, <1>4, <1>5, <1>8, <1>9 DEF PlainDomain, Follows, NotStarted, Waiting
<1> QED  BY <1>6, <1>7, <1>10 DEF PlainDomain

LEMMA AnnouncePlain ==
  ASSUME TypeOK, AnnouncesAlone, NEW u \in Unit, Announce(u), NEW e \in Domain, PlainDomain(e),
         PlainMessages(e)'
  PROVE  PlainDomain(e)'
<1>0. DomainOf[u] \in Domain  BY StartupAssumption
<1>1. spc' = spc /\ queue' = queue /\ ustate' = ustate  BY DEF Announce
<1>2. \A v \in Unit \ {u} : upc'[v] = upc[v]  BY DEF Announce, TypeOK
<1>3. CASE e # DomainOf[u]
  <2>1. state'[e] = state[e]  BY <1>0, <1>3 DEF Announce, TypeOK
  <2>2. \A v \in Units(e) : UNCHANGED <<queue[v], ustate[v], upc[v]>>
    BY <1>1, <1>2, <1>3 DEF Units
  <2> QED  BY <1>1, <2>1, <2>2, PlainFrame
<1>4. CASE e = DomainOf[u]
  <2>1. state'[e] \in {"READY", "INIT"} /\ upc[u] = "announce" /\ upc'[u] = "pop"
    BY <1>4 DEF Announce, TypeOK
  <2>2. Announcing(e)  BY <1>4, <2>1 DEF Announcing, Units
  <2>3. ~Announcing(e)'
    BY <1>2, <1>4, <2>1 DEF Announcing, Units, AnnouncesAlone
  <2>4. Alive(e)' = Alive(e)  BY <1>1 DEF Alive
  <2>5. \A v \in Units(e) : Ops(v)' = Ops(v)  BY <1>1 DEF Ops
  <2>6. PlainOps(e)'  BY <2>4, <2>5 DEF PlainDomain, PlainOps
  <2>7. TriggersLead(e)'  BY <1>1, <2>4, <2>5 DEF PlainDomain, TriggersLead, NotStarted
  <2>8. Alive(e) => spc[e] = "poll" /\ \A v \in Units(e) : Waiting(v)
    BY <2>2 DEF PlainDomain, Follows
  <2>9. \A v \in Units(e) : Waiting(v) => Waiting(v)'  BY <1>1, <2>5 DEF Waiting
  <2>10. Follows(e)'
    <3>1. \A v \in Units(e) : Waiting(v)' => NotStarted(v)'  BY DEF Waiting, NotStarted
    <3> QED  BY <1>1, <2>1, <2>3, <2>4, <2>8, <2>9, <3>1 DEF Follows, Alive
  <2> QED  BY <2>6, <2>7, <2>10 DEF PlainDomain
<1> QED  BY <1>3, <1>4

LEMMA CrashPlain ==
  ASSUME TypeOK, NEW d \in Domain, Crash(d), NEW e \in Domain, PlainDomain(e), PlainMessages(e)'
  PROVE  PlainDomain(e)'
<1>1. CASE e # d
  <2>1. spc'[e] = spc[e] /\ state'[e] = state[e]  BY <1>1 DEF Crash, TypeOK
  <2>2. \A v \in Units(e) : UNCHANGED <<queue[v], ustate[v], upc[v]>>
    BY <1>1 DEF Crash, Units
  <2> QED  BY <2>1, <2>2, PlainFrame
<1>2. CASE e = d
  <2>1. spc'[e] = "down"  BY <1>2 DEF Crash, TypeOK
  <2>2. ~Alive(e)'  BY <2>1 DEF Alive
  <2>3. \A v \in Units(e) : queue'[v] = <<>>  BY <1>2 DEF Crash, Units
  <2>4. \A v \in Units(e) : Ops(v)' = {}  BY <2>3, SetOf DEF Ops
  <2>5. PlainOps(e)'  BY <2>4 DEF PlainOps
  <2>6. Follows(e)' /\ TriggersLead(e)'  BY <2>1, <2>2 DEF Follows, TriggersLead
  <2> QED  BY <2>5, <2>6 DEF PlainDomain
<1> QED  BY <1>1, <1>2

LEMMA PlainKept == ASSUME TypeOK, Always, Plain, Next  PROVE Plain'
<1> USE DEF mainVars, domainVars, unitVars, bounds
<1>1. SUFFICES ASSUME Quiet', NEW e \in Domain  PROVE PlainDomain(e)'
  BY DEF Plain
<1>2. Quiet /\ PlainDomain(e) /\ PlainMessages(e)' /\ \A d \in Domain : PlainDomain(d)
  BY <1>1, MessagesStayPlain
<1>3. ASSUME UNCHANGED <<state, spc, queue, ustate, upc>>  PROVE PlainDomain(e)'
  BY <1>2, <1>3, PlainFrame
<1>4. ASSUME NEW d \in Domain, Accept(d) \/ MainConsumes(d) \/ MainReadsEof(d)
                                \/ FaultHandlerOrders(d)
      PROVE  UNCHANGED <<state, spc, queue, ustate, upc>>
  BY <1>4 DEF Accept, MainConsumes, MainReadsEof, FaultHandlerOrders
<1>5. ASSUME LauncherSends \/ \E u \in Unit : KillPlatform(u)
      PROVE  UNCHANGED <<state, spc, queue, ustate, upc>>
  BY <1>5 DEF LauncherSends, KillPlatform
<1>6. AnnouncesAlone  BY DEF Always
<1> QED
  BY <1>2, <1>3, <1>4, <1>5, <1>6, ConnectPlain, SendInitPlain, DomainConsumesPlain,
     AwaitTriggersPlain, UnitPopsPlain, NotifyPlain, AnnouncePlain, CrashPlain
  DEF Next, ServerNext, UnitNext, MainNext

LEMMA InitPlain == Init => Plain
<1> SUFFICES ASSUME Init, NEW d \in Domain  PROVE PlainDomain(d)
  BY DEF Plain
<1>1. Ids(d) = {} /\ spc[d] = "down"  BY SetOf DEF Init, Ids
<1>2. \A u \in Unit : Ops(u) = {} /\ ustate[u] = "IDLE"  BY SetOf DEF Init, Ops
<1> QED
  BY <1>1, <1>2 DEF PlainDomain, PlainMessages, PlainOps, Follows, TriggersLead, Alive, Units

-----------------------------------------------------------------------------
(* The CLIENT_READY, until the first fault. *)

LEMMA DomainsAreCounted ==
  /\ PDNumber \in Nat
  /\ \A S \in SUBSET Domain : IsFiniteSet(S) /\ Cardinality(S) \in 0..PDNumber
  /\ \A S \in SUBSET Domain : Cardinality(S) = PDNumber => S = Domain
<1>1. IsFiniteSet(Domain)  BY StartupAssumption
<1>2. PDNumber \in Nat  BY <1>1, FS_CardinalityType DEF PDNumber
<1>3. ASSUME NEW S \in SUBSET Domain
      PROVE  /\ IsFiniteSet(S) /\ Cardinality(S) \in 0..PDNumber
             /\ Cardinality(S) = PDNumber => S = Domain
  <2>1. /\ IsFiniteSet(S) /\ Cardinality(S) <= PDNumber
        /\ Cardinality(Domain) = Cardinality(S) => Domain = S
    BY <1>1, FS_Subset DEF PDNumber
  <2>2. Cardinality(S) \in Nat  BY <2>1, FS_CardinalityType
  <2> QED  BY <1>2, <2>1, <2>2 DEF PDNumber
<1> QED  BY <1>2, <1>3

\* When as many domains were counted as there are, all are that far.
LEMMA CountedAreAll ==
  ASSUME TypeOK, Counts, Faultless, nb_ready_clients >= PDNumber, NEW d \in Domain
  PROVE  state[d] \in {"READY", "RUNNING"}
<1>1. OnTheirWay \in SUBSET Domain /\ Far \in SUBSET Domain  BY DEF OnTheirWay, Far
<1>2. nb_ready_clients + Cardinality(OnTheirWay) = Cardinality(Far)  BY DEF Counts
<1>3. Cardinality(Far) = PDNumber
  <2>1. Cardinality(Far) \in 0..PDNumber /\ Cardinality(OnTheirWay) \in 0..PDNumber
    BY <1>1, DomainsAreCounted
  <2>2. nb_ready_clients \in Nat /\ PDNumber \in Nat  BY DomainsAreCounted DEF TypeOK
  <2> QED  BY <1>2, <2>1, <2>2
<1>4. Far = Domain  BY <1>1, <1>3, DomainsAreCounted
<1> QED  BY <1>4 DEF Far

LEMMA AnnouncedAppended ==
  ASSUME TypeOK, NEW d \in Domain, NEW m \in ToMain, to_main'[d] = Append(to_main[d], m)
  PROVE  /\ m # "CLIENT_READY" => Announced(d)' = Announced(d)
         /\ m = "CLIENT_READY" => Announced(d)' = Announced(d) \cup {Len(to_main[d]) + 1}
<1> DEFINE s == to_main[d]
<1>1. s \in Seq(ToMain)  BY DEF TypeOK
<1> HIDE DEF s
<1>2. Len(s) \in Nat /\ DOMAIN s = 1..Len(s)  BY <1>1
<1>3. DOMAIN Append(s, m) = 1..(Len(s) + 1) /\ Append(s, m)[Len(s) + 1] = m
        /\ \A i \in 1..Len(s) : Append(s, m)[i] = s[i]
  BY <1>1
<1>4. 1..(Len(s) + 1) = 1..Len(s) \cup {Len(s) + 1}  BY <1>2
<1>5. Announced(d)' = {i \in 1..(Len(s) + 1) : Append(s, m)[i] = "CLIENT_READY"}
  BY <1>3 DEF Announced, s
<1>6. Announced(d) = {i \in 1..Len(s) : s[i] = "CLIENT_READY"}  BY <1>2 DEF Announced, s
<1>7. CASE m = "CLIENT_READY"  BY <1>3, <1>4, <1>5, <1>6, <1>7 DEF s
<1>8. CASE m # "CLIENT_READY"  BY <1>3, <1>4, <1>5, <1>6, <1>8 DEF s
<1> QED  BY <1>7, <1>8

LEMMA AnnouncedTaken ==
  ASSUME TypeOK, NEW d \in Domain, to_main[d] # <<>>, to_main'[d] = Tail(to_main[d])
  PROVE  /\ \A i \in Announced(d)' : i \in Int /\ i + 1 \in Announced(d) /\ i + 1 # 1
         /\ \A i \in Announced(d) : i \in Int /\ (i # 1 => i - 1 \in Announced(d)')
         /\ 1 \in Announced(d) <=> Head(to_main[d]) = "CLIENT_READY"
<1> DEFINE s == to_main[d]
<1>1. s \in Seq(ToMain)  BY DEF TypeOK
<1> HIDE DEF s
<1>2. Len(s) \in Nat \ {0} /\ DOMAIN s = 1..Len(s) /\ Head(s) = s[1]
  BY <1>1 DEF s
<1>3. DOMAIN Tail(s) = 1..(Len(s) - 1) /\ \A i \in 1..(Len(s) - 1) : Tail(s)[i] = s[i + 1]
  BY <1>1, <1>2
<1>4. Announced(d)' = {i \in 1..(Len(s) - 1) : s[i + 1] = "CLIENT_READY"}
  BY <1>3 DEF Announced, s
<1>5. Announced(d) = {i \in 1..Len(s) : s[i] = "CLIENT_READY"}  BY <1>2 DEF Announced, s
<1>6. \A i \in 1..(Len(s) - 1) : i + 1 \in 1..Len(s) /\ i + 1 # 1  BY <1>2
<1>7. \A i \in 1..Len(s) : i \in Int /\ (i # 1 => i - 1 \in 1..(Len(s) - 1) /\ (i - 1) + 1 = i)
  BY <1>2
<1>8. 1 \in 1..Len(s)  BY <1>2
<1> QED  BY <1>2, <1>4, <1>5, <1>6, <1>7, <1>8 DEF s

\* A domain that announces nothing new and goes no further.
LEMMA CountsFrame ==
  ASSUME NEW e \in Domain, TypeOK, CountsOf(e), Onward, News(e), state'[e] = state[e],
         Announced(e)' = Announced(e), Announcing(e)' => Announcing(e),
         spc'[e] = spc[e] \/ spc'[e] = "poll"
  PROVE  CountsOf(e)'
<1>0. PDNumber \in Nat  BY DomainsAreCounted
<1> QED  BY <1>0 DEF CountsOf, Onward, News, TypeOK

\* A step after which the domains are as far as before.
LEMMA SumFrame ==
  ASSUME Counts, Faultless, UNCHANGED nb_ready_clients,
         \A e \in Domain : state'[e] \in {"READY", "RUNNING"} <=> state[e] \in {"READY", "RUNNING"},
         \A e \in Domain : Announced(e)' = {} <=> Announced(e) = {}
  PROVE  nb_ready_clients' + Cardinality(OnTheirWay') = Cardinality(Far')
<1>1. Far' = Far  BY DEF Far
<1>2. OnTheirWay' = OnTheirWay  BY DEF OnTheirWay
<1> QED  BY <1>1, <1>2 DEF Counts

CountsGoOn ==
  /\ \A e \in Domain : CountsOf(e)'
  /\ nb_ready_clients' + Cardinality(OnTheirWay') = Cardinality(Far')

\* What a step of a platform without a fault starts from.
Before ==
  /\ TypeOK /\ Always /\ Counts /\ Faultless /\ Faultless'
  /\ Onward /\ (\A e \in Domain : News(e)) /\ \A e \in Domain : CountsOf(e)

LEMMA BeforeAStep ==
  ASSUME TypeOK, Always, Counts, Next, Faultless'  PROVE Before
<1>1. Onward /\ \A e \in Domain : News(e)  BY StepGoesOnward, StepNews
<1>2. Faultless
  <2>1. restarts \in Nat /\ orders \in Nat /\ main \in {"running", "ended"}  BY DEF TypeOK
  <2>2. Onward  BY <1>1
  <2>3. restarts' + orders' = 0 /\ main' = "running"  BY DEF Faultless
  <2>4. main = "running"  BY <2>1, <2>2, <2>3 DEF Onward
  <2>5. restarts + orders = 0
    <3>1. restarts' \in Nat /\ restarts' >= restarts /\ orders' \in Nat /\ orders' >= orders
      BY <2>2 DEF Onward
    <3>2. restarts' = 0 /\ orders' = 0
      <4>1. \A m, n \in Nat : m + n = 0 => m = 0 /\ n = 0  OBVIOUS
      <4> QED  BY <2>3, <3>1, <4>1
    <3>3. restarts \in Nat /\ orders \in Nat  BY <2>1
    <3>4. restarts = 0 /\ orders = 0  BY <3>1, <3>2, <3>3
    <3> QED  BY <3>4
  <2> QED  BY <2>4, <2>5 DEF Faultless
<1> QED  BY <1>1, <1>2 DEF Before, Counts

LEMMA ConnectCounts == ASSUME Before, NEW d \in Domain, Connect(d)  PROVE CountsGoOn
<1> USE DEF Before
<1>1. state[d] = "IDLE"  BY DEF Connect, CountsOf
<1>2. state' = state  BY <1>1 DEF Connect, TypeOK
<1>3. \A e \in Domain : Announced(e)' = Announced(e)  BY DEF Connect, Announced
<1>4. \A e \in Domain : Announcing(e)' => Announcing(e)  BY DEF Connect, Announcing, Units
<1>5. \A e \in Domain : spc'[e] = spc[e] \/ spc'[e] = "poll"  BY DEF Connect, TypeOK
<1>6. \A e \in Domain : CountsOf(e)'  BY <1>2, <1>3, <1>4, <1>5, CountsFrame
<1>7. nb_ready_clients' = nb_ready_clients  BY DEF Connect
<1> QED  BY <1>2, <1>3, <1>6, <1>7, SumFrame DEF CountsGoOn

LEMMA SendInitCounts == ASSUME Before, NEW d \in Domain, SendInit(d)  PROVE CountsGoOn
<1> USE DEF Before
<1>1. /\ spc' = spc /\ upc' = upc /\ nb_ready_clients' = nb_ready_clients
      /\ state[d] = "IDLE" /\ spc[d] = "poll"
  BY DEF SendInit, mainVars, unitVars
<1>2. \A e \in Domain : state'[e] = IF e = d THEN "INIT" ELSE state[e]  BY DEF SendInit, TypeOK
<1>3. \A e \in Domain : Announced(e)' = Announced(e)
  <2>1. to_main'[d] = Append(to_main[d], "CLIENT_INIT")  BY DEF SendInit, TypeOK
  <2>2. "CLIENT_INIT" \in ToMain /\ "CLIENT_INIT" # "CLIENT_READY"  BY DEF ToMain
  <2>3. Announced(d)' = Announced(d)  BY <2>1, <2>2, AnnouncedAppended
  <2>4. \A e \in Domain \ {d} : Announced(e)' = Announced(e)  BY DEF SendInit, TypeOK, Announced
  <2> QED  BY <2>3, <2>4
<1>4. \A e \in Domain : Announcing(e)' => Announcing(e)  BY <1>1 DEF Announcing
<1>5. ASSUME NEW e \in Domain  PROVE CountsOf(e)'
  <2>1. CASE e # d
    <3>1. state'[e] = state[e]  BY <1>2, <2>1
    <3> QED  BY <1>1, <1>3, <1>4, <3>1, CountsFrame
  <2>2. CASE e = d
    <3>1. state'[e] = "INIT"  BY <1>2, <2>2
    <3>2. Announced(e)' = {}  BY <1>1, <1>3, <2>2 DEF CountsOf
    <3>3. "START_MOD" \in Ids(e)' => nb_ready_clients' >= PDNumber
      BY <1>1, DomainsAreCounted DEF News, CountsOf
    <3> QED  BY <1>1, <2>2, <3>1, <3>2, <3>3 DEF CountsOf
  <2> QED  BY <2>1, <2>2
<1>6. \A e \in Domain : state'[e] \in {"READY", "RUNNING"} <=> state[e] \in {"READY", "RUNNING"}
  BY <1>1, <1>2
<1> QED  BY <1>1, <1>3, <1>5, <1>6, SumFrame DEF CountsGoOn

LEMMA DomainConsumesCounts ==
  ASSUME Before, NEW d \in Domain, DomainConsumes(d)  PROVE CountsGoOn
<1> USE DEF Before
<1> DEFINE msg == Head(to_domain[d])
<1>1. /\ upc' = upc /\ nb_ready_clients' = nb_ready_clients /\ to_main' = to_main
      /\ spc[d] = "poll"
  BY DEF DomainConsumes, mainVars
<1>2. msg.id \in Ids(d)  BY Read DEF DomainConsumes
<1>3. msg.id # "KILL" /\ msg.id # "SHUTDOWN"
  BY <1>2 DEF Always, KillEnds, ShutdownOrdered, Faultless, TypeOK
<1>4. msg.id = "START_MOD" => nb_ready_clients >= PDNumber /\ state[d] \in {"READY", "RUNNING"}
  BY <1>2, CountedAreAll DEF CountsOf
<1>5. state' = state
  <2>1. state' = state \/ (msg.id = "START_MOD" /\ state[d] # "READY"
                             /\ state' = [state EXCEPT ![d] = "RUNNING"])
    BY <1>3 DEF DomainConsumes, domainVars
  <2> QED  BY <1>4, <2>1 DEF TypeOK
<1>6. spc' = spc \/ (msg.id = "START_MOD" /\ spc' = [spc EXCEPT ![d] = "starting"])
  BY <1>3 DEF DomainConsumes, domainVars
<1>7. \A e \in Domain : Announced(e)' = Announced(e)  BY <1>1 DEF Announced
<1>8. \A e \in Domain : Announcing(e)' => Announcing(e)  BY <1>1 DEF Announcing
<1>9. ASSUME NEW e \in Domain  PROVE CountsOf(e)'
  <2>1. CASE spc'[e] = spc[e]  BY <1>5, <1>7, <1>8, <2>1, CountsFrame
  <2>2. CASE spc'[e] # spc[e]
    <3>1. e = d /\ nb_ready_clients >= PDNumber /\ spc'[e] = "starting"
      BY <1>4, <1>6, <2>2 DEF TypeOK
    <3> QED  BY <1>1, <1>5, <1>7, <1>8, <3>1 DEF CountsOf
  <2> QED  BY <2>1, <2>2
<1> QED  BY <1>1, <1>5, <1>7, <1>9, SumFrame DEF CountsGoOn

LEMMA AwaitTriggersCounts ==
  ASSUME Before, NEW d \in Domain, AwaitTriggers(d)  PROVE CountsGoOn
<1> USE DEF Before
<1>1. /\ upc' = upc /\ nb_ready_clients' = nb_ready_clients /\ to_main' = to_main
      /\ spc[d] = "starting"
  BY DEF AwaitTriggers, mainVars
<1>2. nb_ready_clients >= PDNumber  BY <1>1 DEF CountsOf
<1>3. state[d] \in {"READY", "RUNNING"}  BY <1>2, CountedAreAll
<1>4. state' = state \/ state' = [state EXCEPT ![d] = "RUNNING"]  BY DEF AwaitTriggers
<1>5. spc' = spc \/ spc' = [spc EXCEPT ![d] = "poll"]  BY DEF AwaitTriggers
<1>6. \A e \in Domain : Announced(e)' = Announced(e)  BY <1>1 DEF Announced
<1>7. \A e \in Domain : Announcing(e)' => Announcing(e)  BY <1>1 DEF Announcing
<1>8. ASSUME NEW e \in Domain  PROVE CountsOf(e)'
  <2>1. spc'[e] = spc[e] \/ spc'[e] = "poll"  BY <1>5 DEF TypeOK
  <2>2. CASE state'[e] = state[e]  BY <1>6, <1>7, <2>1, <2>2, CountsFrame
  <2>3. CASE state'[e] # state[e]
    <3>1. e = d /\ state'[e] = "RUNNING"  BY <1>4, <2>3 DEF TypeOK
    <3>2. ~Announcing(e)  BY <1>3, <3>1 DEF CountsOf
    <3> QED  BY <1>1, <1>2, <1>6, <1>7, <2>1, <3>1, <3>2 DEF CountsOf
  <2> QED  BY <2>2, <2>3
<1>9. \A e \in Domain : state'[e] \in {"READY", "RUNNING"} <=> state[e] \in {"READY", "RUNNING"}
  BY <1>3, <1>4 DEF TypeOK
<1> QED  BY <1>1, <1>6, <1>8, <1>9, SumFrame DEF CountsGoOn

LEMMA UnitCounts ==
  ASSUME Before, NEW u \in Unit, UnitPops(u) \/ Notify(u)  PROVE CountsGoOn
<1> USE DEF Before
<1>1. /\ state' = state /\ spc' = spc /\ nb_ready_clients' = nb_ready_clients
      /\ to_main' = to_main
  BY DEF UnitPops, Notify, mainVars, domainVars
<1>2. \A v \in Unit : upc'[v] = "announce" =>
        upc[v] = "announce" \/ state[DomainOf[v]] = "INIT"
  BY DEF UnitPops, Notify, AllReady, TypeOK
<1>3. \A e \in Domain : Announced(e)' = Announced(e)  BY <1>1 DEF Announced
<1>4. ASSUME NEW e \in Domain  PROVE CountsOf(e)'
  <2>1. Announcing(e)' => Announcing(e) \/ state[e] = "INIT"  BY <1>2 DEF Announcing, Units
  <2> QED  BY <1>1, <1>3, <2>1 DEF CountsOf, News, Onward, TypeOK
<1> QED  BY <1>1, <1>3, <1>4, SumFrame DEF CountsGoOn

LEMMA AnnounceCounts == ASSUME Before, NEW u \in Unit, Announce(u)  PROVE CountsGoOn
<1> USE DEF Before
<1> DEFINE d == DomainOf[u]
<1>0. d \in Domain /\ u \in Units(d)  BY StartupAssumption DEF Units
<1> HIDE DEF d
<1>1. /\ spc' = spc /\ nb_ready_clients' = nb_ready_clients /\ upc[u] = "announce"
      /\ \A v \in Unit : upc'[v] = IF v = u THEN "pop" ELSE upc[v]
      /\ main # "ended"
  BY DEF Announce, mainVars, TypeOK, Faultless
<1>2. \A e \in Domain : state'[e] = IF e = d THEN "READY" ELSE state[e]
  BY <1>0, <1>1 DEF Announce, TypeOK, d
<1>3. state[d] = "INIT" /\ Announced(d) = {}  BY <1>0, <1>1 DEF CountsOf, Announcing
<1>4. Announced(d)' = {Len(to_main[d]) + 1}
  <2>1. to_main'[d] = Append(to_main[d], "CLIENT_READY")  BY <1>0, <1>1 DEF Announce, TypeOK, d
  <2>2. "CLIENT_READY" \in ToMain  BY DEF ToMain
  <2> QED  BY <1>0, <1>3, <2>1, <2>2, AnnouncedAppended
<1>5. \A e \in Domain \ {d} : Announced(e)' = Announced(e)
  BY <1>0 DEF Announce, TypeOK, Announced, d
<1>6. ~Announcing(d)'
  BY <1>0, <1>1 DEF Announcing, Units, Always, AnnouncesAlone
<1>7. ASSUME NEW e \in Domain  PROVE CountsOf(e)'
  <2>1. CASE e # d
    <3>1. state'[e] = state[e] /\ Announced(e)' = Announced(e)  BY <1>2, <1>5, <2>1
    <3>2. \A v \in Unit : upc'[v] = "announce" => upc[v] = "announce"  BY <1>1
    <3>3. Announcing(e)' => Announcing(e)  BY <3>2 DEF Announcing, Units
    <3>4. spc'[e] = spc[e]  BY <1>1
    <3> QED  BY <3>1, <3>3, <3>4, CountsFrame
  <2>2. CASE e = d
    <3>1. state'[e] = "READY"  BY <1>2, <2>2
    <3>2. spc[e] # "down"  BY <1>3, <2>2 DEF CountsOf
    <3>3. "START_MOD" \in Ids(e)' \/ spc'[e] = "starting" => nb_ready_clients' >= PDNumber
      BY <1>1, DomainsAreCounted DEF News, CountsOf
    <3> QED  BY <1>1, <1>4, <1>6, <2>2, <3>1, <3>2, <3>3 DEF CountsOf
  <2> QED  BY <2>1, <2>2
<1>8. Far' = Far \cup {d} /\ d \notin Far  BY <1>0, <1>2, <1>3 DEF Far
<1>9. OnTheirWay' = OnTheirWay \cup {d} /\ d \notin OnTheirWay
  BY <1>0, <1>3, <1>4, <1>5 DEF OnTheirWay
<1>10. /\ IsFiniteSet(Far) /\ Cardinality(Far) \in Nat
       /\ IsFiniteSet(OnTheirWay) /\ Cardinality(OnTheirWay) \in Nat
  BY DomainsAreCounted DEF Far, OnTheirWay
<1>11. /\ Cardinality(Far') = Cardinality(Far) + 1
       /\ Cardinality(OnTheirWay') = Cardinality(OnTheirWay) + 1
  BY <1>8, <1>9, <1>10, FS_AddElement
<1>12. nb_ready_clients + Cardinality(OnTheirWay) = Cardinality(Far) /\ nb_ready_clients \in Nat
  BY DEF Counts, TypeOK
<1> QED  BY <1>1, <1>7, <1>10, <1>11, <1>12 DEF CountsGoOn

LEMMA KillPlatformCounts ==
  ASSUME Before, NEW u \in Unit, KillPlatform(u)  PROVE CountsGoOn
<1> USE DEF Before
<1> DEFINE d == DomainOf[u]
<1>0. d \in Domain  BY StartupAssumption
<1>1. state' = state /\ spc' = spc /\ upc' = upc /\ nb_ready_clients' = nb_ready_clients
  BY DEF KillPlatform, mainVars, domainVars, unitVars
<1>2. \A e \in Domain : Announced(e)' = Announced(e)
  <2>1. to_main'[d] = Append(to_main[d], "KILL")  BY <1>0 DEF KillPlatform, TypeOK
  <2>2. "KILL" \in ToMain /\ "KILL" # "CLIENT_READY"  BY DEF ToMain
  <2>3. Announced(d)' = Announced(d)  BY <1>0, <2>1, <2>2, AnnouncedAppended
  <2>4. \A e \in Domain \ {d} : Announced(e)' = Announced(e)
    BY <1>0 DEF KillPlatform, TypeOK, Announced
  <2> QED  BY <2>3, <2>4
<1>3. \A e \in Domain : Announcing(e)' => Announcing(e)  BY <1>1 DEF Announcing
<1>4. \A e \in Domain : CountsOf(e)'  BY <1>1, <1>2, <1>3, CountsFrame
<1> QED  BY <1>1, <1>2, <1>4, SumFrame DEF CountsGoOn

LEMMA MainConsumesCounts ==
  ASSUME Before, NEW d \in Domain, MainConsumes(d)  PROVE CountsGoOn
<1> USE DEF Before
<1>1. /\ state' = state /\ spc' = spc /\ upc' = upc /\ to_main[d] # <<>>
      /\ \A e \in Domain : to_main'[e] = IF e = d THEN Tail(to_main[d]) ELSE to_main[e]
  BY DEF MainConsumes, domainVars, unitVars, TypeOK
<1>2. \A e \in Domain \ {d} : Announced(e)' = Announced(e)  BY <1>1 DEF Announced
<1>3. \A e \in Domain : Announcing(e)' => Announcing(e)  BY <1>1 DEF Announcing
<1>4. /\ \A i \in Announced(d)' : i \in Int /\ i + 1 \in Announced(d) /\ i + 1 # 1
      /\ \A i \in Announced(d) : i \in Int /\ (i # 1 => i - 1 \in Announced(d)')
      /\ 1 \in Announced(d) <=> Head(to_main[d]) = "CLIENT_READY"
  BY <1>1, AnnouncedTaken
<1>6. \A i, j \in Announced(d)' : i = j
  <2>1. SUFFICES ASSUME NEW i \in Announced(d)', NEW j \in Announced(d)'  PROVE i = j
    OBVIOUS
  <2>2. i + 1 = j + 1  BY <1>4 DEF CountsOf
  <2> QED  BY <1>4, <2>2
<1>7. Announced(d)' # {} => Announced(d) # {}  BY <1>4
<1>8. ASSUME NEW e \in Domain  PROVE CountsOf(e)'
  <2>1. CASE e # d  BY <1>1, <1>2, <1>3, <2>1, CountsFrame
  <2>2. CASE e = d
    BY <1>1, <1>3, <1>6, <1>7, <2>2, DomainsAreCounted DEF CountsOf, News, Onward, TypeOK
  <2> QED  BY <2>1, <2>2
<1>9. Far' = Far  BY <1>1 DEF Far
<1>10. /\ IsFiniteSet(OnTheirWay) /\ Cardinality(OnTheirWay) \in Nat
       /\ nb_ready_clients + Cardinality(OnTheirWay) = Cardinality(Far)
       /\ nb_ready_clients \in Nat
  BY DomainsAreCounted DEF OnTheirWay, Counts, TypeOK
<1>11. CASE Head(to_main[d]) = "CLIENT_INIT"
  <2>1. nb_ready_clients' = nb_ready_clients
    BY <1>11 DEF MainConsumes, ClientInit
  <2>2. 1 \notin Announced(d)  BY <1>4, <1>11
  <2>3. Announced(d)' = {} <=> Announced(d) = {}  BY <1>4, <2>2
  <2>4. OnTheirWay' = OnTheirWay  BY <1>2, <2>3 DEF OnTheirWay
  <2> QED  BY <1>8, <1>9, <1>10, <2>1, <2>4 DEF CountsGoOn
<1>12. CASE Head(to_main[d]) = "CLIENT_READY"
  <2>1. nb_ready_clients' = nb_ready_clients + 1
    BY <1>12 DEF MainConsumes, ClientReady
  <2>2. 1 \in Announced(d)  BY <1>4, <1>12
  <2>3. Announced(d)' = {}  BY <1>4, <2>2 DEF CountsOf
  <2>4. OnTheirWay' = OnTheirWay \ {d} /\ d \in OnTheirWay
    BY <1>2, <2>2, <2>3 DEF OnTheirWay
  <2>5. Cardinality(OnTheirWay') = Cardinality(OnTheirWay) - 1
    BY <1>10, <2>4, FS_RemoveElement
  <2> QED  BY <1>8, <1>9, <1>10, <2>1, <2>5 DEF CountsGoOn
<1>13. CASE Head(to_main[d]) \notin {"CLIENT_INIT", "CLIENT_READY"}
  <2>1. main' = "ended"  BY <1>13 DEF MainConsumes
  <2> QED  BY <2>1 DEF Faultless
<1> QED  BY <1>11, <1>12, <1>13

LEMMA OthersCount ==
  ASSUME Before, UNCHANGED <<state, spc, upc, to_main, nb_ready_clients>>  PROVE CountsGoOn
<1> USE DEF Before
<1>1. \A e \in Domain : Announced(e)' = Announced(e)  BY DEF Announced
<1>2. \A e \in Domain : Announcing(e)' => Announcing(e)  BY DEF Announcing
<1>3. \A e \in Domain : CountsOf(e)'  BY <1>1, <1>2, CountsFrame
<1> QED  BY <1>1, <1>3, SumFrame DEF CountsGoOn

LEMMA CountsKept == ASSUME TypeOK, Always, Counts, Next  PROVE Counts'
<1> USE DEF mainVars, domainVars, unitVars, bounds
<1>1. SUFFICES ASSUME Faultless'  PROVE CountsGoOn
  BY DEF Counts, CountsGoOn
<1>2. Before  BY <1>1, BeforeAStep
<1>3. ASSUME NEW d \in Domain, Crash(d) \/ FaultHandlerOrders(d)  PROVE FALSE
  BY <1>1, <1>3 DEF Crash, FaultHandlerOrders, Faultless, TypeOK
<1>4. ASSUME NEW d \in Domain, Accept(d) \/ MainReadsEof(d)
      PROVE  UNCHANGED <<state, spc, upc, to_main, nb_ready_clients>>
  BY <1>4 DEF Accept, MainReadsEof
<1>5. ASSUME LauncherSends  PROVE UNCHANGED <<state, spc, upc, to_main, nb_ready_clients>>
  BY <1>5 DEF LauncherSends
<1> QED
  BY <1>2, <1>3, <1>4, <1>5, OthersCount, ConnectCounts, SendInitCounts, DomainConsumesCounts,
     AwaitTriggersCounts, UnitCounts, AnnounceCounts, KillPlatformCounts, MainConsumesCounts
  DEF Next, ServerNext, UnitNext, MainNext

LEMMA InitCounts == Init => Counts
<1> SUFFICES ASSUME Init  PROVE Counts
  OBVIOUS
<1>1. \A d \in Domain : /\ Ids(d) = {} /\ Announced(d) = {} /\ ~Announcing(d)
                        /\ state[d] = "IDLE" /\ spc[d] = "down"
  BY SetOf DEF Init, Ids, Announced, Announcing, Units
<1>2. Far = {} /\ OnTheirWay = {}  BY <1>1 DEF Far, OnTheirWay
<1> QED  BY <1>1, <1>2, FS_EmptySet DEF Init, Counts, CountsOf

-----------------------------------------------------------------------------
(* The theorems. *)

\* The inductive invariant.
THEOREM Invariant == Spec => []Inv
<1>1. Init => Inv  BY InitTyped, InitAlways, InitPlain, InitCounts DEF Inv
<1>2. Inv /\ [Next]_vars => Inv'
  <2>1. ASSUME Inv, Next  PROVE Inv'
    BY <2>1, StepTyped, AlwaysKept, PlainKept, CountsKept DEF Inv
  <2>2. ASSUME Inv, UNCHANGED vars  PROVE Inv'
    <3>1. TypeOK'  BY <2>2, StepTyped DEF Inv
    <3>2. Always'
      BY <2>2 DEF Inv, vars, mainVars, domainVars, unitVars, bounds, Always, LauncherIdle, KillEnds,
                  ShutdownOrdered, DownIsEmpty, AnnouncesAlone, FaultsLate, Ids, Ops
    <3>3. Plain'
      <4>1. SUFFICES ASSUME Quiet', NEW e \in Domain  PROVE PlainDomain(e)'
        BY DEF Plain
      <4>2. UNCHANGED <<launcher_file, orders, to_domain, state, spc, queue, ustate, upc>>
        BY <2>2 DEF vars, mainVars, domainVars, unitVars, bounds
      <4>3. PlainDomain(e)  BY <2>2, <4>1, <4>2 DEF Inv, Plain, Quiet
      <4>4. PlainMessages(e)'  BY <4>2, <4>3 DEF PlainDomain, PlainMessages, Ids
      <4> QED  BY <4>2, <4>3, <4>4, PlainFrame
    <3>4. Counts'
      BY <2>2 DEF Inv, vars, mainVars, domainVars, unitVars, bounds, Counts, Faultless, CountsOf,
                  Announced, Announcing, OnTheirWay, Far, Ids
    <3> QED  BY <3>1, <3>2, <3>3, <3>4 DEF Inv
  <2> QED  BY <2>1, <2>2
<1> QED  BY <1>1, <1>2, PTL DEF Spec

\* A domain is READY when its units are, as long as only the main process
\* orders it (ldp_mod_init_notify, domain_proc_consume_msg).
LEMMA UnitsAreReady == Inv => ReadyMeansUnitsReady
<1> SUFFICES ASSUME Inv, NEW d \in Domain, state[d] = "READY", spc[d] = "poll", Quiet,
                    NEW u \in Units(d)
             PROVE  ustate[u] = "READY"
  BY DEF ReadyMeansUnitsReady, Quiet
<1> QED  BY DEF Inv, Plain, PlainDomain, Follows, Waiting

\* No module runs before the triggers of its domain (comp_server_broadcast).
LEMMA TriggersAreFirst == Inv => TriggersFirst
<1> SUFFICES ASSUME Inv, NEW u \in Unit \ Trigger, ustate[u] = "RUNNING", Quiet, main = "running",
                    NEW t \in Units(DomainOf[u]) \cap Trigger
             PROVE  ustate[t] = "RUNNING"
  BY DEF TriggersFirst, Quiet
<1>1. DomainOf[u] \in Domain /\ u \in Units(DomainOf[u])  BY StartupAssumption DEF Units
<1>2. spc[DomainOf[u]] # "stopped" /\ spc[DomainOf[u]] # "down"
  BY <1>1 DEF Inv, Always, KillEnds, DownIsEmpty
<1>3. Alive(DomainOf[u])  BY <1>1, <1>2 DEF Inv, TypeOK, Alive
<1> QED  BY <1>1, <1>3 DEF Inv, Plain, PlainDomain, TriggersLead, NotStarted

\* Each domain announces itself once (ldp_mod_init_notify).
LEMMA CountIsExact == Inv => ReadyCountExact
<1> SUFFICES ASSUME Inv, restarts + orders = 0, main = "running"
             PROVE  /\ \A d \in Domain : Cardinality(Announced(d)) <= 1
                    /\ nb_ready_clients + Cardinality(OnTheirWay) = Cardinality(Far)
  BY DEF ReadyCountExact, OnTheirWay, Far
<1>1. Faultless  BY DEF Faultless
<1>2. ASSUME NEW d \in Domain  PROVE Cardinality(Announced(d)) <= 1
  <2>1. \A i, j \in Announced(d) : i = j  BY <1>1 DEF Inv, Counts, CountsOf
  <2>2. CASE Announced(d) = {}  BY <2>2, FS_EmptySet
  <2>3. CASE Announced(d) # {}
    <3>1. PICK i : Announced(d) = {i}  BY <2>1, <2>3
    <3>2. Cardinality({i}) = 1  BY FS_Singleton
    <3> QED  BY <3>1, <3>2
  <2> QED  BY <2>2, <2>3
<1> QED  BY <1>1, <1>2 DEF Inv, Counts

\* The units, the states of their domains and the counts of the main process
\* agree, whatever crashes and whatever launcher.txt orders.
THEOREM LevelsAgree == Spec => []StatesAgree
<1>1. Inv => StatesAgree
  BY UnitsAreReady, TriggersAreFirst, CountIsExact DEF Inv, StatesAgree
<1> QED  BY <1>1, Invariant, PTL

\* The step that writes START_MOD to a domain, when no fault handler acts and
\* not more CLIENT_READY were counted than there are domains, is that of the
\* last CLIENT_READY (main_proc_consume_control_msg).
LEMMA StartIsWritten ==
  ASSUME TypeOK, Next, orders' = orders, nb_ready_clients' <= PDNumber, NEW e \in Domain,
         Len(to_domain'[e]) > Len(to_domain[e]), Last(to_domain'[e]) = Msg("START_MOD")
  PROVE  /\ nb_ready_clients < PDNumber /\ nb_ready_clients' = PDNumber
         /\ main' = "running" /\ ~launcher_file /\ state' = state /\ restarts' = restarts
<1> DEFINE Goal == /\ nb_ready_clients < PDNumber /\ nb_ready_clients' = PDNumber
                   /\ main' = "running" /\ ~launcher_file /\ state' = state
                   /\ restarts' = restarts
<1>1. Len(to_domain[e]) \in Nat /\ to_domain[e] \in Seq(ToDomain)  BY DEF TypeOK
<1>2. to_domain' # to_domain  BY <1>1
<1>3. ASSUME NEW msg \in ToDomain, NEW ds, to_domain' = WrittenTo(ds, msg)
      PROVE  msg = Msg("START_MOD")
  <2>1. to_domain'[e] = Append(to_domain[e], msg)
    BY <1>1, <1>3 DEF WrittenTo
  <2>2. Last(to_domain'[e]) = msg  BY <1>1, <2>1, Appended DEF Last
  <2> QED  BY <2>2
<1>4. ASSUME NEW d \in Domain, MainConsumes(d)  PROVE Goal
  <2>1. /\ launcher_file' = launcher_file /\ state' = state /\ restarts' = restarts
        /\ main = "running"
    BY <1>4 DEF MainConsumes, domainVars, bounds
  <2>2. ~ \E ds : \E i \in {"INIT_MOD", "KILL"} : to_domain' = WrittenTo(ds, Msg(i))
    <3>1. \A i \in {"INIT_MOD", "KILL"} : Msg(i) \in ToDomain /\ Msg(i) # Msg("START_MOD")
      BY MessagesAreTyped DEF Msg
    <3> QED  BY <1>3, <3>1
  <2>3. ~ClientInit(d)  BY <1>2, <2>2 DEF ClientInit, Lost
  <2>4. ClientReady(d)  BY <1>4, <2>2, <2>3 DEF MainConsumes
  <2>5. EverybodyReady(nb_ready_clients') /\ ~launcher_file
    <3>1. nb_ready_clients' \in Nat  BY <2>4 DEF ClientReady, TypeOK
    <3>2. ~(nb_ready_clients' > PDNumber)  BY <3>1, DomainsAreCounted
    <3> QED  BY <1>2, <2>4, <3>2 DEF ClientReady
  <2> QED  BY <2>1, <2>4, <2>5 DEF ClientReady, EverybodyReady, TypeOK
<1>5. ~LauncherSends
  <2> SUFFICES ASSUME LauncherSends  PROVE FALSE
    OBVIOUS
  <2> DEFINE m == Sync(IdOf[Targets[lpc][sent + 1]], Script[lpc][1])
  <2>1. sent < Len(Targets[lpc]) /\ to_domain' = WrittenTo(Domain, m)
    BY <1>2 DEF LauncherSends
  <2>2. lpc \in 1..Len(Script) /\ lpc \in DOMAIN Script
    BY StartupAssumption DEF LauncherSends
  <2>3. sent + 1 \in 1..Len(Targets[lpc])
    <3>1. Len(Targets[lpc]) \in 0..Len(Descriptors) /\ Len(Descriptors) \in Nat
      BY <2>2, TargetsAreUnits, StartupAssumption
    <3>2. sent \in 0..Len(Descriptors)  BY DEF TypeOK
    <3> QED  BY <2>1, <3>1, <3>2
  <2>4. m \in ToDomain  BY <2>2, <2>3, OrderIsTyped
  <2>5. m # Msg("START_MOD")  BY DEF Sync, Msg
  <2> HIDE DEF m
  <2> QED  BY <1>3, <2>1, <2>4, <2>5
<1>6. ASSUME NEW d \in Domain, Connect(d)  PROVE FALSE
  <2>1. to_domain'[e] = <<>> \/ to_domain'[e] = to_domain[e]  BY <1>6 DEF Connect, TypeOK
  <2> QED  BY <1>1, <2>1
<1>7. ASSUME NEW d \in Domain, DomainConsumes(d)  PROVE FALSE
  <2>1. to_domain[d] \in Seq(ToDomain) /\ to_domain[d] # <<>>  BY <1>7 DEF DomainConsumes, TypeOK
  <2>2. to_domain'[e] = to_domain[e] \/ (e = d /\ to_domain'[e] = Tail(to_domain[e]))
    BY <1>7 DEF DomainConsumes, TypeOK
  <2>3. Len(Tail(to_domain[d])) = Len(to_domain[d]) - 1  BY <2>1, Taken
  <2>4. CASE to_domain'[e] = to_domain[e]  BY <1>1, <2>4
  <2>5. CASE e = d /\ to_domain'[e] = Tail(to_domain[e])
    <3>1. Len(to_domain'[e]) = Len(to_domain[e]) - 1  BY <2>3, <2>5
    <3> QED  BY <1>1, <3>1
  <2> QED  BY <2>2, <2>4, <2>5
<1>8. ASSUME NEW d \in Domain, FaultHandlerOrders(d)  PROVE FALSE
  BY <1>8 DEF FaultHandlerOrders, TypeOK
<1>9. ASSUME NEW d \in Domain,
             SendInit(d) \/ AwaitTriggers(d) \/ Accept(d) \/ MainReadsEof(d) \/ Crash(d)
      PROVE  FALSE
  BY <1>2, <1>9 DEF SendInit, AwaitTriggers, Accept, MainReadsEof, Crash
<1>10. ASSUME NEW u \in Unit, UnitPops(u) \/ Notify(u) \/ Announce(u) \/ KillPlatform(u)
       PROVE  FALSE
  BY <1>2, <1>10 DEF UnitPops, Notify, Announce, KillPlatform
<1> QED
  BY <1>4, <1>5, <1>6, <1>7, <1>8, <1>9, <1>10 DEF Next, ServerNext, UnitNext, MainNext

\* "when all components are READY (only the first time)": if no domain at all is
\* lost before the last of them has announced itself (a lost one that comes back
\* is counted twice), START_MOD is broadcast when every domain is READY.
\* Nothing was crashed or ordered before the last CLIENT_READY was counted, so
\* that the counts are exact, and a domain that runs would have had START_MOD.
THEOREM StartsWhenAllReady == ~CrashesEarly => (Spec => StartWhenAllReady)
<1> SUFFICES ASSUME ~CrashesEarly  PROVE Spec => StartWhenAllReady
  OBVIOUS
<1> DEFINE Starts == /\ nb_ready_clients' <= PDNumber /\ orders' = orders
                     /\ \E d \in Domain : /\ Len(to_domain'[d]) > Len(to_domain[d])
                                          /\ Last(to_domain'[d]) = Msg("START_MOD")
           AllAre == \A d \in Domain : state[d] = "READY"
<1>1. ASSUME Inv, Inv', Next, Starts  PROVE AllAre
  <2>1. /\ nb_ready_clients < PDNumber /\ nb_ready_clients' = PDNumber
        /\ main' = "running" /\ ~launcher_file /\ state' = state /\ restarts' = restarts
    BY <1>1, StartIsWritten DEF Inv
  <2>2. restarts \in Nat /\ orders \in Nat /\ nb_ready_clients \in Nat  BY <1>1 DEF Inv, TypeOK
  <2>3. orders = 0 /\ restarts = 0
    BY <1>1, <2>1, <2>2, DomainsAreCounted DEF Inv, Always, FaultsLate
  <2>4. Faultless /\ Faultless'
    BY <1>1, <2>1, <2>3, StepGoesOnward DEF Inv, Faultless, Onward, TypeOK
  <2>5. \A d \in Domain : state'[d] \in {"READY", "RUNNING"}
    <3>1. TypeOK' /\ Counts' /\ nb_ready_clients' >= PDNumber
      BY <1>1, <2>1, DomainsAreCounted DEF Inv
    <3>2. OnTheirWay' \in SUBSET Domain /\ Far' \in SUBSET Domain  BY DEF OnTheirWay, Far
    <3>3. nb_ready_clients' + Cardinality(OnTheirWay') = Cardinality(Far')
      BY <2>4, <3>1 DEF Counts
    <3>4. Cardinality(Far') \in 0..PDNumber /\ Cardinality(OnTheirWay') \in 0..PDNumber
      BY <3>2, DomainsAreCounted
    <3>5. Cardinality(Far') = PDNumber  BY <2>1, <3>3, <3>4, DomainsAreCounted
    <3>6. Far' = Domain  BY <3>2, <3>5, DomainsAreCounted
    <3> QED  BY <3>6 DEF Far
  <2>6. \A d \in Domain : state[d] # "RUNNING"
    BY <1>1, <2>1, <2>2, <2>4, DomainsAreCounted DEF Inv, Counts, CountsOf
  <2> QED  BY <2>1, <2>5, <2>6
<1>2. ASSUME Inv, UNCHANGED vars  PROVE ~Starts
  <2>1. to_domain' = to_domain /\ \A d \in Domain : Len(to_domain[d]) \in Nat
    BY <1>2 DEF vars, Inv, TypeOK
  <2> QED  BY <2>1
<1>3. Inv /\ Inv' /\ [Next]_vars => [Starts => AllAre]_vars
  BY <1>1, <1>2
<1>4. Spec => [][Starts => AllAre]_vars
  BY <1>3, Invariant, PTL DEF Spec
<1> QED  BY <1>4 DEF StartWhenAllReady
=============================================================================
