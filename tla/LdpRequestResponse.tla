------------------------- MODULE LdpRequestResponse -------------------------
(***************************************************************************)
(* Request-response between modules: the request tables of                 *)
(* lib/ldp_request_response.c (over the node pool of lib/ldp_list.c) and   *)
(* the exchange that lib/ldp_mod_container_util.c,                         *)
(* lib/ldp_comp_util.c and lib/ldp_dynamic_trigger.c build on them.        *)
(*                                                                         *)
(* One client module sends requests, one at a time, to a module of its own *)
(* protection domain ("local") or of another one ("remote").  The answers  *)
(* are delivered by the thread of the local server module and by the       *)
(* router thread of the client's domain.  A synchronous request blocks the *)
(* client's thread on condition_response; an asynchronous one arms a       *)
(* trigger that reports its timeout.  All modules are RUNNING.             *)
(*                                                                         *)
(* Each critical section is one action.  Any other step that reads shared  *)
(* state is an action of its own.                                          *)
(***************************************************************************)
EXTENDS Integers, Sequences, FiniteSets

CONSTANTS
  Node,          \* the nodes of req_sent_list
  NoNode,        \* the NULL pointer
  MaxID,         \* bound: the requests the client sends in a behaviour
  Kinds,         \* the kinds of request it sends: records [server, sync]
  MaxConcurrent, \* the asynchronous requests it may have outstanding
  RequestPool,   \* elements of the local server's FIFO for this operation
  AnswerPool,    \* elements of the client's FIFO for each answer operation
  EventPool,     \* elements of the client's FIFO for other operations
  Expiry,        \* do expiration dates pass while a request is outstanding?
  Urgent,        \* do the answering threads preempt the client's thread?
  SpuriousWakeups \* may the wait for an answer end for no reason?

ID == 1 .. MaxID
Answerer == {"local", "remote"}
NoReq == [id |-> 0, server |-> "none", sync |-> FALSE]
Request == {[id |-> i, server |-> k.server, sync |-> k.sync] : i \in ID, k \in Kinds}

ASSUME RequestAssumption ==
  /\ IsFiniteSet(Node) /\ Node # {} /\ NoNode \notin Node
  /\ MaxID \in Nat /\ MaxConcurrent \in Nat
  /\ \A k \in Kinds : k.server \in Answerer /\ k.sync \in BOOLEAN
  /\ RequestPool \in Nat /\ AnswerPool \in Nat /\ EventPool \in Nat
  /\ Expiry \in BOOLEAN /\ Urgent \in BOOLEAN /\ SpuriousWakeups \in BOOLEAN

VARIABLES
  data,       \* data[n]: the request node n was last filled with
  unused,     \* the unused nodes, the tail of the list last
  last_id,    \* ID_generator of the client
  passed,     \* the requests whose expiration date has passed
  received,   \* req_received_list of the local server
  requests,   \* the requests in the FIFO of the local server
  network,    \* the remote requests whose answer has not come yet
  fifo,       \* the FIFO of the client: records [kind, id], next first
  cpc, creq, cnode,      \* the client: step, request, node to free
  apc, areq, anode,      \* each answerer: the same
  armed, tpc, treq, tnode,  \* the timeout trigger: requests set, step, ...
  fault       \* what went wrong in a list, "none" so far

listVars == <<data, unused>>
clientVars == <<cpc, creq, cnode>>
answererVars == <<apc, areq, anode>>
triggerVars == <<armed, tpc, treq, tnode>>
queueVars == <<received, requests, network, fifo>>
vars == <<listVars, last_id, passed, queueVars, clientVars, answererVars, triggerVars, fault>>

InUse(n) == \A i \in 1 .. Len(unused) : unused[i] # n

(* ldp_find_req_sent (and, as a slip, without comparing the identifier).    *)
Find_AnyID(r) == {n \in Node : InUse(n)}
Find(r) == {n \in Node : InUse(n) /\ data[n].id = r.id}
Found(r) == IF Find(r) = {} THEN NoNode ELSE CHOOSE n \in Find(r) : TRUE

(* ldp_free_req_sent: the assertion of an empty list, and the two misuses   *)
(* of ldp_remove_node it does not notice.                                   *)
ListEmpty == \A n \in Node : ~InUse(n)
FreeSent(n) ==
  \/ /\ ListEmpty
     /\ fault' = "assertion ret == 0"
     /\ UNCHANGED listVars
  \/ /\ ~ListEmpty
     /\ n = NoNode \/ ~InUse(n)
     /\ fault' = "removed twice"
     /\ UNCHANGED listVars
  \/ /\ n # NoNode /\ InUse(n)
     /\ unused' = Append(unused, n)
     /\ UNCHANGED <<data, fault>>

Kind(r) == IF r.sync THEN "sync" ELSE "async"
Count(kind) == Cardinality({i \in 1 .. Len(fifo) : fifo[i].kind = kind})
             + Cardinality({a \in Answerer :
                              apc[a] = "fallback" /\ Kind(data[anode[a]]) = kind})
PoolSize(kind) == IF kind = "event" THEN EventPool ELSE AnswerPool

(* Has the pool of an operation of the client's FIFO, or of the request in  *)
(* the server's, an element left?                                           *)
HasRoom(kind) == Count(kind) < PoolSize(kind)
Msg(kind, r) == [kind |-> kind, id |-> r.id]
ServerHasRoom == Len(requests) < RequestPool

Init ==
  /\ data = [n \in Node |-> NoReq]
  /\ unused \in {s \in [1 .. Cardinality(Node) -> Node] :
                   \A i, j \in DOMAIN s : s[i] = s[j] => i = j}
  /\ last_id = 0
  /\ passed = {}
  /\ received = {} /\ requests = <<>> /\ network = {} /\ fifo = <<>>
  /\ cpc = "idle" /\ creq = NoReq /\ cnode = NoNode
  /\ apc = [a \in Answerer |-> "idle"]
  /\ areq = [a \in Answerer |-> NoReq]
  /\ anode = [a \in Answerer |-> NoNode]
  /\ armed = {} /\ tpc = "idle" /\ treq = NoReq /\ tnode = NoNode
  /\ fault = "none"
-----------------------------------------------------------------------------
(* The client.                                                             *)

Client(step) == cpc' = step
Outstanding == Cardinality({n \in Node : InUse(n) /\ ~data[n].sync})

(* ldp_check_concurrent_RR_num, of the requests the container has counted.  *)
Admitted(k) == k.sync \/ Outstanding < MaxConcurrent

(* ldp_add_req_sent, with the assertion of its callers.  An asynchronous    *)
(* request then tries to set a trigger for its timeout.                     *)
AddSent(k) ==
  LET r == [id |-> last_id + 1, server |-> k.server, sync |-> k.sync]
      n == unused[Len(unused)] IN
  /\ cpc = "idle"
  /\ last_id < MaxID
  /\ Admitted(k)
  /\ IF unused = <<>>
     THEN /\ fault' = "assertion ret == 0"
          /\ UNCHANGED <<listVars, last_id, cpc, creq, armed>>
     ELSE /\ data' = [data EXCEPT ![n] = r]
          /\ unused' = SubSeq(unused, 1, Len(unused) - 1)
          /\ last_id' = r.id
          /\ creq' = r
          /\ armed' \in (IF r.sync THEN {armed} ELSE {armed, armed \cup {r}})
          /\ Client(IF r.server = "local" THEN "add_received" ELSE "send")
          /\ UNCHANGED fault
  /\ UNCHANGED <<passed, queueVars, cnode, answererVars, tpc, treq, tnode>>

AddReceived ==
  /\ cpc = "add_received"
  /\ received' = received \cup {creq}
  /\ Client("send")
  /\ UNCHANGED <<listVars, last_id, passed, requests, network, fifo, creq, cnode,
                 answererVars, triggerVars, fault>>

(* A synchronous request locks wait_response, then pushes or writes. *)
Send ==
  /\ cpc = "send"
  /\ \/ /\ creq.server = "remote"
        /\ network' = network \cup {creq}
        /\ Client(IF creq.sync THEN "wait" ELSE "idle")
        /\ UNCHANGED <<requests, received>>
     \/ /\ creq.server = "local" /\ ServerHasRoom
        /\ requests' = Append(requests, creq)
        /\ Client(IF creq.sync THEN "wait" ELSE "idle")
        /\ UNCHANGED <<network, received>>
     \/ /\ creq.server = "local" /\ ~ServerHasRoom
        /\ received' = received \ {creq}
        /\ Client("undo")
        /\ UNCHANGED <<network, requests>>
  /\ UNCHANGED <<listVars, last_id, passed, fifo, creq, cnode, answererVars,
                 triggerVars, fault>>

(* The rest of RR_failure_clean: find, then free whatever was found. *)
Undo ==
  /\ cpc = "undo"
  /\ cnode' = Found(creq)
  /\ Client("undo_free")
  /\ UNCHANGED <<listVars, last_id, passed, queueVars, creq, answererVars,
                 triggerVars, fault>>

(* apr_thread_cond_timedwait releases wait_response.  A thread that wakes   *)
(* up for no reason is told from none that was signalled.                   *)
Wait ==
  /\ cpc = "wait"
  /\ cpc' \in {"waiting"} \cup (IF SpuriousWakeups THEN {"woken"} ELSE {})
  /\ UNCHANGED <<listVars, last_id, passed, queueVars, creq, cnode, answererVars,
                 triggerVars, fault>>

(* The wait timed out; the thread has not got wait_response back yet. *)
TimeUp ==
  /\ cpc = "waiting"
  /\ creq \in passed
  /\ Client("timed_out")
  /\ UNCHANGED <<listVars, last_id, passed, queueVars, creq, cnode, answererVars,
                 triggerVars, fault>>

TimedOut ==
  /\ cpc = "timed_out"
  /\ cnode' = Found(creq)
  /\ Client(IF Find(creq) = {} THEN "idle" ELSE "free_sent")
  /\ UNCHANGED <<listVars, last_id, passed, queueVars, creq, answererVars,
                 triggerVars, fault>>

ClientFree ==
  /\ cpc \in {"free_sent", "undo_free"}
  /\ FreeSent(cnode)
  /\ Client("idle")
  /\ UNCHANGED <<last_id, passed, queueVars, creq, cnode, answererVars, triggerVars>>

(* The wait ended without a timeout: MOD_CONTAINER_OK. *)
ReturnOK ==
  /\ cpc = "woken"
  /\ Client("idle")
  /\ UNCHANGED <<listVars, last_id, passed, queueVars, creq, cnode, answererVars,
                 triggerVars, fault>>

(* The generated container: pops its FIFO, and takes the request of an      *)
(* asynchronous answer out of the table.                                    *)
Serve ==
  LET answered == {n \in Node : InUse(n) /\ data[n].id = Head(fifo).id /\ ~data[n].sync} IN
  /\ cpc = "idle"
  /\ fifo # <<>>
  /\ fifo' = Tail(fifo)
  /\ \/ answered = {} /\ UNCHANGED unused
     \/ \E n \in answered : unused' = Append(unused, n)
  /\ UNCHANGED <<data, last_id, passed, received, requests, network, clientVars,
                 answererVars, triggerVars, fault>>

(* wait_response is held from the lock before the push to the wait, and from *)
(* the end of the wait to the return.                                       *)
WaitResponseFree_Ignored == TRUE
WaitResponseFree == cpc \notin {"wait", "undo", "undo_free", "free_sent"} \/ ~creq.sync
-----------------------------------------------------------------------------
(* The answering threads.                                                  *)

Answer(a, step) == apc' = [apc EXCEPT ![a] = step]

(* The local server's module pops a request and runs it: it will answer. *)
TakeRequest ==
  /\ apc["local"] = "idle"
  /\ requests # <<>>
  /\ areq' = [areq EXCEPT !["local"] = Head(requests)]
  /\ requests' = Tail(requests)
  /\ Answer("local", "find")
  /\ UNCHANGED <<listVars, last_id, passed, received, network, fifo, clientVars,
                 anode, triggerVars, fault>>

(* The router reads the answer of a request from its socket. *)
TakeAnswer ==
  /\ apc["remote"] = "idle"
  /\ \E r \in network :
       /\ areq' = [areq EXCEPT !["remote"] = r]
       /\ network' = network \ {r}
  /\ Answer("remote", "find")
  /\ UNCHANGED <<listVars, last_id, passed, received, requests, fifo, clientVars,
                 anode, triggerVars, fault>>

(* Where each thread goes when it gives up an answer.                       *)
GiveUp(a) == IF a = "local" THEN "done" ELSE "idle"

FindSent(a) ==
  /\ apc[a] = "find"
  /\ anode' = [anode EXCEPT ![a] = Found(areq[a])]
  /\ Answer(a, IF Find(areq[a]) = {} THEN GiveUp(a) ELSE "check")
  /\ UNCHANGED <<listVars, last_id, passed, queueVars, clientVars, areq, triggerVars, fault>>

(* The timeout is read through the node's pointer, with no lock.  Only the  *)
(* router frees the node of an answer that is out of date.                  *)
CheckTimeout(a) ==
  LET late == data[anode[a]] \in passed IN
  /\ apc[a] = "check"
  /\ Answer(a, IF ~late THEN "push" ELSE IF a = "local" THEN GiveUp(a) ELSE "free")
  /\ UNCHANGED <<listVars, last_id, passed, queueVars, clientVars, areq, anode,
                 triggerVars, fault>>

(* The server keeps is_synchrone in its own table; the router reads the     *)
(* client's.                                                                *)
Sync(a) == IF a = "local" THEN areq[a].sync ELSE data[anode[a]].sync

(* After the push: the server frees the node, then signals; the router      *)
(* signals, then frees it.  The node of an asynchronous request is left to  *)
(* the client, unless the router's push failed.                             *)
AfterPush_AnyKind(a, stored) == IF a = "local" THEN "free" ELSE "signal"
AfterPush_Kept(a, stored) == IF Sync(a) THEN "signal" ELSE GiveUp(a)
AfterPush(a, stored) ==
  IF Sync(a) THEN (IF a = "local" THEN "free" ELSE "signal")
  ELSE IF a = "remote" /\ ~stored THEN "free"
  ELSE GiveUp(a)

PushAnswer(a) ==
  LET kind == Kind(data[anode[a]])
      msg == Msg(kind, areq[a]) IN
  /\ apc[a] = "push"
  /\ \/ /\ ~HasRoom(kind)
        /\ Answer(a, AfterPush(a, FALSE))
        /\ UNCHANGED fifo
     \/ /\ HasRoom(kind)
        /\ Sync(a) /\ fifo = <<>>
        /\ Answer(a, "fallback")
        /\ UNCHANGED fifo
     \/ /\ HasRoom(kind)
        /\ ~(Sync(a) /\ fifo = <<>>)
        /\ fifo' = IF Sync(a) THEN <<msg>> \o fifo ELSE Append(fifo, msg)
        /\ Answer(a, AfterPush(a, TRUE))
  /\ UNCHANGED <<listVars, last_id, passed, received, requests, network, clientVars,
                 areq, anode, triggerVars, fault>>

(* ldp_push_first_fifo found the FIFO empty: it calls ldp_push_fifo. *)
PushFallback(a) ==
  /\ apc[a] = "fallback"
  /\ fifo' = Append(fifo, Msg(Kind(data[anode[a]]), areq[a]))
  /\ Answer(a, AfterPush(a, TRUE))
  /\ UNCHANGED <<listVars, last_id, passed, received, requests, network, clientVars,
                 areq, anode, triggerVars, fault>>

AfterFree(a) == IF a = "local" THEN "signal" ELSE "idle"

AnswererFree(a) ==
  /\ apc[a] = "free"
  /\ FreeSent(anode[a])
  /\ Answer(a, AfterFree(a))
  /\ UNCHANGED <<last_id, passed, queueVars, clientVars, areq, anode, triggerVars>>

(* lock, signal, unlock: it wakes the client only if it waits. *)
Signal(a) ==
  /\ apc[a] = "signal"
  /\ WaitResponseFree
  /\ Client(IF cpc = "waiting" THEN "woken" ELSE cpc)
  /\ Answer(a, IF a = "local" THEN "done" ELSE "free")
  /\ UNCHANGED <<listVars, last_id, passed, queueVars, creq, cnode, areq, anode,
                 triggerVars, fault>>

(* The server's generated container takes the request out of its table. *)
FreeReceived ==
  /\ apc["local"] = "done"
  /\ received' = received \ {areq["local"]}
  /\ Answer("local", "idle")
  /\ UNCHANGED <<listVars, last_id, passed, requests, network, fifo, clientVars,
                 areq, anode, triggerVars, fault>>
-----------------------------------------------------------------------------
(* Time, the timeout trigger and the other senders.                        *)

Pass ==
  /\ Expiry
  /\ \E r \in Request :
       /\ r \notin passed
       /\ r = creq \/ \E n \in Node : InUse(n) /\ data[n] = r
       /\ passed' = passed \cup {r}
  /\ UNCHANGED <<listVars, last_id, queueVars, clientVars, answererVars, triggerVars, fault>>

(* ldp_handler_dynamic_trigger_RR_async: find, free, push. *)
TriggerFind ==
  /\ tpc = "idle"
  /\ \E r \in armed \cap passed :
       /\ armed' = armed \ {r}
       /\ treq' = r
       /\ tnode' = Found(r)
       /\ tpc' = IF Find(r) = {} THEN "idle" ELSE "free"
  /\ UNCHANGED <<listVars, last_id, passed, queueVars, clientVars, answererVars, fault>>

TriggerFree ==
  /\ tpc = "free"
  /\ FreeSent(tnode)
  /\ tpc' = "push"
  /\ UNCHANGED <<last_id, passed, queueVars, clientVars, answererVars, armed, treq, tnode>>

TriggerPush ==
  /\ tpc = "push"
  /\ fifo' = IF HasRoom(Kind(treq)) THEN Append(fifo, Msg(Kind(treq), treq)) ELSE fifo
  /\ tpc' = "idle"
  /\ UNCHANGED <<listVars, last_id, passed, received, requests, network, clientVars,
                 answererVars, armed, treq, tnode, fault>>

(* Another module sends the client an event. *)
PushEvent ==
  /\ HasRoom("event")
  /\ fifo' = Append(fifo, Msg("event", NoReq))
  /\ UNCHANGED <<listVars, last_id, passed, received, requests, network, clientVars,
                 answererVars, triggerVars, fault>>

(* The client's thread runs when no urgent thread is ready to. *)
Scheduled ==
  Urgent => \A a \in Answerer : apc[a] = "idle" \/ (apc[a] = "signal" /\ ~WaitResponseFree)

Run ==
  \/ AddReceived \/ Send \/ Undo \/ Wait \/ TimedOut \/ ClientFree \/ ReturnOK

AnswerStep(a) ==
  \/ FindSent(a) \/ CheckTimeout(a) \/ PushAnswer(a) \/ PushFallback(a)
  \/ AnswererFree(a) \/ Signal(a)

Trigger == TriggerFind \/ TriggerFree \/ TriggerPush
Local == TakeRequest \/ AnswerStep("local") \/ FreeReceived
Router == TakeAnswer \/ AnswerStep("remote")

Next ==
  /\ fault = "none"
  /\ \/ Scheduled /\ (Run \/ Serve \/ \E k \in Kinds : AddSent(k))
     \/ Local \/ Router \/ Trigger
     \/ TimeUp \/ Pass \/ PushEvent

Spec == Init /\ [][Next]_vars

(* Threads that can run do run, the urgent ones leave the client's thread   *)
(* time, every remote request is answered, dates pass where they may at all *)
(* and a wait ends on its timeout.                                          *)
(* Nothing makes the client send or an event arrive.                        *)
Fairness ==
  /\ WF_vars(fault = "none" /\ Local)
  /\ WF_vars(fault = "none" /\ Router)
  /\ SF_vars(fault = "none" /\ Scheduled /\ Run)
  /\ WF_vars(fault = "none" /\ TimeUp)
  /\ WF_vars(fault = "none" /\ Pass)

FairSpec == Spec /\ Fairness
-----------------------------------------------------------------------------
(* Type correctness, pools and lists included. *)
TypeOK ==
  /\ data \in [Node -> Request \cup {NoReq}]
  /\ unused \in Seq(Node) /\ Len(unused) <= Cardinality(Node)
  /\ last_id \in 0 .. MaxID
  /\ passed \subseteq Request /\ received \subseteq Request
  /\ requests \in Seq(Request) /\ Len(requests) <= RequestPool
  /\ network \subseteq Request
  /\ fifo \in Seq([kind : {"sync", "async", "event"}, id : 0 .. MaxID])
  /\ \A kind \in {"sync", "async", "event"} : Count(kind) <= PoolSize(kind)
  /\ cpc \in {"idle", "add_received", "send", "undo", "undo_free", "wait", "waiting",
              "woken", "timed_out", "free_sent"}
  /\ creq \in Request \cup {NoReq} /\ cnode \in Node \cup {NoNode}
  /\ apc \in [Answerer -> {"idle", "find", "check", "push", "fallback", "free",
                           "signal", "done"}]
  /\ areq \in [Answerer -> Request \cup {NoReq}]
  /\ anode \in [Answerer -> Node \cup {NoNode}]
  /\ armed \subseteq Request /\ tpc \in {"idle", "free", "push"}
  /\ treq \in Request \cup {NoReq} /\ tnode \in Node \cup {NoNode}
  /\ fault \in {"none", "assertion ret == 0", "removed twice"}

(* No node is removed from the list twice: whoever frees the entry of a     *)
(* request, the client on a timeout or the thread that answers, is the only *)
(* one to do it, and does it to the entry of that very request.             *)
FreedOnce ==
  /\ fault = "none"
  /\ \A a \in Answerer :
       apc[a] = "free" => InUse(anode[a]) /\ data[anode[a]] = areq[a]
  /\ cpc = "free_sent" => InUse(cnode) /\ data[cnode] = creq

AnswerQueued(i, r) == fifo[i].id = r.id

(* "wait response and continue": a synchronous request that returns OK has  *)
(* its own answer in the FIFO of its module, not the wakeup of another one. *)
OkMeansAnswered ==
  [][(cpc = "woken" /\ cpc' = "idle") => \E i \in 1 .. Len(fifo) : AnswerQueued(i, creq)]_vars

(* The entry of a request leaves the table when the request is over: an     *)
(* entry in use belongs to a request that is being sent, or waits for an    *)
(* answer that somebody will still bring, or has it in the client's FIFO.   *)
EntriesAccountedFor ==
  \A n \in Node : InUse(n) =>
    LET r == data[n] IN
    \/ r = creq /\ cpc \in {"add_received", "send", "undo", "undo_free", "free_sent"}
    \/ r \in network
    \/ \E i \in 1 .. Len(requests) : requests[i] = r
    \/ \E a \in Answerer : areq[a] = r /\ apc[a] \notin {"idle", "done"}
    \/ \E i \in 1 .. Len(fifo) : AnswerQueued(i, r)

(* A synchronous request comes back: its signal cannot fall between the push *)
(* of the request and the wait.                                             *)
SyncReturns == (cpc # "idle" /\ creq.sync) ~> (cpc = "idle" \/ fault # "none")
=============================================================================
