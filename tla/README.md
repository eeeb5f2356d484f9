# A verification of ecoa-network

This directory holds a TLA+ model of the ECOA platform library in `src/lib`
(the "LDP" runtime): modules that TLC checks on small instances and, for part
of them, theorems that TLAPS checks for every instance. `PROJECT.json` is the
index: components, runs, the source lines each definition stands for, hazards,
and for each property a slip of the code that would break it.

## 1. The system

An ECOA application is a set of *modules*, each with a thread and a queue of
operations, grouped into *protection domains* (PD), one process each, beside
one *main* process. The main process starts the domains, passes life-cycle
orders and talks to other platforms (ELI protocol); the domains talk to it and
to each other over TCP, UDP, DDS or APEX ports, chosen when the library is
built. The threads use APR, or an APR look-alike over APEX (ARINC 653). What
lies between the library and a module (its *container*) and between the library
and a socket (its *router*) is generated and not part of the repository.

### Inventory

| Component (source) | State | Operations | Talks to | What is hard | What makes it correct |
|---|---|---|---|---|---|
| Module FIFO (`ldp_fifo.c`) | ring, two cursors, size, mutex | push, push first, pop | FIFO manager | push first unlocks in the middle; both ends wrap | it is a bounded deque |
| Element pools (`ldp_fifo_elt_pool.c`) | elements FREE/USED, counter | get, release | FIFO manager | counter read and states written without the mutex | one owner per element, exact counter |
| FIFO manager (`ldp_fifo_manager.c`) | FIFO, pools, `activating_op_num`, condition | push, pop, release, clean | every thread of the process | element pushed under one mutex and counted under another; clean among pushes; wait under an `if` | no wakeup lost, no element lost, KILL survives a cleaning |
| Module life cycle (`ldp_mod_lifecycle.c`) | state of the module | initialize, start, stop, shutdown, kill | FIFO manager, request tables | operations queued across a change of state | requests dropped by a cleaning leave the table |
| Request-response (`ldp_request_response.c`, `ldp_mod_container_util.c`, `ldp_comp_util.c`) | tables of requests sent and received, `condition_response` | send, answer, time out, free | two module threads, router, trigger | a timeout races an answer for one table entry; wait without predicate | entry freed once; OK means answered; a call returns |
| Node list (`ldp_list.c`) | two chains of links in an array | add, remove, clean | request tables, reconnection | removal from the middle, the head, the tail, in any order | it is a bounded list |
| Dynamic trigger (`ldp_dynamic_trigger.c`) | table of dated events, trigger thread | set, reset, life cycle; scan, sleep, send | module queue, request tables | the table is shared mostly without the mutex; signal before wait | an event is sent once, not early, in the end; a stop returns |
| Periodic triggers (`ldp_trigger.c`, `apex/ldp_trigger.c`) | timers, threads, signals, state | life cycle, fire | module queues | signals pending across a stop; a thread told to end while it tests | silent when stopped; stop returns; sends at each period |
| Versioned data (`ldp_VD*.c`) | copies with reader counts, published pointer | get/release read; get/publish/cancel written; update other repositories | modules, sockets | copies are read and filled without the mutex | a read is whole and of one instant; no copy lost |
| Component start-up (`ldp_comp_util.c`, `ldp_network.c`) | states of modules, triggers, domain | received life-cycle message, state notification | main process, module queues | modules start only after all triggers run; retries | every module is initialized and started |
| Main process (`ldp_network.c`) | states of the clients, two counters, faults | INIT/START/KILL broadcast, fault report | all domains | counters of announcements; `state_mutex` not always taken | START only when every domain is ready |
| Launcher (`ldp_launcher.c`) | the lines of a file | send operations to modules, wait for them | modules | runs beside the automatic start | each line is sent once, in order |
| TCP (`tcp/`) | sockets, partial messages | connect, read, write, reconnect | both servers | partial reads and sends, peers that come back | messages whole, in order; connected again |
| UDP (`ldp_core_udp.c`, `udp/`) | reassembly buffers | write, read | both servers | loss, reordering | a delivered message is one that was sent |
| ELI datagrams (`eli/ldp_ELI_udp.c`) | channels | fragment, defragment | other platforms | as UDP; counters per message | no splicing of two messages |
| ELI platform management (`eli/ldp_ELI_msg_management.c`) | what is known of the other platform | status, requests and pushes of versioned data | main process | platforms come and go in any order | each learns of the other and gets its data |
| DDS (`dds/`) | topics, readers, routes | join, publish, take, deliver | both servers | late joiners, bounded histories, everybody reads everything | no gap for who is addressed; a start and a KILL reach all |
| APEX ports (`apex_port/`) | queuing ports | attach, write, scan | both servers | bounded ports, sends that wait without limit | nobody waits for ever |
| APR over APEX (`apex_apr/`) | processes, semaphores, pool tree | threads, mutexes, conditions, pools | everything | timeouts against signals; callbacks against the pool they belong to; calls that fail half-way | no wakeup lost, no memory given twice, each cleanup run once |
| Time, logging, properties, serialisation | none or local | conversions, output | everyone | - | - |

### The hazards

`PROJECT.json` lists them at their line with the properties that would show
them going wrong. They fall into six groups: *a count and what it counts
change under different locks* (FIFO manager, pools, ready domains); *a signal
given before the wait it is meant for* (FIFO manager, requests, triggers,
conditions over APEX); *an entry found under a lock and used after it*
(requests, triggers, versioned data); *messages cut, lost, overtaken or late*
(the transports); *processes and platforms that come back* (start-up, TCP, ELI);
and *a full pool, list, FIFO, port or history*, whose failure is often not
looked at.

## 2. The modules

| Module | Models | Uses |
|---|---|---|
| `LdpFifo` | the ring of `ldp_fifo.c`; implements `BoundedDeque`, a bounded double-ended queue | |
| `LdpFifoManager` | a module's queue: pools, FIFO, counter, wait, clean, life cycle, the requests queued | the FIFO as the deque `LdpFifo` implements |
| `LdpRequestResponse` | request tables, synchronous and asynchronous calls, answers, timeouts | the list as the one `LdpList` implements |
| `LdpList` | the links of `ldp_list.c`; implements `BoundedList` | |
| `LdpDynTrigger` | the dynamic trigger's two threads and its table | |
| `LdpTrigger`, `ApexTrigger` | the periodic triggers of the two builds | |
| `LdpVD` | versioned data: readers, writers, the update of a second repository; implements `VersionedRegister` for its readers | |
| `LdpStartup` | main process, domains, units and launching thread, composed by their messages, from the first connection to the KILL | the queue as `LdpFifoManager` has it |
| `LdpTcpStream` | framing of messages over a byte stream; implements `OrderedChannel` | |
| `LdpTcpLink` | the connections between processes that die and come back | |
| `LdpUdp` | messages cut into packets and put together again | |
| `LdpApexPort` | the servers over queuing ports | |
| `LdpEliUdp` | ELI messages as datagrams, and their channels | |
| `LdpEliStatus` | what two platforms tell each other | |
| `ApexPools`, `ApexCond`, `ApexThread` | memory pools, condition variables and threads of APR over APEX | |
| `LdpDds` | the DDS runtime, its routes, both servers over it and the start-up they carry | |
| `MC...` | constants, symmetry and parts for TLC | the modules their header names |

| Proofs | Theorems on |
|---|---|
| `SharedDataProofs` | data that threads share: the ring of `LdpFifo`, the list of `LdpList`, the copies and the register of `LdpVD`, the pools, conditions and threads of APR over APEX (`MCApex`) |
| `LdpFifoManagerProofs`, `MCLdpFifoManagerProofs` | a module's queue; the three regimes of the run `queue` |
| `LdpRequestResponseProofs` | request-response |
| `MCTriggersProofs` | the dynamic trigger, then the periodic triggers of both builds beside it |
| `MCLinksProofs` | the links of `MCLinks`: TCP streams and connections, UDP, ports, ELI |
| `LdpStartupProofs` | the start-up of `LdpStartup` |
| `ExchangeProofs` | what two sides exchange: the two regimes of the run `requests`; the packets of `LdpDds` |

The regimes of a run are instances of one model with other constants. `MCLdpFifoManager`
and `MCLdpRequestResponse` therefore instantiate the proofs of their component:
a theorem about one regime is an instance of the component's theorem. That the
constants of each regime satisfy what the instance assumes is an assumption of
these modules (`RegimesAssumption`, `MixedAssumption`), which TLC evaluates.

**The grain.** A critical section is one action; so is every access to shared
state outside of one. An access nobody else can observe (a local, or a field
whose only users are ordered with it) goes with its neighbour. Every step that
can block is an action with the blocking condition as guard.

**LdpFifo.** `queue`, `head`, `tail`, `current_size` are the fields of
`ldp_fifo`. `ldp_push_first_fifo`, which unlocks an empty ring before it calls
`ldp_push_fifo`, is two actions (`PushFirst`, `PushFirstFallback`), the element
between them in `falling_back`. The second returns success whatever happened,
as the code does.

**LdpFifoManager.** `pc` is where each producer is in
`_ldp_fifo_manager_push_local` (`check` and `get` in the pool, `push` or
`fallback` in the FIFO, `count` in the section that increments
`activating_op_num` and signals); `cpc` is where the module thread is in
`ldp_fifo_manager_pop_elt`, its container, `ldp_fifo_manager_release_elt` or
`ldp_fifo_manager_clean`. `elt` is the pointer the container keeps from one pop
to the next, which matters when a pop gives nothing. The life cycle is that of
`ldp_mod_lifecycle.c`. `received` is the request table, of which only who is in
it matters. An operation's content is a record from a small set, and counters
are modulo `UintMod` so that they wrap around.

**LdpRequestResponse.** One client thread (`cpc`), the local server's module
thread and the router thread (`apc`), the thread of the timeout trigger
(`tpc`). `data` and `unused` are the node array and its free list: a node keeps
its content when it is removed, and the code keeps pointers to it, so a stale
pointer reads what the model reads. Misuses of the list that the code does not
notice set `fault`, after which nothing more is claimed. Remote requests are
written to `network`; the one answer to each comes back at any time, in any order.

**LdpList.** The fields of `ldp_list_t` and, per node, its links. Both chains,
the list and the free nodes, use the same links. Each call is one action, since
its callers hold a mutex. `List` follows the links from the last node and maps
them to the sequence of `BoundedList`.

**LdpDynTrigger.** `mpc` is the module thread, `tpc` the trigger thread. The
scan that precedes the wait and the wait are one action, since the thread holds
the mutex throughout and every writer of the table signals afterwards; every
other access is one action each. Dates are small numbers and `Tick` is the clock.

**LdpTrigger.** A thread and a timer per period. `pending` is the signal sent to
a thread and not yet taken; a thread that is signalled before it has blocked the
signal ends the process (`terminated`). Disarming a timer may or may not
withdraw a signal already sent, as POSIX leaves open. **ApexTrigger**: START
creates the threads, STOP joins them.

**LdpVD.** Per copy `state`, `num_readers`, `to_be_release`, and `data`, a
version number. A `memcpy` takes two actions and yields `Torn` when its source
changed in between; a copy being filled is `Torn`, too. A free copy is any free
copy (the code takes the first). A read for a socket takes the same steps as
one for a module and is not distinguished.

**LdpStartup.** One action per control message at the main process
(`main_proc_consume_control_msg`) and at a domain (`domain_proc_consume_msg`),
one per life-cycle operation of a unit, split where `ldp_mod_init_notify` leaves
its mutex. A connection is two sequences of messages. `comp_server_broadcast`
is the step "starting" of the server, with its tries. The write of CLIENT_READY may
fail once the main process has ended, and puts the domain back to INIT. A domain may crash: its
units and its server go, what it had written is still read. `lpc` is the line of
the launching thread.

**The transports.** `LdpTcpStream` moves bytes: sends and reads take any part of
what is there, and the buffer of `TCP_read_and_parse_buffer` keeps the rest; a send
that fails gives up the rest of its message.
`LdpTcpLink` has the sockets of both ends, the pollset of a server in the order
in which its descriptors became ready, and the list of the interfaces to connect
again. `LdpUdp` and `LdpEliUdp` mark each chunk with the message it came from, so
that a message put together from two shows. `LdpApexPort` counts messages in
ports; a thread that waits for room is in `waiting` or `broadcast`. `LdpEliStatus`
has two platforms that stop and start. `LdpDds` follows the tables of the
generated `route.h` of the example: who reads which topic, who drops what on it,
and what the middleware keeps (`cache`, bounded by `KeepLast`) for the readers
that are there and those to come.

**APR over APEX.** `ApexPools` carves blocks from one arena and recycles them;
a clear or a destroy is a stack of frames, since cleanup callbacks run in the
middle and use the pool; `apr_pool_terminate` destroys the roots one after the
other. `ApexCond` is the semaphore with its two counters,
used as the library uses conditions: in a loop, signalled under the mutex.
`ApexThread` is the registry of processes, whose calls may fail at each step.

## 3. The runs

Modules whose state does not meet share a run: a behaviour is then of one
*part* or *regime*, chosen in its initial state, and the others keep theirs. A
property that speaks of several parts is the conjunction of what is said of each.

TLC checks deadlock only in `data`: elsewhere the system ends, when the bounded
number of requests or operations is used up or a KILL has been executed. The
bound of each is named in its module.

| Run | Question | Instance |
|---|---|---|
| `data` | Is the ring a deque, are the links a list, are copies used exactly while needed, is the repository a register? | ring of 3 slots, 2 threads, 3 elements; list of 4 nodes; 2 writers (one READ_WRITE), 2 readers, 3 + 2 copies, 3 versions |
| `queue` | Are elements owned once and counters exact, does a cleaning keep what it must, is what is queued served and a KILL run, does the module thread never sleep on work? | *life*: whole life cycle, FIFO of 2, 3 elements, producers preempt; *push*: 2 producers, FIFO of 3; *spurious*: waits end for no reason, counters modulo 4 |
| `requests` | Is an entry freed once, OK an answer, does a call return? | *in_time*: 3 nodes, 3 requests of any kind; *mixed*: 2 nodes, 2 requests, dates that pass |
| `request_stale_signal` | *violated*: OK means answered, with timeouts, on several processors | 2 synchronous requests |
| `triggers` | Is an event sent once, not early and in the end; does a trigger thread oversleep; can a periodic trigger be stopped, is it silent then, does it send at each period? | dynamic: 2 slots, 5 operations, 3 units of time; periodic, both builds: 2 periods, 5 operations |
| `trigger_stop_hangs` | *violated*: a STOP of the dynamic trigger returns | initialize, start, stop |
| `startup` | Does the platform start in order and do the three levels of state agree; does everyone run; does a KILL end all threads? | 2 domains, 2 modules, a trigger; one crash with restart or one order of a fault handler; a launcher file or none |
| `links` | Are messages whole, do they arrive, are connections made again, does nobody wait for ever on a port, do platforms get to know each other? | 6 parts, see below |
| `eli_lost_pair` | *violated*: an ELI message given to a domain is one that was sent | two datagrams lost |
| `apex` | Is memory given once and each cleanup run once; does a condition lose no wakeup; does every join return? | 3 pools, an arena of 7 units, tables that fill up; 1 untimed and 2 timed waiters; 4 threads, a registry of 2 |
| `dds` | Is what is addressed to a process consumed in order without a gap; does everyone run; does a KILL stop all? | the routes of `example/route.h`: main, 2 domains, 2 modules, batches of 2, histories of 12 |
| `dds_ready_twice` | *violated*: the platform starts when every domain is READY | the same, initialisations that do not outlast a test |

The parts of `links`: TCP with two writers (one at a time where sends are partial), three
messages, sends and reads cut anywhere; two TCP connections with three deaths of processes; UDP with messages
of two packets, one lost, in a network that keeps the order or does not; APEX
ports of depth one between three processes, none misconfigured or any one; ELI
with messages of one to three fragments, one or two channels, one datagram lost
(two when the counter goes on from a message to the next); two platforms started
four times in all.

**Why these bounds.** The violations found need two requests, two writers, two
datagrams or one stop, and come back within them. A FIFO of two or three slots
wraps, fills, drains and is overtaken by a push first; a list of four has nodes
that are neither first nor last; three versions and three copies let a copy be
published, replaced while it is read, freed by its last reader and used again;
two slots and five operations let an event be reset and its slot reused between
the trigger thread's test and its clearing, and a periodic trigger be started,
stopped, started again and shut down; three deaths let both ends of a connection
die and one of them again; a lost packet and a next message are enough to meet
what an incomplete message leaves behind. Ports of depth one and tables of two
are full as often as not. A history of twelve holds all that an instance has
unread at once: the code's 32 can be too few, see section 6.

**Regimes.** Some properties hold only under a scheduling that the deployment
may or may not give, and the constants say which.

- `Urgent`: producers (or answering threads) preempt the module thread and are
  not preempted by it, as on one processor with fixed priorities. In that
  regime a cleaning never falls between a push and its count, and the counter
  after a cleaning is exact; on several processors it is not (nor does
  `OkMeansAnswered` hold with dates that pass).
- `Expiry`: expiration dates may pass while a request is outstanding. With them
  the code may free an entry twice, and `EntriesInTime` says so little.
- `Prompt`: the date set in a slot does not pass while `ldp_set_dynamic_trigger`
  is between its assignments. Without it the trigger thread can call a handler
  that has not been written yet.
- A SHUTDOWN or KILL that finds a request queued uses a NULL request table; the
  properties of the queue say nothing of what follows such a `fault`.
- The FIFO has room for the elements of all pools in the regime *push*
  (`UsedIsHeld`): the code does not check this sizing, and when it is not so a
  push that finds the FIFO full keeps its element for ever.
- `AnswerPool` has an element for every request. When it has fewer, a
  synchronous call whose answer could not be pushed returns OK.
- `SpuriousWakeups`, of the wait for an answer: a wait that ends for no reason
  returns OK too, so that `OkMeansAnswered` does not hold with them.
- `CrashesEarly`: with it a domain may crash before the platform has started.
- `CutsMessage`: with it a message may be cut: the peer disappears within it, or
  the 30 s timeout of a client's socket passes while it is sent or read.
- `DiesAnytime`: with it the client of a connection may die before the server
  has accepted it.
- `tcpPartial`: sends take a part of the bytes; with `OneWriter` one thread writes
  at a time then, which nothing in `ldp_IP_write` sees to.
- `SlowInit`: an INITIALIZE outlasts the few instructions of the server's test.
- `overlong`: a timeout too long to be converted by `apr_thread_cond_timedwait`;
  the invariant of the semaphore does not hold then.

**Fairness.** `WF` on each thread and server loop that can run: the operating
system schedules it. `SF` on the thread that urgent threads preempt, with `[]<>`
of those being idle: they wait for messages now and then. `SF` on a thread that
asks for the mutex of an `ApexCond`: APEX mutexes are created `FIFO`.
`WF` on the clock, on timers and on a wait whose date has passed. The router is
fair only once an answer has arrived, and every remote request is answered in
the end. Nothing is assumed to push an operation, send a request, die, lose a
datagram, fail a call or wake a thread for no reason.

**Symmetry** is used in `data` (threads, elements, the copies of each
repository), which checks no liveness.

### What the violations show

1. `request_stale_signal`: the wait for a synchronous answer has no predicate. A
   request times out while its answer is being delivered; the signal for it ends
   the wait of the next request, which returns OK with no answer.
2. `trigger_stop_hangs`: the trigger thread tests the state, then locks and
   waits. A stop that changes the state and signals in between wakes nobody and
   joins a thread that sleeps for ever. The timeout trigger of a module
   (`ldp_mod_stop_RR_trigger`) has the same shape.
3. `eli_lost_pair`: the `channel_counter` of a datagram is to detect missing
   ones, but every caller restarts it for each message. If the last datagram of
   one message and the first of the next are lost, the two halves are joined.
   With a counter that goes on, two losses do no harm (run `links`).
4. `dds_ready_twice`: the server that ordered the initialisation of its modules
   tests whether they are READY without the mutex under which the last of them
   does so too. Both announce the domain, and the main process, which counts
   announcements, starts the platform one domain too early.

### Other disagreements

Each was seen as a counterexample of TLC. Three have a configuration that
reproduces it, which is no run of the project:

- `FifoManagerEmptyPop.cfg` (on `MCLdpFifoManager`, `PopNeverEmptyHanded`): a push
  puts the element in the FIFO, then counts it under another mutex. A cleaning
  that recounts the FIFO in between counts it twice, and a later pop of the empty
  FIFO does not wait; `ldp_fifo_manager_pop_elt` leaves the pointer it was given
  alone and the container runs the previous operation again.
- `VDMirror.cfg` (on `MCData`, `MirrorIsWhole`): the publishing writer protects
  the copy it published, then copies the one that is published *now*. With a
  second writer that one may be freed and filled again during the copy.
- `StartupLostEarly.cfg` (on `MCLdpStartup`, `StartWhenAllReady`): a domain that
  dies after it announced itself and comes back is counted twice.

*Queue and requests.* `ldp_push_first_fifo` returns success although its second
push failed; `ldp_pop_fifo` returns an error on an empty FIFO where its header
says it blocks; `ldp_element_pool_get` gives up while an element is free whose
release has not been counted; SHUTDOWN and KILL pass a NULL request table to a
cleaning that may find a request to remove; a timeout and a late answer may both
free one entry and, the list being empty, end the process on an assertion; an
answer pushed first may not be first, because of the gap of push first; an
asynchronous request can get both its answer and its timeout, and the trigger
can free an entry that another request has taken in the meantime, whose answer
is then dropped.

*Periodic triggers.* A signal that finds a period's thread before its
`sigprocmask`, which comes after the barrier that lets the timers start, ends the
process. If `pthread_create` fails, INITIALIZE returns with threads in the
barrier that read their arguments from its stack. A stopped period may still
send once, for a signal already pending.

*Start-up.* A SHUTDOWN order followed by an INIT_MOD may leave a notification
that announces the domain early, and a START that a cleaning drops. After five
tries the modules of a domain are never started, but it is RUNNING for the main
process. A KILL does not reach a domain whose connection is not accepted yet. A
launcher file that starts a unit before all are READY keeps CLIENT_READY from
ever being sent. The parameters of the launching thread are on the stack of a
function that returns, and its end is waited for even when it was never created.
A module identifier of 128 or more is read through a signed byte. The KILL
message has four bytes, of which the main process reads one.

*Transports.* A connection that ends within a message, or whose client waits 30 s
for the rest of one, gives it as whole (`CutsMessage`); two threads that write on
one connection mix their messages when a send is partial (`OneWriter`); a client that dies before it is accepted is not connected
again (`DiesAnytime`); a duplicated UDP packet counts twice, and a sender that
restarts uses its numbers again; the main process over APEX ports blocks for ever
in a broadcast if the server of a domain has stopped; an ELI counter that wraps
from 65535 to 0 is misread; a lost UP datagram is not repeated, a platform that
restarts while the other has it UP gets no answer, and nobody ever sends DOWN.

*APR over APEX.* A wait whose timeout is too long to convert leaves a token that
ends a later wait, where the comment at `apr_thread_cond.c:98` says it is removed; a
`START` that fails leaves its process created; a thread that nobody joins keeps
its slot; a pre-cleanup registered, or a child made, by a cleanup that runs after
the others were collected is lost.

## 4. The proofs

The theorems hold for every value of the constants that satisfies the named
assumptions of the modules; those ask only that sizes are natural numbers, that
the null values are no elements, that threads and copies are finitely many, and
what keeps a regime apart (its name, the sizes of its instance). A theorem that
needs more says so: its hypothesis is the left side of an implication, and the
text below says why the code is used like that, or what goes wrong when it is not.

**The ring (`SharedDataProofs`), any size, elements and threads.**

- `FifoInvariant`: `FifoSpec => [](FifoTypeOK /\ RingAgrees)`. The conjunction is
  inductive. `RingAgrees` says that `head` is `current_size` slots after `tail`
  and that every slot between them holds a pushed element; without it nothing
  tells which slots a pop may read.
- `FifoImplementsDeque`: `FifoSpec => ImplementsDeque`. `Content` maps the ring to
  a sequence; one lemma for each way the cursors move (`StoreAppends`,
  `StoreInFrontPrepends`, `AdvanceTakesFirst`) shows what it does to the
  sequence, and `StepImplements` assembles them. This justifies the use of a
  sequence for the FIFO in `LdpFifoManager`.

**The list (`SharedDataProofs`), any size.** `ListIsABoundedList`:
`ListInit /\ [][ListNext]_listVars => ImplementsList`. `ListInv` says that there are two
strings of nodes, those of the list and the free ones, without a node in common: each
tail ends its string, every node links to the one before it, and in the list also to
the one after it. The forward links of the free nodes are not claimed, for
`ldp_remove_node` leaves the one before alone. One lemma says that `Chain` reads such
a string (`ChainOfStrung`), one what a removal at any place does to the two strings
(`RemovalHolds`), one the same of an addition (`AdditionHolds`); a cleaning is as many
removals (`RoundsEmpty`). The walk and the cleaning are recursive functions: that they
exist, and what they compute, is proved by counting up over sets of numbers
(`CountingUp`), since the library's induction theorems cannot be used.

**Versioned data (`SharedDataProofs`), any number of writers, readers and copies.**

- `VDInvariant`: `Spec => [](TypeOK /\ ReadersCounted /\ UsedIsHeld /\ OneWriter)`.
  None of the last three is inductive: whether a free copy is really nobody's
  depends on the reader count, which depends on the steps of all threads. The
  inductive `VDInv` adds where each thread's pointers lead at each step
  (`WriterPlaces`, `ReaderPlaces`, `PtrPlaces`), that no two threads fill one
  copy of the mirror, and `CopiesExact`: a copy being filled is neither published
  nor read, `to_be_release` marks exactly those replaced and still read, and
  `USED` is the union of the three uses. `OneReaderMore` and `OneReaderLess` do
  the counting; `MoveKeeps` and `ReleaseKeeps` are about
  `ldp_move_repository_ptr` and `ldp_release_written_VD_copy`; then there is one
  lemma per action.
- `VDImplementsRegister`: `Spec => ImplementsRegister`. On top of `VDInv`,
  `DataInv` says that published and written versions are versions and differ,
  and that a copy being read keeps the data its reader saw. The key is
  `SettledIsStable`: a published, read or written copy is not given to any
  writer, so its data stays. It is about the readers of the source; for the
  mirror the corresponding claim is false (`VDMirror.cfg`).

**A module's queue (`LdpFifoManagerProofs`), any number of producers, operations,
pools and elements, a FIFO of any size, counters of any width.**

- `QueueTyped`: `Spec => []TypeOK`, without any hypothesis. The others suppose `Calm`
  where they do not say so.
- `QueueIsSafe`: `Calm => (Spec => [](OneOwner /\ ActivatingCountExact /\
  NoLostWakeup))`. The three need each other: the counter is right only if no
  element is queued twice, and a sleeper is woken only if the counter is right.
  The inductive `QueueInv` says who owns an element at each step of each thread
  (`FifoOwns`, `ProducersOwn`, `ConsumerOwns`, `CleanOwns`), and what
  `activating_op_num` counts while a cleaning is halfway through the FIFO
  (`Counted`: a cleaning adds up what it pushed back, in the last part of the
  FIFO, and has not looked at the first).
- `PopFindsWork`: a module thread that is to run an operation finds one.
  `PoolsCounted`: each pool's counter is the number of its free elements.
  `CleaningKeepsAllowed`: a cleaning drops no operation that it must keep.
- `NoElementLeaks`: `Calm /\ RoomForAll => (Spec => []UsedIsHeld)`. Without room in
  the FIFO the element of a refused push stays used for ever.
- `RequestsAccounted`: `Calm => (Spec => []RequestsAccountedFor)`: a request of the
  table of received requests is being pushed, queued, run, or in the hands of a
  cleaning that will take it out of the table. That is as far as a fault: the
  cleaning of a SHUTDOWN or KILL is given no table, and when it meets a queued
  request (`null_request_table`) nothing is claimed of what follows. `RequestInv` adds to `QueueInv` why a cleaning drops no request that the
  table keeps: the queue of a module that is not running has no request before its
  START (`QueueWaitsForStart`).
- `SpuriousLosesNoWakeup`: `AlwaysActivating => (Spec => []NoLostWakeup)`, when
  waits may end for no reason. An operation may then be run twice and its element
  given back twice, so that `QueueInv` is false and the counter wraps below
  zero; what stays, modulo the width (`WrapCounted`), is that it is the length of
  the FIFO less the operations not counted yet, and that is enough.

`Calm` excludes spurious wakeups and asks for one of two uses. Either the queue is
never cleaned, and nothing is pushed first unless the FIFO has room for all
elements; or it is cleaned by a thread that every producer preempts, nothing is
pushed first, and the FIFO has at most one slot fewer than there are elements. The
thread that cleans holds two elements, the operation it runs and the one it
looks at, so there is room for what it pushes back; it ignores the result of that
push. A cleaning unlocks the FIFO between its elements; with a producer in
between, the counter it leaves is wrong, and only fixed priorities on one processor
exclude that (section 3). Sizes are those of the generated containers, which the
code does not check. `MCLdpFifoManagerProofs` puts the regimes
together: `OwnersOfElements`, `CounterOfActivating`, `NoWakeupLost` and
`RequestsOfTable` are the four invariants of the run `queue`.

**Request-response (`LdpRequestResponseProofs`), any number of requests, nodes and
elements.** Two uses of the code: every request is answered before its date
and no wait ends for no reason (`InTime`), or dates pass but the answering threads
preempt the client (`Urgent`).
Without either, a late answer signals the next call, which is what
`request_stale_signal` shows.

- `InTimeTyped`, `InTimeFreedOnce`, `InTimeAccounted`: `InTime => (Spec =>
  []TypeOK)`, `[]FreedOnce`, `[]EntriesAccountedFor`. The inductive `InTimeInv`
  has two parts. `TableInv`, whatever dates pass: entries differ, and a request is
  in one place at most of those between its creation and its answer. Then the
  entries: each thread that will free an entry holds one that is in use and that
  nobody else will free (`EntryOfClient`, `EntryOfAnswerer`), at most one
  synchronous request waits (`OneWait`), and each entry in use has somebody that
  ends it (`EntriesHeld`). The hard case is the router's thread, which signals the
  client before it frees the entry: the client may send its next request
  meanwhile, and the entry counts against the table all the same.
- `UrgentTyped`: `Urgent => (Spec => []TypeOK)`, whatever dates pass and whatever
  ends a wait (`StillInv`). Without spurious wakeups `UrgentInv` adds to it, as
  long as no assertion failed (`fault = "none"`), that an entry in use for a
  synchronous request is the client's current one, and that who is about to
  signal signals that request.
- `OkIsAnswered`: `(InTime \/ Urgent) /\ ~SpuriousWakeups /\ AnswerPool >= MaxID =>
  (Spec => OkMeansAnswered)`: a synchronous call that returns OK has been answered.
  `SignalsAnswers` says it of each signal on its way.

`InTime` asks for an entry for each asynchronous request the client may have, one
for a synchronous request and one for the last that the router has yet to free;
`ldp_init_request_response` gives every table two at least, which is enough for a
client that has synchronous requests only, and the other sizes come from the
generated containers. A smaller table can be found full, and `ldp_add_req_sent`
then fails, which the callers assert never to happen. `AnswerPool >= MaxID` is an element of
the client's FIFO for every answer: otherwise a push that fails is signalled all
the same. `ExchangeProofs` puts the two regimes together:
`EntriesOfTable` and `OkOfRegimes` are the safety properties of the run
`requests`.

**The dynamic trigger (`MCTriggersProofs`), any table, delays and number of
operations.** The two threads share the table without a lock; the inductive
`TriggerInv` says what each may rely on all the same.

- `NeverOversleeps`: `Spec => []NoOversleep`, which is inductive with the types.
  What a wait starts with is the earliest date (`EarliestIsFirst`, from
  `MinIsLeast`: TLAPS knows of `Min` only its definition by `CHOOSE`), and who
  sets an earlier one has still to signal.
- `NothingSentTwice`: `Spec => [](OneTriggerThread /\ AtMostOnce)`, resets and
  stops included. `Lives` says in which steps and states there may be a trigger
  thread. `Numbered` says that an event is in one slot at most, and
  `SentIsUnset` that the slot of an event that was sent has no date, or is about
  to lose it: so what the thread is about to send has not been sent, although
  the module thread may have given its slot to another event since it looked.
- `NeverSendsEarly`: `Spec => []NeverEarly`, as long as nobody resets or stops.
  `Undisturbed` gives every slot an owner: the module thread until it is set,
  the trigger thread until it is cleared.
- `SendsOnce`: `Prompt => (Spec => []SentOnce)`, with the handlers. `Handled`: a
  slot that is set has its handler, or a date that has not passed.

**The triggers together (`MCTriggersProofs`), any number of periods and operations.**
`StoppedFallsSilent`: `Prompt => (MCSpec => []TriggersSendOnce)`, which adds to
`SentOnce` that a period that was stopped has one turn more at most over Unix and
none over APEX, and that a trigger that was shut down has no thread, timer or
signal left for the next INITIALIZE. `PeriodicInv` says what there
is of each period (thread, timer, pending signal) at each step of the module
thread, before and after the turn of its loop. The one that matters is
`SignalsOf`: when a timer is disarmed, the signal it has sent before and that
nobody took is the only turn its thread has left. `ApexInv` is the same for the
loops that start and join the threads over APEX.

**TCP (`MCLinksProofs`), any writers, messages, buffer and cuts of sends and
reads.** `ConnectionIsChannel`: `OneWriter /\ ~CutsMessage => (Spec =>
ImplementsChannel)`, in the specification that composes all links. `StreamInv` says that the bytes left in
the reader's buffer followed by those in the connection (`Flow`) are, byte for
byte, the messages written and not delivered, less what a writer in the middle of
a message has still to send (`Balances`). So what the reader takes for a header
is one, and the size it reads there is that of the next message. A send that fails
before the first byte of a message drops it whole (`FailKeeps`).
Both hypotheses are needed (section 3). The code does not tell the end of the
stream, or the timeout of a client's socket, within a message from success, and
delivers a message that is not whole. And `ldp_IP_write` takes no mutex: where a
send may be partial, `StreamInv` asks that one writer at most is in the middle of a
message (`OneSends`), and a second one would write its bytes there. Where sends
are whole, any number of threads may write.

**The other links (`MCLinksProofs`), any processes, senders, messages, fragments,
buffers and channels.** In the same specification, whoever dies and whatever is
lost.

- `LinksKeepTheirForm`: `Spec => []LinksWellFormed`, without hypothesis. `LinkInv`:
  the list of interfaces to connect again holds those without a connection, once
  each, also while a turn of its loop removes some; `PortInv` says how far a server
  is in attaching its ports; `TornInv` is what stays true of a TCP reader when the
  peer may disappear within a message.
- `MessagesAreWhole`: `OneLost /\ CountersFit => (Spec => []MessagesWhole)`, and
  `MessagesDoArrive`: the same of `MessagesArrive`. For the packets between domains
  the hypotheses are not used. `UdpInv` follows a packet from its sender on: not yet
  sent, on its way (`NetworkOK`: in order), or gone, and a buffer counts packets of
  its message that are in it and gone. `ArriveInv`: a message that lost nothing is
  consumed, or all its packets gone are in a buffer; a new message finds one since
  a sender has one buffer at most (`RoomForOne`).
- ELI has counters instead of numbers. `NetInv` says where each fragment is, with
  the counter that each message started from (`start`: no variable keeps it, hence
  the quantifier), and that the one at the head of the network is the next one of its
  sender (`HeadNet`). `EndInv`: a channel in use holds the first fragments of one message,
  and what was sent after them was lost (`Stopped`). So a datagram whose counter
  follows (`FollowsIs`) is the next one of the same message, unless two were lost: the
  end of one message and the start of the next. That is what `OneLost` excludes where
  every message starts the same counter, as all callers do, and what
  `eli_lost_pair` shows. `CountersFit`: the counters of what a sender sends
  fit in 16 bits; one that wraps is misread (section 3).

**Conditions over APEX (`SharedDataProofs`), any number of threads and of waits
that time out.** `TokensExact`: `CondSpec => []CondTokens`, when no timeout is too
long to convert. The inductive `CondInv` adds `QueuedOnce`: the queue of the
semaphore holds exactly once each thread that is blocked, so that a signal wakes
as many threads as it takes from the queue. The two cases that matter are the
thread that was woken, which takes its own token with it, and the one that timed
out, which must take the token of a signal meant for it and no other
(`RelockStep`). It follows that the guard of `Stop` leaves nothing out: the
unsigned subtraction of a broadcast does not wrap.

**Pools and threads over APEX (`SharedDataProofs`), any number of pools, threads,
calls and blocks.** All of it in the specification that composes the three parts.

- `MemoryApart`: `AprSpec => []PoolMemory`. What a pool has given and not taken back
  lies in its blocks, and no two pieces overlap. `MemoryInv` partitions the blocks
  carved from the arena among the pools and the list of those to recycle, and says
  that what is given of a block lies below its `used`.
- `CleanupsRunOnce`: `AprSpec => []CleanupsOnce`. `CleanupInv` says where a
  registration is that neither ran nor was killed: in exactly one list of one
  pool, or about to be called by exactly one frame of one thread; and the entries
  taken from the table are as many as those. A callback may register, kill and
  destroy in its turn, so this must hold at each step of each frame.
- Both rest on `PoolShape`. The pools are a forest (`Tree`): an active pool is among
  the children of its parent, once, and has its parent's thread. That
  there is no cycle is said by ranks that grow from parent to child; a new pool may
  need a new rank, which is why the ranks are quantified. A frame of a thread's stack is about a pool of higher rank than
  the frames below it, and what it has done stays done while the frames above it
  run (`StackOK`): the pool that it took the children of has none, and so on.
  `EndingOK`: the thread that terminates the library is alone.
- `PartsWellFormed`: `AprSpec => []AprWellFormed`, which adds `CondTokens` (above)
  and the threads. `ThreadInv` says that a thread has one creator, and that the
  registry holds once each thread that somebody has. Of a behaviour with a timeout
  too long to convert only the types are claimed (`CondLoose`).

**Start-up (`LdpStartupProofs`), any number of domains, units, orders and restarts.**

- `LevelsAgree`: `Spec => []StatesAgree`, with crashes, orders and restarts: units,
  domains and main process agree on how far the platform is. That each level
  follows the one below (`Plain`) is inductive with which messages and operations may
  be queued before the first order. The count of the main process is not: `CountsOf` says of
  a domain that its announcement is on its way once at most, and `Counts` that
  `nb_ready_clients` and the announcements on their way are together the domains
  that are ready.
- `StartsWhenAllReady`: `~CrashesEarly => (Spec => StartWhenAllReady)`: when the main
  process broadcasts START_MOD the first time, every domain is READY. The
  hypothesis is that no domain at all is lost until the last has announced itself.
  It is needed: in `StartupLostEarly.cfg` a domain dies after its own announcement
  and before that of the others (section 3), comes back, and is counted twice.
  `FaultsLate` says what the hypothesis buys.

**DDS (`ExchangeProofs`), any domains, ports, routes and topics, and any sizes of the
batches and the histories.**

- `ConsumedInOrder`: `DdsSpec /\ []HistoriesHold => []DdsInOrder`. `HistoriesHold`
  says that no reader's history is full and that a writer's still has all it wrote
  on a topic; the code does not look to it, and an instance of the run with a
  `KeepLast` of 2 or 3 breaks `DdsInOrder` (with 9 or more, `HistoriesHold` is true
  of the instance of `dds`, which has 12). The inductive `DdsInv` follows the
  packets of one process to another on a topic: what the one consumed, what its
  last `dds_take` left to deliver and what its reader holds are, one after the
  other, all that the other wrote (`Flows`), unless the other had stopped when it
  joined; every packet is on a link of its writer, of its topic, and for a port
  that its taker reads (`InPlace`). A process that joins needs a lemma of its own
  (`JoinFlows`: the kept samples of the writers, in whatever order DDS visits
  them), and so does a visit of the loop (`VisitFlows`); every other action is a
  `Turn`, which may append to what its process wrote and consume the first packet
  taken. `TakesItsOwn` is about the tables: the route found again by the interface
  of a packet gives back the port it was written to, since an interface names one
  route (`RoutesNamed`, an assumption of `LdpDds` on the generated `route.h`).

TLC checked every inductive invariant of this section on the instance of its run,
`TriggerInv` with and without `Prompt`, before it was proved.

## 5. Only model-checked

Every safety property of the passing runs is stated by a theorem of section 4, under
the hypotheses given there. Beyond this prover: liveness under fairness (`QueuedServed`, `KillIsRun`,
`SyncReturns`, `EventsAreSent`, `PeriodicTriggersStop`, `EveryoneRuns`,
`KillEndsDomain`, `StreamDelivered`, `LinksReconnected`, `PortsServed`,
`StatusExchanged`, `CondServes`, `JoinReturns`, `DdsEveryoneRuns`,
`DdsKillStops`) and `ENABLED`.

## 6. Not modelled, and why

- Message and parameter contents, stamps, byte order, truncation: the properties
  do not tell them apart. The stamp of a versioned data is read after the mutex
  is released (`ldp_VD_reader_manager.c:106`) and the timeout trigger reads its
  entry after it has freed it (`ldp_dynamic_trigger.c:343`); parameters larger
  than an element are truncated and the error is overwritten
  (`ldp_fifo_manager.c:113`).
- Uncontrolled access to versioned data: one copy, without any protocol.
- Allocation and destruction of queues, tables and repositories: before the
  first and after the last thread that uses them.
- Faults of APR itself on Unix: locks, joins and creations succeed.
- Main process: the contents of fault messages; sockets used by a writer that the
  server is setting to NULL (`ldp_tcp.c:42`); a bad TCP header, which ends the
  process on an assertion.
- UDP: duplicated packets and senders that restart, against which the code does
  nothing.
- ELI: the handler of STATUS_REQUEST, which nobody in the repository sends; the
  channel is the one of the sender's `mod_id`.
- DDS: ELI over it, the copy of payloads, endpoint rotation. With the code's
  history of 32, a process that writes more than that while a server sleeps loses
  samples; the reference that `dds_publish_mcast_datagram` takes is never
  released; without a generated `route.h` DDS does not start.
- Pools: tags, sizes, ancestry, the cleanups of a child process, the abort
  function.
- Logging, properties, persistent information, serialisation: input, output and
  conversions without a protocol. Containers and routers are generated.

## 7. What could come next

1. `LdpVD`: stamps, and the order in which two writers update a mirror.
2. `LdpStartup` over `LdpTcpLink`: a domain whose connection closes while its
   process lives.
3. DDS: ELI over it, and histories too short for what a process writes.
