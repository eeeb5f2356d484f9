----------------------------- MODULE LdpStartup -----------------------------
(***************************************************************************)
(* The main process and its protection domains from the first connection   *)
(* to the last KILL: ldp_network.c, the loops of the TCP servers, the      *)
(* notification of ldp_mod_container_util.c and the launching thread.      *)
(*                                                                         *)
(* A connection keeps the order of its messages.  It is "pending" between  *)
(* the connect of the domain and the accept of the main process, which     *)
(* writes to accepted connections only.  A domain may crash and be started *)
(* again; what it had written is still read.                               *)
(***************************************************************************)
EXTENDS Naturals, Sequences, SequencesExt, FiniteSetsExt

CONSTANTS
  Domain,        \* the protection domains
  Unit,          \* their modules, triggers and dynamic triggers
  DomainOf,      \* the domain of a unit
  ComponentOf,   \* the component of a unit
  Descriptors,   \* the units, as the launching thread knows them
  Trigger,       \* the units that are triggers
  IdOf,          \* mod_id of a unit
  NbTry,         \* l_nb_try of comp_server_broadcast (5 in the code)
  Script,        \* the lines of launcher.txt: <<operation, whom>>
  Killer,        \* the modules that kill the platform
  Orders,        \* what a fault handler may order a domain, besides a KILL
  MaxFaults,     \* bound: crashes of domains and orders of a fault handler
  CrashesEarly   \* whether a domain may crash before the platform has started

Life == {"INITIALIZE", "START", "STOP", "SHUTDOWN", "KILL"}

ModuleId == 0..(256 * 256 - 1)  \* two bytes

ASSUME StartupAssumption ==
  /\ Domain # {} /\ IsFiniteSet(Domain) /\ IsFiniteSet(Unit)
  /\ DomainOf \in [Unit -> Domain]
  /\ DOMAIN ComponentOf = Unit
  /\ Descriptors \in Seq(Unit) /\ ToSet(Descriptors) = Unit
  /\ Trigger \subseteq Unit /\ Killer \subseteq Unit \ Trigger
  /\ IdOf \in [Unit -> ModuleId]
  /\ \A u, v \in Unit : IdOf[u] = IdOf[v] => u = v
  /\ NbTry \in Nat \ {0}
  /\ Script \in Seq(ToSet(Script))
  /\ \A i \in DOMAIN Script : Script[i][1] \in Life \ {"KILL"}
  /\ Orders \subseteq {"INIT_MOD", "START_MOD", "SHUTDOWN"}
  /\ MaxFaults \in Nat
  /\ CrashesEarly \in BOOLEAN

VARIABLES
  main,             \* "running" or "ended"
  launcher_file,    \* whether launcher.txt exists
  lpc,              \* next line of the launching thread; 0 before it is created
  sent,             \* orders of that line sent
  nb_init_clients,
  nb_ready_clients,
  link,             \* the socket of a domain at the main process
  to_main,          \* messages on their way, per domain
  to_domain,
  state,            \* state of a domain
  spc,              \* its server: "down", "poll", "starting", "stopped"
  nb_try,           \* l_nb_try while "starting"
  gave_up,          \* whether the domain has started without its modules
  queue,            \* life-cycle operations queued for a unit
  ustate,           \* state of a unit
  upc,              \* its thread: "off", "pop", "notify", "announce", "over"
  restarts, orders  \* crashes and orders so far

mainVars == <<main, launcher_file, lpc, sent, nb_init_clients, nb_ready_clients, link>>
domainVars == <<state, spc, nb_try, gave_up>>
unitVars == <<queue, ustate, upc>>
bounds == <<restarts, orders>>
vars == <<mainVars, to_main, to_domain, domainVars, unitVars, bounds>>

Units(d) == {u \in Unit : DomainOf[u] = d}
PDNumber == Cardinality(Domain)

Sync(n, o) == [id |-> "SYNC", dest |-> n, op |-> o]
Msg(i) == [id |-> i, dest |-> 0, op |-> "KILL"]
ToDomain ==
  [id : {"INIT_MOD", "START_MOD", "KILL", "SHUTDOWN", "SYNC"}, dest : ModuleId, op : Life]
ToMain == {"CLIENT_INIT", "CLIENT_READY", "KILL"}

Init ==
  /\ main = "running" /\ launcher_file \in BOOLEAN /\ lpc = 0 /\ sent = 0
  /\ nb_init_clients = 0 /\ nb_ready_clients = 0
  /\ link = [d \in Domain |-> "none"]
  /\ to_main = [d \in Domain |-> <<>>] /\ to_domain = [d \in Domain |-> <<>>]
  /\ state = [d \in Domain |-> "IDLE"] /\ spc = [d \in Domain |-> "down"]
  /\ nb_try = [d \in Domain |-> 0] /\ gave_up = [d \in Domain |-> FALSE]
  /\ queue = [u \in Unit |-> <<>>] /\ ustate = [u \in Unit |-> "IDLE"]
  /\ upc = [u \in Unit |-> "off"]
  /\ restarts = 0 /\ orders = 0

-----------------------------------------------------------------------------
(* The process of a domain.                                                *)

\* The process starts, its module threads wait, its server connects to the
\* main process and enters its loop.
Connect(d) ==
  /\ spc[d] = "down" /\ link[d] = "none" /\ main = "running"
  /\ link' = [link EXCEPT ![d] = "pending"]
  /\ to_domain' = [to_domain EXCEPT ![d] = <<>>]
  /\ state' = [state EXCEPT ![d] = "IDLE"] /\ spc' = [spc EXCEPT ![d] = "poll"]
  /\ gave_up' = [gave_up EXCEPT ![d] = FALSE]
  /\ upc' = [u \in Unit |-> IF DomainOf[u] = d THEN "pop" ELSE upc[u]]
  /\ UNCHANGED <<main, launcher_file, lpc, sent, nb_init_clients, nb_ready_clients, to_main,
                 nb_try, queue, ustate, bounds>>

\* All connections of the domain are made: CLIENT_INIT.
SendInit(d) ==
  /\ spc[d] = "poll" /\ state[d] = "IDLE"
  /\ to_main' = [to_main EXCEPT ![d] = Append(@, "CLIENT_INIT")]
  /\ state' = [state EXCEPT ![d] = "INIT"]
  /\ UNCHANGED <<mainVars, to_domain, spc, nb_try, gave_up, unitVars, bounds>>

Pushed(us, o) == [u \in Unit |-> IF u \in us THEN Append(queue[u], o) ELSE queue[u]]

\* The identifier as find_dest_mod_and_send gets it: one signed byte of the
\* two that the launching thread wrote, widened and cut to 16 bits.
ReadId(n) == LET b == n % 256 IN IF b < 128 THEN b ELSE b + 65280

\* domain_proc_consume_msg, and comp_server_broadcast up to its first wait.
DomainConsumes(d) ==
  /\ spc[d] = "poll" /\ to_domain[d] # <<>>
  /\ to_domain' = [to_domain EXCEPT ![d] = Tail(@)]
  /\ LET msg == Head(to_domain[d]) IN
       \/ /\ msg.id = "INIT_MOD"
          /\ queue' = IF state[d] = "INIT" THEN Pushed(Units(d), "INITIALIZE") ELSE queue
          /\ UNCHANGED domainVars
       \/ /\ msg.id = "START_MOD" /\ state[d] = "READY"
          /\ queue' = Pushed(Units(d) \cap Trigger, "START")
          /\ spc' = [spc EXCEPT ![d] = "starting"]
          /\ nb_try' = [nb_try EXCEPT ![d] = NbTry]
          /\ UNCHANGED <<state, gave_up>>
       \/ /\ msg.id = "START_MOD" /\ state[d] # "READY"
          /\ state' = [state EXCEPT ![d] = "RUNNING"]
          /\ UNCHANGED <<queue, spc, nb_try, gave_up>>
       \/ /\ msg.id = "KILL"
          /\ queue' = Pushed(Units(d), "KILL")
          /\ state' = [state EXCEPT ![d] = "IDLE"] /\ spc' = [spc EXCEPT ![d] = "stopped"]
          /\ UNCHANGED <<nb_try, gave_up>>
       \/ /\ msg.id = "SHUTDOWN"
          /\ queue' = Pushed(Units(d), "SHUTDOWN")
          /\ state' = [state EXCEPT ![d] = "INIT"]
          /\ UNCHANGED <<spc, nb_try, gave_up>>
       \/ /\ msg.id = "SYNC"
          /\ queue' = Pushed({u \in Units(d) : IdOf[u] = ReadId(msg.dest)}, msg.op)
          /\ UNCHANGED domainVars
  /\ UNCHANGED <<mainVars, to_main, ustate, upc, bounds>>

TriggersStarted(d) == \A u \in Units(d) \cap Trigger : ustate[u] = "RUNNING"

\* One try of the loop that waits for the triggers.
AwaitTriggers(d) ==
  /\ spc[d] = "starting"
  /\ \/ /\ TriggersStarted(d)
        /\ queue' = Pushed(Units(d) \ Trigger, "START")
        /\ state' = [state EXCEPT ![d] = "RUNNING"] /\ spc' = [spc EXCEPT ![d] = "poll"]
        /\ UNCHANGED <<nb_try, gave_up>>
     \/ /\ ~TriggersStarted(d) /\ nb_try[d] > 1
        /\ nb_try' = [nb_try EXCEPT ![d] = @ - 1]
        /\ UNCHANGED <<queue, state, spc, gave_up>>
     \/ /\ ~TriggersStarted(d) /\ nb_try[d] = 1
        /\ nb_try' = [nb_try EXCEPT ![d] = 0]
        /\ state' = [state EXCEPT ![d] = "RUNNING"] /\ spc' = [spc EXCEPT ![d] = "poll"]
        /\ gave_up' = [gave_up EXCEPT ![d] = TRUE]
        /\ UNCHANGED queue
  /\ UNCHANGED <<mainVars, to_main, to_domain, ustate, upc, bounds>>

KeptIdle_NoKill == {"INITIALIZE"}
KeptIdle == {"KILL", "INITIALIZE"}

\* The members of a sequence that are in S, in their order.
Filtered(q, S) ==
  LET at == {i \in DOMAIN q : q[i] \in S}
  IN [k \in 1..Cardinality(at) |->
        q[CHOOSE i \in at : Cardinality({j \in at : j <= i}) = k]]

\* ldp_fifo_manager_clean, on life-cycle operations: after a STOP what follows
\* a START is kept, too.
Cleaned(q, s) ==
  LET from == Min({i \in DOMAIN q : q[i] = "START"} \cup {Len(q) + 1})
  IN IF s = "IDLE" THEN Filtered(q, KeptIdle)
     ELSE Filtered(SubSeq(q, 1, from - 1), {"KILL", "SHUTDOWN"}) \o SubSeq(q, from, Len(q))

Becomes(u, s, rest) ==
  /\ ustate' = [ustate EXCEPT ![u] = s]
  /\ queue' = [queue EXCEPT ![u] = rest]

\* A unit takes its next operation; one that does not fit its state is ignored.
UnitPops(u) ==
  /\ upc[u] = "pop" /\ queue[u] # <<>>
  /\ LET o == Head(queue[u])
         q == Tail(queue[u])
     IN \/ /\ o = "INITIALIZE" /\ ustate[u] = "IDLE"
           /\ Becomes(u, "READY", q) /\ upc' = [upc EXCEPT ![u] = "notify"]
        \/ /\ o = "START" /\ ustate[u] = "READY"
           /\ Becomes(u, "RUNNING", q) /\ UNCHANGED upc
        \/ /\ o = "STOP" /\ ustate[u] = "RUNNING"
           /\ Becomes(u, "READY", Cleaned(q, "READY")) /\ UNCHANGED upc
        \/ /\ o = "SHUTDOWN" /\ ustate[u] # "IDLE"
           /\ Becomes(u, "IDLE", Cleaned(q, "IDLE")) /\ UNCHANGED upc
        \/ /\ o = "KILL"
           /\ Becomes(u, "IDLE", q) /\ upc' = [upc EXCEPT ![u] = "over"]
        \/ /\ \/ o = "INITIALIZE" /\ ustate[u] # "IDLE"
              \/ o = "START" /\ ustate[u] # "READY"
              \/ o = "STOP" /\ ustate[u] # "RUNNING"
              \/ o = "SHUTDOWN" /\ ustate[u] = "IDLE"
           /\ Becomes(u, ustate[u], q) /\ UNCHANGED upc
  /\ UNCHANGED <<mainVars, to_main, to_domain, domainVars, bounds>>

AllReady_Some(d) == state[d] = "INIT" /\ \E u \in Units(d) : ustate[u] = "READY"
AllReady_AnyState(d) == \A u \in Units(d) : ustate[u] = "READY"
AllReady(d) == state[d] = "INIT" /\ \A u \in Units(d) : ustate[u] = "READY"

\* ldp_mod_init_notify: the test under state_mutex ...
Notify(u) ==
  LET d == DomainOf[u] IN
  /\ upc[u] = "notify"
  /\ \A v \in Units(d) : upc[v] # "announce"
  /\ upc' = [upc EXCEPT ![u] = IF AllReady(d) THEN "announce" ELSE "pop"]
  /\ UNCHANGED <<mainVars, to_main, to_domain, domainVars, queue, ustate, bounds>>

\* ... and the announcement, which the server's assignments do not wait for; the
\* write fails once the main process has ended.
Announce(u) ==
  LET d == DomainOf[u] IN
  /\ upc[u] = "announce"
  /\ upc' = [upc EXCEPT ![u] = "pop"]
  /\ \/ /\ state' = [state EXCEPT ![d] = "READY"]
        /\ to_main' = [to_main EXCEPT ![d] = Append(@, "CLIENT_READY")]
     \/ /\ main = "ended"
        /\ state' = [state EXCEPT ![d] = "INIT"]
        /\ UNCHANGED to_main
  /\ UNCHANGED <<mainVars, to_domain, spc, nb_try, gave_up, queue, ustate, bounds>>

\* ldp_kill_platform, called by a running module.
KillPlatform(u) ==
  /\ upc[u] = "pop" /\ ustate[u] = "RUNNING" /\ u \in Killer
  /\ "KILL" \notin ToSet(to_main[DomainOf[u]])
  /\ to_main' = [to_main EXCEPT ![DomainOf[u]] = Append(@, "KILL")]
  /\ UNCHANGED <<mainVars, to_domain, domainVars, unitVars, bounds>>

\* The process of the domain dies.
Crash(d) ==
  /\ spc[d] \notin {"down", "stopped"} /\ restarts + orders < MaxFaults
  /\ CrashesEarly \/ (nb_ready_clients >= PDNumber /\ ~launcher_file)
  /\ restarts' = restarts + 1
  /\ spc' = [spc EXCEPT ![d] = "down"]
  /\ queue' = [u \in Unit |-> IF DomainOf[u] = d THEN <<>> ELSE queue[u]]
  /\ ustate' = [u \in Unit |-> IF DomainOf[u] = d THEN "IDLE" ELSE ustate[u]]
  /\ upc' = [u \in Unit |-> IF DomainOf[u] = d THEN "off" ELSE upc[u]]
  /\ UNCHANGED <<mainVars, to_main, to_domain, state, nb_try, gave_up, orders>>

-----------------------------------------------------------------------------
(* The main process.                                                       *)

Accept(d) ==
  /\ main = "running" /\ link[d] = "pending"
  /\ link' = [link EXCEPT ![d] = "open"]
  /\ UNCHANGED <<main, launcher_file, lpc, sent, nb_init_clients, nb_ready_clients, to_main,
                 to_domain, domainVars, unitVars, bounds>>

\* broadcast_to_client and write_msg: a client without a socket is skipped.
WrittenTo(ds, msg) ==
  [d \in Domain |-> IF d \in ds /\ link[d] = "open" THEN Append(to_domain[d], msg)
                                                    ELSE to_domain[d]]

Lost_Ignored(d, msg) == to_domain
Lost(d, msg) == WrittenTo({d}, msg)

EverybodyReady_First(n) == n = 1
EverybodyReady(n) == n = PDNumber

\* CLIENT_INIT: the last one makes the platform launch, later ones come from a
\* lost client.
ClientInit(d) ==
  /\ nb_init_clients' = nb_init_clients + 1
  /\ \/ /\ nb_init_clients' = PDNumber /\ launcher_file
        /\ lpc' = 1 /\ UNCHANGED to_domain
     \/ /\ nb_init_clients' = PDNumber /\ ~launcher_file
        /\ to_domain' = WrittenTo(Domain, Msg("INIT_MOD")) /\ UNCHANGED lpc
     \/ /\ nb_init_clients' > PDNumber
        /\ to_domain' = Lost(d, Msg("INIT_MOD")) /\ UNCHANGED lpc
     \/ /\ nb_init_clients' < PDNumber
        /\ UNCHANGED <<to_domain, lpc>>
  /\ UNCHANGED <<main, sent, nb_ready_clients>>

ClientReady(d) ==
  /\ nb_ready_clients' = nb_ready_clients + 1
  /\ \/ /\ EverybodyReady(nb_ready_clients') /\ ~launcher_file
        /\ to_domain' = WrittenTo(Domain, Msg("START_MOD"))
     \/ /\ nb_ready_clients' > PDNumber
        /\ to_domain' = Lost(d, Msg("START_MOD"))
     \/ /\ nb_ready_clients' <= PDNumber
        /\ ~EverybodyReady(nb_ready_clients') \/ launcher_file
        /\ UNCHANGED to_domain
  /\ UNCHANGED <<main, lpc, sent, nb_init_clients>>

\* main_proc_consume_control_msg; after a KILL the main process ends.
MainConsumes(d) ==
  /\ main = "running" /\ link[d] = "open" /\ to_main[d] # <<>>
  /\ to_main' = [to_main EXCEPT ![d] = Tail(@)]
  /\ \/ Head(to_main[d]) = "CLIENT_INIT" /\ ClientInit(d)
     \/ Head(to_main[d]) = "CLIENT_READY" /\ ClientReady(d)
     \/ /\ Head(to_main[d]) = "KILL"
        /\ to_domain' = WrittenTo(Domain, Msg("KILL"))
        /\ main' = "ended"
        /\ UNCHANGED <<lpc, sent, nb_init_clients, nb_ready_clients>>
  /\ UNCHANGED <<launcher_file, link, domainVars, unitVars, bounds>>

\* The end of the stream of a domain that is gone: the socket is closed and
\* the interface listens again.
MainReadsEof(d) ==
  /\ main = "running" /\ spc[d] \in {"down", "stopped"} /\ to_main[d] = <<>>
  /\ link[d] = "open"
  /\ link' = [link EXCEPT ![d] = "none"]
  /\ UNCHANGED <<main, launcher_file, lpc, sent, nb_init_clients, nb_ready_clients, to_main,
                 to_domain, domainVars, unitVars, bounds>>

\* Whom a line is for: everybody, a protection domain, a component or a module.
Matches(whom, u) == whom \in {"*", DomainOf[u], ComponentOf[u], u}
Targets ==
  [l \in DOMAIN Script |-> Filtered(Descriptors, {u \in Unit : Matches(Script[l][2], u)})]

\* The launching thread sends the order for a unit to every domain, for the one
\* that has it; the main process waits for the thread before it ends.
LauncherSends ==
  /\ lpc \in 1..Len(Script)
  /\ LET targets == Targets[lpc] IN
       \/ /\ sent < Len(targets)
          /\ sent' = sent + 1
          /\ to_domain' = WrittenTo(Domain, Sync(IdOf[targets[sent + 1]], Script[lpc][1]))
          /\ UNCHANGED lpc
       \/ /\ sent = Len(targets)
          /\ sent' = 0 /\ lpc' = lpc + 1
          /\ UNCHANGED to_domain
  /\ UNCHANGED <<main, launcher_file, nb_init_clients, nb_ready_clients, link, to_main,
                 domainVars, unitVars, bounds>>

\* External: the fault handler of the platform sends a domain an order by
\* write_msg.
FaultHandlerOrders(d) ==
  /\ main = "running" /\ nb_ready_clients >= PDNumber /\ ~launcher_file
  /\ restarts + orders < MaxFaults
  /\ orders' = orders + 1
  /\ \E o \in Orders : to_domain' = WrittenTo({d}, Msg(o))
  /\ UNCHANGED <<mainVars, to_main, domainVars, unitVars, restarts>>

-----------------------------------------------------------------------------

ServerNext(d) == SendInit(d) \/ DomainConsumes(d) \/ AwaitTriggers(d)
UnitNext(u) == UnitPops(u) \/ Notify(u) \/ Announce(u)
MainNext(d) == Accept(d) \/ MainConsumes(d) \/ MainReadsEof(d)

Next ==
  \/ \E d \in Domain : \/ Connect(d) \/ ServerNext(d) \/ MainNext(d)
                       \/ Crash(d) \/ FaultHandlerOrders(d)
  \/ \E u \in Unit : UnitNext(u) \/ KillPlatform(u)
  \/ LauncherSends

Spec == Init /\ [][Next]_vars

\* Every thread and process is scheduled; a lost domain is started again.
FairSpec ==
  /\ Spec
  /\ \A d \in Domain : WF_vars(ServerNext(d)) /\ WF_vars(MainNext(d)) /\ WF_vars(Connect(d))
  /\ \A u \in Unit : WF_vars(UnitNext(u))
  /\ WF_vars(LauncherSends)

-----------------------------------------------------------------------------
(* Properties.                                                             *)

\* What the variables of both sorts of processes hold.
TypeOK ==
  /\ main \in {"running", "ended"} /\ launcher_file \in BOOLEAN
  /\ lpc \in 0..(Len(Script) + 1) /\ sent \in 0..Len(Descriptors)
  /\ nb_init_clients \in Nat /\ nb_ready_clients \in Nat
  /\ link \in [Domain -> {"none", "pending", "open"}]
  /\ to_main \in [Domain -> Seq(ToMain)] /\ to_domain \in [Domain -> Seq(ToDomain)]
  /\ state \in [Domain -> {"IDLE", "INIT", "READY", "RUNNING"}]
  /\ spc \in [Domain -> {"down", "poll", "starting", "stopped"}]
  /\ nb_try \in [Domain -> 0..NbTry] /\ gave_up \in [Domain -> BOOLEAN]
  /\ queue \in [Unit -> Seq(Life)] /\ ustate \in [Unit -> {"IDLE", "READY", "RUNNING"}]
  /\ upc \in [Unit -> {"off", "pop", "notify", "announce", "over"}]
  /\ restarts \in Nat /\ orders \in Nat

\* "when all components are READY (only the first time)": when the main process
\* broadcasts START_MOD, every domain is ready (main_proc_consume_control_msg).
StartWhenAllReady ==
  [][(/\ nb_ready_clients' <= PDNumber /\ orders' = orders
      /\ \E d \in Domain : /\ Len(to_domain'[d]) > Len(to_domain[d])
                           /\ Last(to_domain'[d]) = Msg("START_MOD"))
       => \A d \in Domain : state[d] = "READY"]_vars

\* A domain that is READY and not being started has all its units READY: the
\* order to start finds them able to obey (ldp_mod_init_notify against
\* domain_proc_consume_msg).
ReadyMeansUnitsReady ==
  \A d \in Domain :
    (state[d] = "READY" /\ spc[d] = "poll" /\ ~launcher_file /\ orders = 0)
      => \A u \in Units(d) : ustate[u] = "READY"

\* No module runs before the triggers of its domain, which a module's events
\* may address (comp_server_broadcast).
TriggersFirst ==
  \A u \in Unit \ Trigger :
    (ustate[u] = "RUNNING" /\ ~launcher_file /\ main = "running" /\ orders = 0)
      => \A t \in Units(DomainOf[u]) \cap Trigger : ustate[t] = "RUNNING"

\* A domain announces itself once: as long as no domain is started again, the
\* READY clients counted and announced are those that are READY or RUNNING.
Announced(d) == {i \in DOMAIN to_main[d] : to_main[d][i] = "CLIENT_READY"}
ReadyCountExact ==
  (restarts + orders = 0 /\ main = "running") =>
    /\ \A d \in Domain : Cardinality(Announced(d)) <= 1
    /\ nb_ready_clients + Cardinality({d \in Domain : Announced(d) # {}})
         = Cardinality({d \in Domain : state[d] \in {"READY", "RUNNING"}})

\* The three levels agree on how far the platform is: the units are as the state
\* of their domain tells its server, and the main process counts the domains that
\* are as far as they announced.
StatesAgree == TypeOK /\ ReadyMeansUnitsReady /\ TriggersFirst /\ ReadyCountExact

\* In the end every unit runs, the platform is killed, or a domain lost the
\* patience with its triggers; a domain that was lost while running is
\* initialized and started again.
EveryoneRuns ==
  <>[]( \/ \A u \in Unit : ustate[u] = "RUNNING"
        \/ \E d \in Domain : gave_up[d]
        \/ main = "ended" \/ orders > 0)

\* A KILL that reaches a domain ends its server and all its threads, whatever
\* they were doing.
KillEndsDomain ==
  \A d \in Domain :
    (Msg("KILL") \in ToSet(to_domain[d]) /\ spc[d] # "down")
      ~> (spc[d] = "down" \/ (spc[d] = "stopped" /\ \A u \in Units(d) : upc[u] = "over"))
=============================================================================
