----------------------------- MODULE LdpTcpLink -----------------------------
(***************************************************************************)
(* The TCP connections of a protection domain, made and made again: the    *)
(* client end of each interface is connected or in the list of interfaces  *)
(* to connect; the server end listens, accepts one connection, and listens *)
(* again when it closes (ldp_tcp.c, ldp_tcp_comp_server.c, and the same    *)
(* server in ldp_tcp_main_server.c).                                       *)
(*                                                                         *)
(* A socket is "none", "open" or "eof" (the peer closed it).  A server     *)
(* handles the events of its pollset in the order in which its file        *)
(* descriptors became ready.                                               *)
(***************************************************************************)
EXTENDS Naturals, Sequences, SequencesExt

CONSTANTS
  Interface,  \* the interfaces of the client; each is served by a process
  MaxDeaths,  \* processes that die in a behaviour
  DiesAnytime \* whether the client may die before its connection is accepted

ASSUME LinkAssumption ==
  Interface # {} /\ IsFiniteSet(Interface) /\ MaxDeaths \in Nat /\ DiesAnytime \in BOOLEAN

VARIABLES
  deaths,
  up,        \* whether the server process of the interface runs
  listening, \* is_listening
  watched,   \* file descriptors in its pollset: "connection", "communication"
  ready,     \* those with an event, in the order of the events
  backlog,   \* connections not yet accepted
  comm,      \* communication_sock of the server
  mine,      \* communication_sock of the client
  to_recon,  \* the client's list of interfaces to connect
  tries      \* connections left to try in this turn of the client's loop

linkVars == <<deaths, up, listening, watched, ready, backlog, comm, mine, to_recon, tries>>

LinkInit ==
  /\ deaths = 0 /\ tries = 0
  /\ up = [i \in Interface |-> TRUE]
  /\ listening = [i \in Interface |-> TRUE]
  /\ watched = [i \in Interface |-> {"connection"}]
  /\ ready = [i \in Interface |-> <<>>] /\ backlog = [i \in Interface |-> <<>>]
  /\ comm = [i \in Interface |-> "none"] /\ mine = [i \in Interface |-> "none"]
  /\ to_recon = SetToSeq(Interface)

\* A file descriptor becomes ready, if the pollset watches it.
Notified(i, fd) ==
  IF fd \in watched[i] /\ ~Contains(ready[i], fd) THEN Append(ready[i], fd) ELSE ready[i]

-----------------------------------------------------------------------------
(* The client.                                                             *)

\* reconnect_all_interfaces, once the delay has passed: one try for each of
\* the interfaces listed.
StartTurn ==
  /\ tries = 0 /\ to_recon # <<>>
  /\ tries' = Len(to_recon)
  /\ UNCHANGED <<deaths, up, listening, watched, ready, backlog, comm, mine, to_recon>>

AddLast_Twice(list, i) == list \o <<i, i>>
AddLast(list, i) == Append(list, i)

\* ldp_do_connect: a socket is made, and the server's kernel accepts it.
Connects(i) == up[i]

\* One interface of the list: ldp_connect_server, or back to the list.
TryConnect ==
  /\ tries > 0
  /\ tries' = tries - 1
  /\ LET i == Head(to_recon) IN
       \/ /\ Connects(i)
          /\ mine' = [mine EXCEPT ![i] = "open"]
          /\ backlog' = [backlog EXCEPT ![i] = Append(@, "open")]
          /\ ready' = [ready EXCEPT ![i] = Notified(i, "connection")]
          /\ to_recon' = Tail(to_recon)
       \/ /\ ~Connects(i)
          /\ to_recon' = AddLast(Tail(to_recon), i)
          /\ UNCHANGED <<mine, backlog, ready>>
  /\ UNCHANGED <<deaths, up, listening, watched, comm>>

\* The end of a connection read by the client: enable_reconnection.
ClientReadsEnd ==
  /\ tries = 0
  /\ \E i \in Interface :
       /\ mine[i] = "eof"
       /\ mine' = [mine EXCEPT ![i] = "none"]
       /\ to_recon' = AddLast(to_recon, i)
  /\ UNCHANGED <<deaths, up, listening, watched, ready, backlog, comm, tries>>

-----------------------------------------------------------------------------
(* The server of an interface handles the first event.                     *)

Event(i) == up[i] /\ ready[i] # <<>>
Fd(i) == Head(ready[i])

\* The events that remain; a level-triggered descriptor comes back while it has
\* something to give.
Later(i, again) ==
  IF again /\ Fd(i) \in watched'[i] THEN Append(Tail(ready[i]), Fd(i)) ELSE Tail(ready[i])

\* ldp_accept_connection; one that finds no connection ends the process (assert).
Accept(i) ==
  /\ Event(i) /\ listening[i] /\ backlog[i] # <<>>
  /\ comm' = [comm EXCEPT ![i] = Head(backlog[i])]
  /\ backlog' = [backlog EXCEPT ![i] = Tail(@)]
  /\ watched' = [watched EXCEPT ![i] = @ \cup {"communication"}]
  /\ listening' = [listening EXCEPT ![i] = FALSE]
  /\ LET rest == Later(i, Fd(i) = "connection" /\ Len(backlog[i]) > 1) IN
       ready' = [ready EXCEPT ![i] =
                   IF Head(backlog[i]) = "eof" THEN Append(rest, "communication") ELSE rest]
  /\ UNCHANGED <<deaths, up, mine, to_recon, tries>>

Forgotten_Connection(i) == "connection"
Forgotten(i) == Fd(i)

\* A read that meets the end of the connection, whatever the descriptor whose
\* event led to it: that one leaves the pollset (enable_reconnection).
ServerReadsEnd(i) ==
  /\ Event(i) /\ ~listening[i] /\ comm[i] = "eof"
  /\ watched' = [watched EXCEPT ![i] = @ \ {Forgotten(i)}]
  /\ comm' = [comm EXCEPT ![i] = "none"]
  /\ listening' = [listening EXCEPT ![i] = TRUE]
  /\ ready' = [ready EXCEPT ![i] = Later(i, FALSE)]
  /\ UNCHANGED <<deaths, up, backlog, mine, to_recon, tries>>

-----------------------------------------------------------------------------
(* Processes die and are started again.                                    *)

\* The server's ends of the client's connections.
Ended(s) == IF s = "open" THEN "eof" ELSE s

ClientDies ==
  /\ deaths < MaxDeaths /\ deaths' = deaths + 1
  /\ DiesAnytime \/ \A i \in Interface : backlog[i] = <<>>
  /\ comm' = [i \in Interface |-> Ended(comm[i])]
  /\ backlog' = [i \in Interface |-> [k \in DOMAIN backlog[i] |-> "eof"]]
  /\ ready' = [i \in Interface |->
                 IF comm[i] = "open" THEN Notified(i, "communication") ELSE ready[i]]
  /\ mine' = [i \in Interface |-> "none"]
  /\ to_recon' = SetToSeq(Interface) /\ tries' = 0
  /\ UNCHANGED <<up, listening, watched>>

ServerDies(i) ==
  /\ up[i] /\ deaths < MaxDeaths /\ deaths' = deaths + 1
  /\ up' = [up EXCEPT ![i] = FALSE]
  /\ mine' = [mine EXCEPT ![i] = Ended(@)]
  /\ comm' = [comm EXCEPT ![i] = "none"]
  /\ backlog' = [backlog EXCEPT ![i] = <<>>] /\ ready' = [ready EXCEPT ![i] = <<>>]
  /\ listening' = [listening EXCEPT ![i] = TRUE]
  /\ watched' = [watched EXCEPT ![i] = {"connection"}]
  /\ UNCHANGED <<to_recon, tries>>

ServerStarts(i) ==
  /\ ~up[i] /\ up' = [up EXCEPT ![i] = TRUE]
  /\ UNCHANGED <<deaths, listening, watched, ready, backlog, comm, mine, to_recon, tries>>

-----------------------------------------------------------------------------

Client == StartTurn \/ TryConnect \/ ClientReadsEnd
Server(i) == Accept(i) \/ ServerReadsEnd(i) \/ ServerStarts(i)

LinkNext == Client \/ ClientDies \/ \E i \in Interface : Server(i) \/ ServerDies(i)

Socket == {"none", "open", "eof"}
LinkTypeOK ==
  /\ deaths \in 0..MaxDeaths
  /\ \A i \in Interface :
       /\ up[i] \in BOOLEAN /\ listening[i] \in BOOLEAN
       /\ watched[i] \subseteq {"connection", "communication"}
       /\ comm[i] \in Socket /\ mine[i] \in Socket
  /\ ToSet(to_recon) \subseteq Interface /\ tries \in Nat

\* An interface is connected or in the list of those to connect, never both and
\* never twice: two entries would give it two sockets, none would leave it
\* unconnected for ever (reconnect_all_interfaces, enable_reconnection).
ListedOrConnected ==
  \A i \in Interface :
    Cardinality({k \in DOMAIN to_recon : to_recon[k] = i}) = IF mine[i] = "none" THEN 1 ELSE 0

\* Whatever processes die, every interface is connected again, and its server
\* has accepted the connection (enable_reconnection at both ends).
Reconnected == <>[](\A i \in Interface : mine[i] = "open" /\ comm[i] = "open")
=============================================================================
