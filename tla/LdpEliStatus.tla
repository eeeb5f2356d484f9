---------------------------- MODULE LdpEliStatus ----------------------------
(***************************************************************************)
(* What two platforms tell each other (eli/ldp_ELI_msg_management.c): the  *)
(* main process of each announces itself when its domains are ready; who   *)
(* learns that the other is up answers and asks for its versioned data,    *)
(* which the domains of the other push.                                    *)
(***************************************************************************)
EXTENDS Naturals, Sequences, FiniteSets, SequencesExt

CONSTANTS
  Platform,     \* two platforms
  Repository,   \* the versioned data repositories of each with an external reader
  MaxStarts     \* starts of the platforms in a behaviour

ASSUME StatusAssumption == Cardinality(Platform) = 2 /\ MaxStarts \in Nat

VARIABLES
  starts,      \* platforms started so far
  missed,      \* whether something happened that the exchange does not repair: a
               \* datagram lost, or a platform stopped that the other had heard of
  running,     \* whether the main process of a platform has started the exchange
  reading,     \* whether its sockets are bound
  state,       \* what a platform knows of the other: "DOWN", "UP"
  mng,         \* platform messages on their way to a platform, in order
  pulled,      \* data that a platform was asked for and has not pushed
  pushes       \* by platform: data pushed to it since it started

statusVars == <<starts, missed, running, reading, state, mng, pulled, pushes>>

Other(p) == CHOOSE q \in Platform : q # p

StatusInit ==
  /\ starts = 0 /\ missed = FALSE /\ running = [p \in Platform |-> FALSE] /\ reading = [p \in Platform |-> FALSE]
  /\ state = [p \in Platform |-> "DOWN"] /\ mng = [p \in Platform |-> <<>>]
  /\ pulled = [p \in Platform |-> {}]
  /\ pushes = [p \in Platform |-> [r \in Repository |-> 0]]

\* ldp_mcast_send: a datagram to a platform that is not there is lost.
SentTo(q, msgs) == IF reading[q] THEN mng[q] \o msgs ELSE mng[q]

-----------------------------------------------------------------------------

\* ldp_start_father_server: the sockets are bound before the domains connect.
BindSockets(p) ==
  /\ ~reading[p] /\ starts < MaxStarts /\ starts' = starts + 1
  /\ reading' = [reading EXCEPT ![p] = TRUE]
  /\ UNCHANGED <<missed, running, state, mng, pulled, pushes>>

\* ldp_ELI_UDP_startup_sequence, when all the domains are ready.
StartupSequence(p) ==
  /\ reading[p] /\ ~running[p]
  /\ running' = [running EXCEPT ![p] = TRUE]
  /\ mng' = IF state[p] = "DOWN"
            THEN [mng EXCEPT ![Other(p)] = SentTo(Other(p), <<"UP">>)] ELSE mng
  /\ UNCHANGED <<starts, missed, reading, state, pulled, pushes>>

\* ldp_ELI_UDP_main_read_msg, PD_proc_ELI_management_msg: the next message.
Heard(p, m) == mng[p] # <<>> /\ Head(mng[p]) = m

Answer == <<"UP", "PULL">>

\* received_platform_status_msg, by the main process.
ReceiveStatus(p) ==
  /\ Heard(p, "UP")
  /\ \/ /\ state[p] = "DOWN"
        /\ state' = [state EXCEPT ![p] = "UP"]
        /\ mng' = [mng EXCEPT ![p] = Tail(@), ![Other(p)] = SentTo(Other(p), Answer)]
     \/ /\ state[p] = "UP"
        /\ mng' = [mng EXCEPT ![p] = Tail(@)]
        /\ UNCHANGED state
  /\ UNCHANGED <<starts, missed, running, reading, pulled, pushes>>

\* PD_proc_ELI_management_msg: the domains push all they have, and the main
\* process has nothing to do.
ReceivePull(p) ==
  /\ Heard(p, "PULL")
  /\ mng' = [mng EXCEPT ![p] = Tail(@)]
  /\ pulled' = [pulled EXCEPT ![p] = Repository]
  /\ UNCHANGED <<starts, missed, running, reading, state, pushes>>

Pushed(p, r) == IF reading[Other(p)] THEN [pushes EXCEPT ![Other(p)][r] = @ + 1] ELSE pushes

RemainingPulls_All(p, r) == {}
RemainingPulls(p, r) == pulled[p] \ {r}

\* ldp_push_VD_ELI, of one repository after the other.
PushVD(p) ==
  /\ \E r \in pulled[p] :
       /\ pulled' = [pulled EXCEPT ![p] = RemainingPulls(p, r)]
       /\ pushes' = Pushed(p, r)
  /\ UNCHANGED <<starts, missed, running, reading, state, mng>>

-----------------------------------------------------------------------------

PlatformStops(p) ==
  /\ reading[p] /\ starts < MaxStarts
  /\ missed' = (missed \/ state[Other(p)] = "UP" \/ mng[Other(p)] # <<>>)
  /\ running' = [running EXCEPT ![p] = FALSE] /\ reading' = [reading EXCEPT ![p] = FALSE]
  /\ state' = [state EXCEPT ![p] = "DOWN"] /\ mng' = [mng EXCEPT ![p] = <<>>]
  /\ pulled' = [pulled EXCEPT ![p] = {}]
  /\ pushes' = [pushes EXCEPT ![p] = [r \in Repository |-> 0]]
  /\ UNCHANGED starts

LoseStatus(p) ==
  /\ mng[p] # <<>>
  /\ mng' = [mng EXCEPT ![p] = Tail(@)] /\ missed' = TRUE
  /\ UNCHANGED <<starts, running, reading, state, pulled, pushes>>

Works(p) == BindSockets(p) \/ StartupSequence(p) \/ ReceiveStatus(p) \/ ReceivePull(p) \/ PushVD(p)
StatusNext == \E p \in Platform : Works(p) \/ PlatformStops(p) \/ LoseStatus(p)

StatusTypeOK ==
  /\ starts \in 0..MaxStarts /\ missed \in BOOLEAN
  /\ \A p \in Platform :
       /\ running[p] \in BOOLEAN /\ reading[p] \in BOOLEAN /\ state[p] \in {"DOWN", "UP"}
       /\ ToSet(mng[p]) \subseteq {"UP", "PULL"} /\ pulled[p] \subseteq Repository
       /\ pushes[p] \in [Repository -> Nat]

\* Two platforms that stay up know it of each other in the end, and each has got
\* all the versioned data of the other, unless a status was lost or a platform
\* restarted unnoticed (received_platform_status_msg).
Acquainted ==
  \A p \in Platform : state[p] = "UP" /\ \A r \in Repository : pushes[p][r] > 0
BothStay == \A p \in Platform : running[p]
StatusExchanged == <>[]BothStay => <>[](missed \/ Acquainted)
=============================================================================
