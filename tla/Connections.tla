----------------------------- MODULE Connections -----------------------------
(***************************************************************************)
(* Acceptor.cc, Connector.cc, Channel.h and the registrations of           *)
(* EPoller.cc: how sockets get from the kernel to the user, on the thread  *)
(* of one event loop.                                                      *)
(*                                                                         *)
(* A channel stands for its owner, which has one: the acceptor or a        *)
(* connector.  The kernel and the user, who is not in the repository, are  *)
(* external.                                                               *)
(***************************************************************************)
EXTENDS Naturals, Sequences, SequencesExt

CONSTANTS
    Connectors,
    Acceptor,
    Peers,            \* who connects to the acceptor, once each
    Invalid           \* the descriptor -1

ASSUME ConnectionsAssumption == Acceptor \notin Connectors /\ Invalid \notin Peers

Channels == Connectors \cup {Acceptor}

VARIABLES
    events,           \* Channel::events_
    polling,          \* Channel::polling
    epoll,            \* whose channel the kernel has for a socket: the owner's, the user's
    active,           \* the channels of activeChannels_ not handled yet
    started,          \* Connector::started_
    connected,        \* Connector::connected_
    alive,            \* the connectors that are not destroyed
    sock,             \* the sockets of connectors in the kernel
    reports,          \* how often a connector has called back
    backlog,          \* the peers that wait in the listening socket
    handed,           \* the descriptors the acceptor has handed over
    aborted           \* an assertion has failed, or FATAL was called
channelVars == <<events, polling, epoll>>
connectorVars == <<started, connected, alive, sock, reports>>
acceptorVars == <<backlog, handed>>
vars == <<channelVars, connectorVars, acceptorVars, active, aborted>>

\* A connect() that failed at once leaves "failed", one that failed later "refused".
Sockets == {"fresh", "connecting", "established", "refused", "failed"}

TypeOK ==
    /\ events \in [Channels -> {{}, {"read"}, {"write"}}]
    /\ polling \in [Channels -> BOOLEAN]
    /\ epoll \in [Channels -> {"none", "owner", "user"}]
    /\ active \subseteq Channels
    /\ started \in [Connectors -> BOOLEAN]
    /\ connected \in [Connectors -> BOOLEAN]
    /\ alive \in [Connectors -> BOOLEAN]
    /\ sock \in [Connectors -> Sockets]
    /\ reports \in [Connectors -> Nat]
    /\ backlog \in Seq(Peers)
    /\ handed \subseteq Peers \cup {Invalid}
    /\ aborted \in BOOLEAN

Init ==
    /\ events = [ch \in Channels |-> {}]
    /\ polling = [ch \in Channels |-> FALSE]
    /\ epoll = [ch \in Channels |-> "none"]
    /\ active = {}
    /\ started = [c \in Connectors |-> FALSE]
    /\ connected = [c \in Connectors |-> FALSE]
    /\ alive = [c \in Connectors |-> TRUE]
    /\ sock = [c \in Connectors |-> "fresh"]
    /\ reports = [c \in Connectors |-> 0]
    /\ backlog = <<>> /\ handed = {}
    /\ aborted = FALSE

-----------------------------------------------------------------------------
\* Channels and epoll

\* epoll_ctl: ADD fails for a socket the kernel has, MOD and DEL for one it has not.
EpollCtl(ch, ev) ==
    epoll' = [epoll EXCEPT ![ch] =
        CASE ev = {} -> IF @ = "owner" THEN "none" ELSE @
          [] OTHER   -> IF @ = "none" /\ ~polling[ch] THEN "owner" ELSE @]

\* Slip: a build without assertions.
UpdateUnasserted(ch, ev) ==
    /\ events' = [events EXCEPT ![ch] = ev]
    /\ polling' = [polling EXCEPT ![ch] = ~@ \/ ev # {}]
    /\ epoll' = [epoll EXCEPT ![ch] = IF polling[ch] /\ ev = {} THEN "none" ELSE "owner"]
    /\ UNCHANGED aborted

\* A channel that changes its events: it is added, modified or deleted.
updateChannel(ch, ev) ==
    /\ events' = [events EXCEPT ![ch] = ev]
    /\ IF ~polling[ch] /\ ev = {}
       THEN aborted' = TRUE /\ UNCHANGED <<polling, epoll>>
       ELSE /\ polling' = [polling EXCEPT ![ch] = ev # {}]
            /\ EpollCtl(ch, ev)
            /\ UNCHANGED aborted

\* epoll_wait reports a listening socket while peers wait, and one that was
\* connecting when the outcome is there, as long as they are registered.
Ready ==
    {ch \in Channels : epoll[ch] = "owner" /\
        \/ ch = Acceptor /\ "read" \in events[ch] /\ backlog # <<>>
        \/ ch \in Connectors /\ "write" \in events[ch]
           /\ sock[ch] \in {"established", "refused"}}

Poll ==
    /\ ~aborted /\ active = {} /\ Ready # {}
    /\ active' = Ready
    /\ UNCHANGED <<channelVars, connectorVars, acceptorVars, aborted>>

-----------------------------------------------------------------------------
\* Connector

\* The channel is removed before the socket, whose state is s, is handed over.  SO_ERROR has the
\* error of a connect() that failed after it had returned.
handleWrite(c, s) ==
    /\ updateChannel(c, {})
    /\ IF aborted' THEN UNCHANGED <<connected, reports>>
       ELSE /\ reports' = [reports EXCEPT ![c] = @ + 1]
            /\ connected' = [connected EXCEPT ![c] = s # "refused"]

\* connect() does not return -1 with EINPROGRESS only: it may be over at once.
StartAtOnce(c) ==
    /\ ~aborted /\ alive[c] /\ ~started[c]
    /\ started' = [started EXCEPT ![c] = TRUE]
    /\ \E s \in {"established", "failed"} :
        sock' = [sock EXCEPT ![c] = s] /\ handleWrite(c, s)
    /\ UNCHANGED <<alive, acceptorVars, active>>

Start(c) ==
    /\ ~aborted /\ alive[c] /\ ~started[c]
    /\ started' = [started EXCEPT ![c] = TRUE]
    /\ sock' = [sock EXCEPT ![c] = "connecting"]
    /\ updateChannel(c, {"write"})
    /\ UNCHANGED <<connected, alive, reports, acceptorVars, active>>

HandleConnector(c) ==
    /\ ~aborted /\ c \in active
    /\ active' = active \ {c}
    /\ handleWrite(c, sock[c])
    /\ UNCHANGED <<started, alive, sock, acceptorVars>>

\* Slip: the socket is left open.
DestroyLeavesOpen(c) ==
    /\ ~aborted /\ alive[c] /\ c \notin active
    /\ alive' = [alive EXCEPT ![c] = FALSE]
    /\ UNCHANGED <<channelVars, started, connected, sock, reports, acceptorVars, active, aborted>>

\* A socket that was not handed over is closed, which is what ends its registration.
\* No handler may destroy a connector that is still to be handled in its round.
Destroy(c) ==
    /\ ~aborted /\ alive[c] /\ c \notin active
    /\ alive' = [alive EXCEPT ![c] = FALSE]
    /\ epoll' = IF connected[c] THEN epoll ELSE [epoll EXCEPT ![c] = "none"]
    /\ UNCHANGED <<events, polling, started, connected, sock, reports, acceptorVars, active, aborted>>

-----------------------------------------------------------------------------
\* Acceptor

Listen ==
    /\ ~aborted /\ events[Acceptor] = {}
    /\ updateChannel(Acceptor, {"read"})
    /\ UNCHANGED <<connectorVars, acceptorVars, active>>

\* accept4() returns the peer that waits longest.
Accept ==
    /\ ~aborted /\ Acceptor \in active
    /\ active' = active \ {Acceptor}
    /\ backlog' = Tail(backlog) /\ handed' = handed \cup {Head(backlog)}
    /\ UNCHANGED <<channelVars, connectorVars, aborted>>

\* Slip: the channel is disabled when descriptors have run out.
AcceptFailsForGood ==
    /\ ~aborted /\ Acceptor \in active
    /\ active' = active \ {Acceptor}
    /\ updateChannel(Acceptor, {})
    /\ UNCHANGED <<connectorVars, acceptorVars>>

\* ECONNABORTED takes the peer away, EMFILE does not; both are logged, and -1 is
\* handed over.
AcceptFails ==
    /\ ~aborted /\ Acceptor \in active
    /\ active' = active \ {Acceptor}
    /\ backlog' \in {Tail(backlog), backlog}
    /\ handed' = handed \cup {Invalid}
    /\ UNCHANGED <<channelVars, connectorVars, aborted>>

\* Any other error is fatal.
AcceptIsFatal ==
    /\ ~aborted /\ Acceptor \in active
    /\ aborted' = TRUE
    /\ UNCHANGED <<channelVars, connectorVars, acceptorVars, active>>

-----------------------------------------------------------------------------
\* The kernel and the user

PeerArrives(p) ==
    /\ ~aborted /\ events[Acceptor] # {}
    /\ p \notin Range(backlog) \cup handed
    /\ backlog' = Append(backlog, p)
    /\ UNCHANGED <<channelVars, connectorVars, handed, active, aborted>>

ConnectEnds(c) ==
    /\ ~aborted /\ sock[c] = "connecting"
    /\ \E s \in {"established", "refused"} : sock' = [sock EXCEPT ![c] = s]
    /\ UNCHANGED <<channelVars, started, connected, alive, reports, acceptorVars, active, aborted>>

\* A connection made from the socket has a channel of its own.
UserRegisters(c) ==
    /\ ~aborted /\ connected[c] /\ epoll[c] = "none"
    /\ epoll' = [epoll EXCEPT ![c] = "user"]
    /\ UNCHANGED <<events, polling, connectorVars, acceptorVars, active, aborted>>

Next ==
    \/ Poll \/ Listen \/ Accept \/ AcceptFails \/ AcceptIsFatal
    \/ \E p \in Peers : PeerArrives(p)
    \/ \E c \in Connectors :
        \/ Start(c) \/ StartAtOnce(c) \/ HandleConnector(c) \/ Destroy(c)
        \/ ConnectEnds(c) \/ UserRegisters(c)

Spec == Init /\ [][Next]_vars

\* The loop goes on, a connect() ends, and accept4() does not fail for ever.
Fairness ==
    /\ WF_vars(Poll) /\ WF_vars(Accept \/ AcceptFails) /\ SF_vars(Accept)
    /\ \A c \in Connectors : WF_vars(HandleConnector(c)) /\ WF_vars(ConnectEnds(c))

FairSpec == Spec /\ Fairness

-----------------------------------------------------------------------------
\* Properties

\* What a channel believes of its registration is what the kernel has: no
\* epoll_ctl() fails.  The kernel and the list of active channels hold no pointer
\* to the channel of a connector that is gone, though its destructor does not remove it.
PollingAgrees ==
    /\ polling[Acceptor] <=> epoll[Acceptor] = "owner"
    /\ \A c \in Connectors :
        IF alive[c] THEN polling[c] <=> epoll[c] = "owner"
        ELSE epoll[c] # "owner" /\ c \notin active

\* A connector calls back at most once, and a socket it has handed over is connected
\* and free to be registered by the user.
HandedOverOnce ==
    \A c \in Connectors :
        /\ reports[c] <= 1
        /\ connected[c] => sock[c] = "established" /\ epoll[c] # "owner"

\* A peer that waits is accepted or goes away, though accept4() may fail meanwhile.
PeersAccepted ==
    \A p \in Peers : p \in Range(backlog) ~> (p \notin Range(backlog) \/ aborted)
=============================================================================
