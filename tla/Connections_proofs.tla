-------------------------- MODULE Connections_proofs --------------------------
(***************************************************************************)
(* Theorems about Connections, for any number of connectors and peers.     *)
(***************************************************************************)
EXTENDS Connections, SequenceTheorems, TLAPS

\* A connector that was not started is unknown to the kernel.
Unstarted(c) ==
    ~started[c] => ~polling[c] /\ epoll[c] = "none" /\ sock[c] = "fresh" /\ reports[c] = 0

\* One that is registered has a socket that connects, and has not called back.
Waiting(c) ==
    polling[c] => /\ sock[c] \in {"connecting", "established", "refused"}
                  /\ reports[c] = 0 /\ ~connected[c]

\* One that is to be handled is registered, and its outcome is there.
Active(c) ==
    c \in active => alive[c] /\ polling[c] /\ sock[c] \in {"established", "refused"}

\* What the properties say of one connector.
Agrees(c) == alive[c] => (polling[c] <=> epoll[c] = "owner")
Gone(c) == ~alive[c] => epoll[c] # "owner" /\ c \notin active
HandedOver(c) == connected[c] => sock[c] = "established" /\ epoll[c] # "owner"

Sound(c) ==
    /\ Unstarted(c) /\ Waiting(c) /\ Active(c) /\ Agrees(c) /\ Gone(c) /\ HandedOver(c)
    /\ reports[c] <= 1

AcceptorSound ==
    /\ polling[Acceptor] <=> epoll[Acceptor] = "owner"
    /\ polling[Acceptor] <=> events[Acceptor] # {}
    /\ epoll[Acceptor] # "user"
    /\ Acceptor \in active => backlog # <<>>

Inv == TypeOK /\ AcceptorSound /\ \A c \in Connectors : Sound(c)

LEMMA InvInit == Init => Inv
<1> SUFFICES ASSUME Init PROVE Inv
  OBVIOUS
<1>1. backlog \in Seq(Peers)
  BY EmptySeq DEF Init
<1>2. TypeOK
  <2>1. polling \in [Channels -> BOOLEAN] /\ epoll \in [Channels -> {"none", "owner", "user"}]
    BY DEF Init
  <2>2. events \in [Channels -> {{}, {"read"}, {"write"}}]
    BY DEF Init
  <2>3. /\ started \in [Connectors -> BOOLEAN] /\ connected \in [Connectors -> BOOLEAN]
        /\ alive \in [Connectors -> BOOLEAN]
    BY DEF Init
  <2>4. sock \in [Connectors -> Sockets] /\ reports \in [Connectors -> Nat]
    BY DEF Init, Sockets
  <2> QED
    BY <1>1, <2>1, <2>2, <2>3, <2>4 DEF Init, TypeOK
<1>3. \A c \in Connectors : Sound(c)
  BY DEF Init, Sound, Unstarted, Waiting, Active, Agrees, Gone, HandedOver, Channels
<1>4. AcceptorSound
  BY DEF Init, AcceptorSound, Channels
<1> QED
  BY <1>2, <1>3, <1>4 DEF Inv

\* Adding a channel and deleting it.
LEMMA Added ==
  ASSUME TypeOK, NEW ch \in Channels, NEW ev \in {{"read"}, {"write"}},
         ~polling[ch], epoll[ch] = "none", updateChannel(ch, ev)
  PROVE  /\ events' = [events EXCEPT ![ch] = ev]
         /\ events' \in [Channels -> {{}, {"read"}, {"write"}}]
         /\ polling' = [polling EXCEPT ![ch] = TRUE] /\ polling' \in [Channels -> BOOLEAN]
         /\ epoll' = [epoll EXCEPT ![ch] = "owner"]
         /\ epoll' \in [Channels -> {"none", "owner", "user"}]
         /\ aborted' = aborted
<1>1. ev # {} /\ (ev # {}) = TRUE
  OBVIOUS
<1>2. polling' = [polling EXCEPT ![ch] = TRUE] /\ EpollCtl(ch, ev) /\ aborted' = aborted
  BY <1>1 DEF updateChannel
<1>3. epoll' = [epoll EXCEPT ![ch] = "owner"]
  BY <1>1, <1>2 DEF EpollCtl, TypeOK
<1>4. events' = [events EXCEPT ![ch] = ev]
  BY DEF updateChannel
<1> QED
  BY <1>2, <1>3, <1>4 DEF TypeOK

LEMMA Deleted ==
  ASSUME TypeOK, NEW ch \in Channels, polling[ch], epoll[ch] = "owner", updateChannel(ch, {})
  PROVE  /\ events' = [events EXCEPT ![ch] = {}]
         /\ events' \in [Channels -> {{}, {"read"}, {"write"}}]
         /\ polling' = [polling EXCEPT ![ch] = FALSE] /\ polling' \in [Channels -> BOOLEAN]
         /\ epoll' = [epoll EXCEPT ![ch] = "none"]
         /\ epoll' \in [Channels -> {"none", "owner", "user"}]
         /\ aborted' = aborted
<1>1. ({} # {}) = FALSE
  OBVIOUS
<1>2. polling' = [polling EXCEPT ![ch] = FALSE] /\ EpollCtl(ch, {}) /\ aborted' = aborted
  BY <1>1 DEF updateChannel
<1>3. epoll' = [epoll EXCEPT ![ch] = "none"]
  BY <1>2 DEF EpollCtl, TypeOK
<1>4. events' = [events EXCEPT ![ch] = {}]
  BY DEF updateChannel
<1> QED
  BY <1>2, <1>3, <1>4 DEF TypeOK

LEMMA Refused ==
  ASSUME TypeOK, NEW ch \in Channels, ~polling[ch], updateChannel(ch, {})
  PROVE  /\ events' = [events EXCEPT ![ch] = {}]
         /\ events' \in [Channels -> {{}, {"read"}, {"write"}}]
         /\ polling' = polling /\ epoll' = epoll /\ aborted' = TRUE
BY DEF updateChannel, TypeOK

\* A connector no variable of which changes stays sound.
LEMMA Untouched ==
  ASSUME NEW c \in Connectors, Sound(c),
         polling'[c] = polling[c], epoll'[c] = epoll[c], started'[c] = started[c],
         connected'[c] = connected[c], alive'[c] = alive[c], sock'[c] = sock[c],
         reports'[c] = reports[c], c \in active' => c \in active
  PROVE  Sound(c)'
BY DEF Sound, Unstarted, Waiting, Active, Agrees, Gone, HandedOver

LEMMA StartSound ==
  ASSUME Inv, NEW c \in Connectors, Start(c)
  PROVE  Inv'
<1>1. TypeOK /\ AcceptorSound /\ \A d \in Connectors : Sound(d)
  BY DEF Inv
<1>2. ~polling[c] /\ epoll[c] = "none" /\ alive[c] /\ reports[c] = 0 /\ ~connected[c] /\ c \notin active
  BY <1>1 DEF Start, Sound, Unstarted, HandedOver, Active
<1>3. c \in Channels /\ c # Acceptor /\ Acceptor \in Channels /\ Connectors \subseteq Channels
  BY ConnectionsAssumption DEF Channels
<1>4. updateChannel(c, {"write"})
  BY DEF Start
<1>5. /\ events' = [events EXCEPT ![c] = {"write"}]
      /\ events' \in [Channels -> {{}, {"read"}, {"write"}}]
      /\ polling' = [polling EXCEPT ![c] = TRUE] /\ polling' \in [Channels -> BOOLEAN]
      /\ epoll' = [epoll EXCEPT ![c] = "owner"]
      /\ epoll' \in [Channels -> {"none", "owner", "user"}]
      /\ aborted' = aborted
  BY <1>1, <1>2, <1>3, <1>4, Added
<1>6. TypeOK'
  BY <1>1, <1>5 DEF TypeOK, Start, acceptorVars, Sockets
<1>7. AcceptorSound'
  BY <1>1, <1>3, <1>5 DEF AcceptorSound, TypeOK, Start, acceptorVars
<1>8. Sound(c)'
  BY <1>1, <1>2, <1>3, <1>5 DEF Start, TypeOK, Sound, Unstarted, Waiting, Active, Agrees, Gone,
     HandedOver
<1>9. ASSUME NEW d \in Connectors, d # c PROVE Sound(d)'
  BY <1>1, <1>3, <1>5, <1>9, Untouched DEF Start, TypeOK
<1> QED
  BY <1>6, <1>7, <1>8, <1>9 DEF Inv

LEMMA StartAtOnceSound ==
  ASSUME Inv, NEW c \in Connectors, StartAtOnce(c)
  PROVE  Inv'
<1>1. TypeOK /\ AcceptorSound /\ \A d \in Connectors : Sound(d)
  BY DEF Inv
<1>2. ~polling[c] /\ epoll[c] = "none" /\ alive[c] /\ reports[c] = 0 /\ ~connected[c] /\ c \notin active
  BY <1>1 DEF StartAtOnce, Sound, Unstarted, HandedOver, Active
<1>3. c \in Channels /\ c # Acceptor /\ Acceptor \in Channels
  BY ConnectionsAssumption DEF Channels
<1>4. PICK s \in {"established", "failed"} : sock' = [sock EXCEPT ![c] = s] /\ handleWrite(c, s)
  BY DEF StartAtOnce
<1>5. /\ events' = [events EXCEPT ![c] = {}]
      /\ events' \in [Channels -> {{}, {"read"}, {"write"}}]
      /\ polling' = polling /\ epoll' = epoll /\ aborted' = TRUE
  BY <1>1, <1>2, <1>3, <1>4, Refused DEF handleWrite
<1>6. connected' = connected /\ reports' = reports
  BY <1>4, <1>5 DEF handleWrite
<1>7. TypeOK'
  BY <1>1, <1>4, <1>5, <1>6 DEF TypeOK, StartAtOnce, acceptorVars, Sockets
<1>8. AcceptorSound'
  BY <1>1, <1>3, <1>5 DEF AcceptorSound, TypeOK, StartAtOnce, acceptorVars
<1>9. Sound(c)'
  BY <1>1, <1>2, <1>5, <1>6 DEF StartAtOnce, TypeOK, Sound, Unstarted, Waiting, Active,
     Agrees, Gone, HandedOver
<1>10. ASSUME NEW d \in Connectors, d # c PROVE Sound(d)'
  BY <1>1, <1>4, <1>5, <1>6, <1>10, Untouched DEF StartAtOnce, TypeOK
<1> QED
  BY <1>7, <1>8, <1>9, <1>10 DEF Inv

LEMMA HandleConnectorSound ==
  ASSUME Inv, NEW c \in Connectors, HandleConnector(c)
  PROVE  Inv'
<1>1. TypeOK /\ AcceptorSound /\ \A d \in Connectors : Sound(d)
  BY DEF Inv
<1>2. /\ polling[c] /\ epoll[c] = "owner" /\ alive[c] /\ reports[c] = 0 /\ ~connected[c]
      /\ sock[c] \in {"established", "refused"} /\ started[c] /\ ~aborted
  BY <1>1 DEF HandleConnector, Sound, Unstarted, Waiting, Agrees, Active
<1>3. c \in Channels /\ c # Acceptor /\ Acceptor \in Channels /\ Connectors \subseteq Channels
  BY ConnectionsAssumption DEF Channels
<1>4. handleWrite(c, sock[c])
  BY DEF HandleConnector
<1>5. /\ events' = [events EXCEPT ![c] = {}]
      /\ events' \in [Channels -> {{}, {"read"}, {"write"}}]
      /\ polling' = [polling EXCEPT ![c] = FALSE] /\ polling' \in [Channels -> BOOLEAN]
      /\ epoll' = [epoll EXCEPT ![c] = "none"]
      /\ epoll' \in [Channels -> {"none", "owner", "user"}]
      /\ aborted' = aborted
  BY <1>1, <1>2, <1>3, <1>4, Deleted DEF handleWrite
<1>6. /\ reports' = [reports EXCEPT ![c] = @ + 1]
      /\ connected' = [connected EXCEPT ![c] = sock[c] # "refused"]
  BY <1>2, <1>4, <1>5 DEF handleWrite
<1>7. /\ reports' \in [Connectors -> Nat] /\ reports'[c] = 1
      /\ connected' \in [Connectors -> BOOLEAN] /\ (connected'[c] <=> sock[c] = "established")
  BY <1>1, <1>2, <1>6 DEF TypeOK
<1>8. TypeOK'
  BY <1>1, <1>5, <1>7 DEF TypeOK, HandleConnector, acceptorVars
<1>9. AcceptorSound'
  BY <1>1, <1>3, <1>5 DEF AcceptorSound, TypeOK, HandleConnector, acceptorVars
<1>10. Sound(c)'
  BY <1>1, <1>2, <1>3, <1>5, <1>7 DEF HandleConnector, TypeOK, Sound, Unstarted, Waiting,
     Active, Agrees, Gone, HandedOver
<1>11. ASSUME NEW d \in Connectors, d # c PROVE Sound(d)'
  BY <1>1, <1>3, <1>5, <1>6, <1>11, Untouched DEF HandleConnector, TypeOK
<1> QED
  BY <1>8, <1>9, <1>10, <1>11 DEF Inv

LEMMA DestroySound ==
  ASSUME Inv, NEW c \in Connectors, Destroy(c)
  PROVE  Inv'
<1>1. TypeOK /\ AcceptorSound /\ \A d \in Connectors : Sound(d)
  BY DEF Inv
<1>2. c \in Channels /\ c # Acceptor /\ Acceptor \in Channels /\ Connectors \subseteq Channels
  BY ConnectionsAssumption DEF Channels
<1>3. /\ epoll' \in [Channels -> {"none", "owner", "user"}]
      /\ \A ch \in Channels : ch # c => epoll'[ch] = epoll[ch]
      /\ epoll'[c] \in {"none", epoll[c]} /\ epoll'[c] # "owner"
  BY <1>1, <1>2 DEF Destroy, TypeOK, Sound, HandedOver
<1>4. TypeOK'
  BY <1>1, <1>3 DEF TypeOK, Destroy, acceptorVars
<1>5. AcceptorSound'
  BY <1>1, <1>2, <1>3 DEF AcceptorSound, Destroy, acceptorVars
<1>6. Sound(c)'
  BY <1>1, <1>3 DEF Destroy, TypeOK, Sound, Unstarted, Waiting, Active, Agrees, Gone, HandedOver
<1>7. ASSUME NEW d \in Connectors, d # c PROVE Sound(d)'
  BY <1>1, <1>2, <1>3, <1>7, Untouched DEF Destroy, TypeOK
<1> QED
  BY <1>4, <1>5, <1>6, <1>7 DEF Inv

LEMMA KernelSound ==
  ASSUME Inv, NEW c \in Connectors, ConnectEnds(c) \/ UserRegisters(c)
  PROVE  Inv'
<1>1. TypeOK /\ AcceptorSound /\ \A d \in Connectors : Sound(d)
  BY DEF Inv
<1>2. c \in Channels /\ c # Acceptor /\ Acceptor \in Channels /\ Connectors \subseteq Channels
  BY ConnectionsAssumption DEF Channels
<1>3. TypeOK' /\ AcceptorSound'
  BY <1>1, <1>2 DEF TypeOK, AcceptorSound, ConnectEnds, UserRegisters, channelVars,
     connectorVars, acceptorVars, Sockets
<1>4. ASSUME ConnectEnds(c) PROVE Sound(c)'
  BY <1>1, <1>4 DEF ConnectEnds, TypeOK, Sound, Unstarted, Waiting, Active, Agrees, Gone,
     HandedOver, channelVars
<1>5. ASSUME UserRegisters(c) PROVE Sound(c)'
  BY <1>1, <1>2, <1>5 DEF UserRegisters, TypeOK, Sound, Unstarted, Waiting, Active, Agrees, Gone,
     HandedOver, connectorVars
<1>6. ASSUME NEW d \in Connectors, d # c PROVE Sound(d)'
  BY <1>1, <1>2, <1>6, Untouched DEF ConnectEnds, UserRegisters, TypeOK, channelVars,
     connectorVars
<1> QED
  BY <1>3, <1>4, <1>5, <1>6 DEF Inv

LEMMA AcceptorStepSound ==
  ASSUME Inv, Accept \/ AcceptFails \/ AcceptIsFatal \/ \E p \in Peers : PeerArrives(p)
  PROVE  Inv'
<1>1. TypeOK /\ AcceptorSound /\ \A d \in Connectors : Sound(d)
  BY DEF Inv
<1>2. /\ UNCHANGED <<channelVars, connectorVars>> /\ active' \subseteq active
      /\ Acceptor \in active' => Acceptor \in active
  BY DEF Accept, AcceptFails, AcceptIsFatal, PeerArrives, connectorVars
<1>3. backlog \in Seq(Peers)
  BY <1>1 DEF TypeOK
<1>4. /\ backlog' \in Seq(Peers) /\ handed' \subseteq Peers \cup {Invalid}
      /\ aborted' \in BOOLEAN
      /\ Acceptor \in active' => backlog' # <<>>
  <2>1. CASE Accept \/ AcceptFails
    <3>1. backlog # <<>>
      BY <1>1, <2>1 DEF Accept, AcceptFails, AcceptorSound
    <3>2. Tail(backlog) \in Seq(Peers) /\ Head(backlog) \in Peers
      BY <1>3, <3>1, HeadTailProperties
    <3> QED
      BY <1>1, <2>1, <3>2 DEF Accept, AcceptFails, TypeOK
  <2>2. CASE AcceptIsFatal
    BY <1>1, <2>2 DEF AcceptIsFatal, TypeOK, AcceptorSound, acceptorVars
  <2>3. ASSUME NEW p \in Peers, PeerArrives(p)
        PROVE  backlog' \in Seq(Peers) /\ backlog' # <<>> /\ UNCHANGED <<handed, aborted>>
    BY <1>3, <2>3 DEF PeerArrives
  <2> QED
    BY <1>1, <2>1, <2>2, <2>3 DEF TypeOK
<1>5. TypeOK' /\ AcceptorSound'
  BY <1>1, <1>2, <1>4 DEF TypeOK, AcceptorSound, channelVars, connectorVars
<1>6. ASSUME NEW d \in Connectors PROVE Sound(d)'
  BY <1>1, <1>2, <1>6, Untouched DEF channelVars, connectorVars
<1> QED
  BY <1>5, <1>6 DEF Inv

LEMMA LoopSound ==
  ASSUME Inv, Poll \/ Listen
  PROVE  Inv'
<1>1. TypeOK /\ AcceptorSound /\ \A d \in Connectors : Sound(d)
  BY DEF Inv
<1>2. Acceptor \in Channels /\ Acceptor \notin Connectors /\ Connectors \subseteq Channels
  BY ConnectionsAssumption DEF Channels
<1>3. CASE Poll
  <2>1. TypeOK'
    BY <1>1, <1>3 DEF Poll, Ready, TypeOK, channelVars, connectorVars, acceptorVars
  <2>2. AcceptorSound'
    BY <1>1, <1>2, <1>3 DEF Poll, Ready, AcceptorSound, channelVars, acceptorVars
  <2>3. ASSUME NEW d \in Connectors PROVE Sound(d)'
    <3>1. Sound(d) /\ d # Acceptor
      BY <1>1, <1>2
    <3>2. d \in active' => epoll[d] = "owner" /\ sock[d] \in {"established", "refused"}
      BY <1>3, <3>1 DEF Poll, Ready
    <3> QED
      BY <1>1, <1>3, <3>1, <3>2 DEF Poll, channelVars, connectorVars, TypeOK, Sound, Unstarted,
         Waiting, Active, Agrees, Gone, HandedOver
  <2> QED
    BY <2>1, <2>2, <2>3 DEF Inv
<1>4. CASE Listen
  <2>1. ~polling[Acceptor] /\ epoll[Acceptor] = "none" /\ updateChannel(Acceptor, {"read"})
    BY <1>1, <1>2, <1>4 DEF Listen, AcceptorSound, TypeOK
  <2>2. /\ events' = [events EXCEPT ![Acceptor] = {"read"}]
        /\ events' \in [Channels -> {{}, {"read"}, {"write"}}]
        /\ polling' = [polling EXCEPT ![Acceptor] = TRUE] /\ polling' \in [Channels -> BOOLEAN]
        /\ epoll' = [epoll EXCEPT ![Acceptor] = "owner"]
        /\ epoll' \in [Channels -> {"none", "owner", "user"}]
        /\ aborted' = aborted
    BY <1>1, <1>2, <2>1, Added
  <2>3. TypeOK'
    BY <1>1, <1>4, <2>2 DEF TypeOK, Listen, connectorVars, acceptorVars
  <2>4. AcceptorSound'
    BY <1>1, <1>2, <1>4, <2>2 DEF AcceptorSound, TypeOK, Listen, acceptorVars
  <2>5. ASSUME NEW d \in Connectors PROVE Sound(d)'
    BY <1>1, <1>2, <1>4, <2>2, <2>5, Untouched DEF Listen, TypeOK, connectorVars
  <2> QED
    BY <2>3, <2>4, <2>5 DEF Inv
<1> QED
  BY <1>3, <1>4

LEMMA InvNext == Inv /\ [Next]_vars => Inv'
<1> SUFFICES ASSUME Inv, [Next]_vars PROVE Inv'
  OBVIOUS
<1>1. CASE UNCHANGED vars
  <2>1. TypeOK' /\ AcceptorSound'
    BY <1>1 DEF Inv, vars, channelVars, connectorVars, acceptorVars, TypeOK, AcceptorSound
  <2>2. ASSUME NEW d \in Connectors PROVE Sound(d)'
    BY <1>1, <2>2, Untouched DEF Inv, vars, channelVars, connectorVars
  <2> QED
    BY <2>1, <2>2 DEF Inv
<1>2. CASE Next
  BY <1>2, StartSound, StartAtOnceSound, HandleConnectorSound, DestroySound, KernelSound,
     AcceptorStepSound, LoopSound DEF Next
<1> QED
  BY <1>1, <1>2

-----------------------------------------------------------------------------
\* Every variable stays in its type.
THEOREM TypeCorrect == Spec => []TypeOK
<1>1. Inv => TypeOK
  BY DEF Inv
<1> QED
  BY <1>1, InvInit, InvNext, PTL DEF Spec

\* What channels believe of their registrations is what the kernel has, which holds
\* no pointer to the channel of a destroyed connector.
THEOREM Registered == Spec => []PollingAgrees
<1>1. Inv => PollingAgrees
  BY DEF Inv, AcceptorSound, Sound, Agrees, Gone, PollingAgrees
<1> QED
  BY <1>1, InvInit, InvNext, PTL DEF Spec

\* Sockets are handed over connected, unregistered and once.
THEOREM CleanHandOver == Spec => []HandedOverOnce
<1>1. Inv => HandedOverOnce
  BY DEF Inv, Sound, HandedOver, HandedOverOnce
<1> QED
  BY <1>1, InvInit, InvNext, PTL DEF Spec
=============================================================================
