\* Two connectors and two peers, which all meet in one round of the loop.
CONSTANTS
    Connectors = {c1, c2}
    Acceptor = Acceptor
    Peers = {p, q}
    Invalid = Invalid
SPECIFICATION FairSpec
INVARIANTS PollingAgrees HandedOverOnce
PROPERTIES PeersAccepted
\* An assertion that fails ends the program.
CHECK_DEADLOCK FALSE
