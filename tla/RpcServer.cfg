\* Two frames from the peer, batches of up to two items of every kind; an
\* exception nobody catches ends the server, and the peer may fall silent.
CONSTANTS
    Messages <- MCMessages
    MaxItems = 2
    MaxFrames = 2
SPECIFICATION FairSpec
INVARIANTS BatchRepliesAreFinal
PROPERTIES ImplementsRemoteCall CallsAreAnswered
CHECK_DEADLOCK FALSE
