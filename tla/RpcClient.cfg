\* Three calls, whose last id is too great for a response, and two frames from
\* the peer.  All calls may be made and all frames handled: then it stops.
CONSTANTS
    Messages <- MCMessages
    MaxCalls = 3
    MaxFrames = 2
    Int32Max = 1
SPECIFICATION FairSpec
INVARIANTS NoCallLost
PROPERTIES ImplementsRemoteCall AnswersAreDelivered
CHECK_DEADLOCK FALSE
