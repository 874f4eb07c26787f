\* Two runs over the same directory; the first two nodes go where the override says.
CONSTANTS
    Graphs <- MCGraphs
    Calls <- MCCalls
    Boundary = 1
    TrainNum = 1
    ValNum = 2
    MaxParts = 3
    MaxRuns = 2
SPECIFICATION PartitionSpec
INVARIANTS LoadsAreWhole EdgesWithDestination BookAgrees FeaturesFollow TrainersCoalesced
\* The second run may be the last.
CHECK_DEADLOCK FALSE
