\* Four epochs with an evaluation of two layers after every second.
CONSTANTS
    a = a
    b = b
    c = c
    Trainers = {a, b, c}
    Nodes <- MCNodes
    InNeighbors <- Ring
    NumLayers = 2
    Batches <- Uneven
    Split <- Shares
    NumEpochs = 4
    EvalEvery = 2
    EvalNid <- ValAndTest
SPECIFICATION FairSpec
INVARIANTS InferenceExact GradientsMatch EvaluatedAlike
PROPERTIES TrainingEnds
\* Trainers that are done stop.
CHECK_DEADLOCK FALSE
