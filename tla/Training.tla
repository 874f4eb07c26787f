------------------------------ MODULE Training ------------------------------
(***************************************************************************)
(* python/dist_graphSage.py: the trainers of one job, each a process that  *)
(* takes its mini-batches, averages gradients with the others, and every   *)
(* EvalEvery epochs computes the predictions of all nodes together with    *)
(* them, layer by layer, through tensors the servers hold.                 *)
(*                                                                         *)
(* A model is the history of the optimizer steps it went through; a step   *)
(* is named by how many the optimizer had done before, which is what Adam  *)
(* keeps.  A row of a tensor is named by what it was computed from.        *)
(* External: DistributedDataParallel and its join(), DistTensor, barrier() *)
(* and node_split() as run(), inference() and main() use them.             *)
(***************************************************************************)
EXTENDS Naturals, Sequences, FiniteSets

CONSTANTS
    Trainers,
    Nodes,
    InNeighbors,   \* [Nodes -> SUBSET Nodes]
    NumLayers,     \* --num_layers
    Batches,       \* [Trainers -> Nat]: mini-batches of train_nid
    Split,         \* [Trainers -> Seq(SUBSET Nodes)]: the batches of a trainer's share of all nodes
    NumEpochs,     \* --num_epochs
    EvalEvery,     \* --eval_every
    EvalNid        \* [Trainers -> SUBSET Nodes]: val_nid and test_nid

ASSUME TrainingAssumption ==
    /\ Trainers # {} /\ IsFiniteSet(Trainers)
    /\ InNeighbors \in [Nodes -> SUBSET Nodes]
    /\ NumLayers \in Nat /\ NumEpochs \in Nat /\ EvalEvery \in Nat \ {0}
    /\ Batches \in [Trainers -> Nat]
    /\ Split \in [Trainers -> Seq(SUBSET Nodes)]
    /\ EvalNid \in [Trainers -> SUBSET Nodes]

\* node_split gives every node to a trainer, DistDataLoader puts it in a batch.
ASSUME SplitAssumption ==
    \A n \in Nodes : \E t \in Trainers : \E i \in 1..Len(Split[t]) : n \in Split[t][i]

VARIABLES
    pc,        \* where each trainer is
    epoch,     \* its epoch
    step,      \* batches it has done, of the epoch or of the layer
    layer,     \* the layer it computes
    model,     \* its parameters
    moments,   \* steps its optimizer has done
    tensor,    \* the two tensors of inference()
    held       \* rows it has computed and not yet written

vars == <<pc, epoch, step, layer, model, moments, tensor, held>>

-----------------------------------------------------------------------------

\* The first and the last layer are always made.
Layers == IF NumLayers <= 2 THEN 2 ELSE NumLayers

Names == {"h", "h_last"}

\* The tensor a layer writes: all but the last share one.
Output(l) == IF l = Layers THEN "h_last" ELSE "h"

\* What a row holds: layer l in the evaluation after an epoch with some parameters.
Value(round, l, m) == [round |-> round, layer |-> l, model |-> m]

\* A row never written, or computed from rows that did not belong together.
Worthless == Value(0, 0, <<>>)

Values == [round : Nat, layer : Nat, model : Seq(Nat)]

InferPlaces == {"infer", "write", "barrier"}
Places == InferPlaces \cup {"main", "batch", "backward", "update", "joined", "measure", "done"}

TypeOK ==
    /\ pc \in [Trainers -> Places]
    /\ epoch \in [Trainers -> 0..NumEpochs]
    /\ step \in [Trainers -> Nat]
    /\ layer \in [Trainers -> 1..Layers]
    /\ model \in [Trainers -> Seq(Nat)]
    /\ moments \in [Trainers -> Nat]
    /\ tensor \in [Names -> [Nodes -> Values]]
    /\ held \in [Trainers -> Values]

NextEpoch(e) == IF e < NumEpochs THEN "batch" ELSE "done"

Init ==
    /\ pc = [t \in Trainers |-> "main"]
    /\ epoch = [t \in Trainers |-> 0]
    /\ step = [t \in Trainers |-> 0]
    /\ layer = [t \in Trainers |-> 1]
    /\ model = [t \in Trainers |-> <<>>]
    /\ moments = [t \in Trainers |-> 0]
    /\ tensor = [x \in Names |-> [n \in Nodes |-> Worthless]]
    /\ held = [t \in Trainers |-> Worthless]

Moves(t, from, to) == pc[t] = from /\ pc' = [pc EXCEPT ![t] = to]

-----------------------------------------------------------------------------
\* Training

\* init_process_group() waits for all; DistributedDataParallel starts them with the
\* parameters of the first.
Begin ==
    /\ \A t \in Trainers : pc[t] = "main"
    /\ pc' = [t \in Trainers |-> NextEpoch(0)]
    /\ UNCHANGED <<epoch, step, layer, model, moments, tensor, held>>

\* The next batch is sampled and goes through the model.
Forward(t) ==
    /\ step[t] < Batches[t]
    /\ Moves(t, "batch", "backward")
    /\ UNCHANGED <<epoch, step, layer, model, moments, tensor, held>>

\* Slip: without join() nobody stands in for the trainers that have finished.
AllReduceOfAll ==
    /\ \A t \in Trainers : pc[t] = "backward"
    /\ pc' = [t \in Trainers |-> "update"]
    /\ UNCHANGED <<epoch, step, layer, model, moments, tensor, held>>

\* Slip: gradients are averaged by who is there.
AllReduceOfSome ==
    \E S \in SUBSET {t \in Trainers : pc[t] = "backward"} :
        /\ S # {}
        /\ pc' = [t \in Trainers |-> IF t \in S THEN "update" ELSE pc[t]]
        /\ UNCHANGED <<epoch, step, layer, model, moments, tensor, held>>

\* backward() averages the gradients of all trainers; one that has joined takes
\* part without a batch.
AllReduce ==
    LET active == {t \in Trainers : pc[t] = "backward"}
    IN  /\ active # {}
        /\ \A t \in Trainers \ active : pc[t] = "joined"
        /\ pc' = [t \in Trainers |-> IF t \in active THEN "update" ELSE pc[t]]
        /\ UNCHANGED <<epoch, step, layer, model, moments, tensor, held>>

\* optimizer.step()
Update(t) ==
    /\ Moves(t, "update", "batch")
    /\ model' = [model EXCEPT ![t] = Append(@, moments[t])]
    /\ moments' = [moments EXCEPT ![t] = @ + 1]
    /\ step' = [step EXCEPT ![t] = @ + 1]
    /\ UNCHANGED <<epoch, layer, tensor, held>>

\* The loader is empty: the end of the block of model.join().
Join(t) ==
    /\ step[t] = Batches[t]
    /\ Moves(t, "batch", "joined")
    /\ UNCHANGED <<epoch, step, layer, model, moments, tensor, held>>

\* Who has joined last; join() takes the parameters from one of them.
LastJoiners == {t \in Trainers : \A u \in Trainers : Batches[u] <= Batches[t]}

AfterEpoch(e) == IF e % EvalEvery = 0 THEN "infer" ELSE NextEpoch(e)

\* Slip: the block ends without giving all the same parameters.
LeaveJoinApart ==
    /\ \A t \in Trainers : pc[t] = "joined"
    /\ epoch' = [t \in Trainers |-> epoch[t] + 1]
    /\ step' = [t \in Trainers |-> 0]
    /\ layer' = [t \in Trainers |-> 1]
    /\ pc' = [t \in Trainers |-> AfterEpoch(epoch[t] + 1)]
    /\ UNCHANGED <<model, moments, tensor, held>>

\* All have joined: all get the same parameters, but keep their own moments.
\* Every EvalEvery epochs an evaluation follows.
LeaveJoin ==
    /\ \A t \in Trainers : pc[t] = "joined"
    /\ \E last \in LastJoiners : model' = [t \in Trainers |-> model[last]]
    /\ epoch' = [t \in Trainers |-> epoch[t] + 1]
    /\ step' = [t \in Trainers |-> 0]
    /\ layer' = [t \in Trainers |-> 1]
    /\ pc' = [t \in Trainers |-> AfterEpoch(epoch[t] + 1)]
    /\ UNCHANGED <<moments, tensor, held>>

-----------------------------------------------------------------------------
\* Inference

\* The nodes whose rows a block reads: its own and all their neighbours (fanout -1).
SourcesOf(batch) == batch \cup UNION {InNeighbors[n] : n \in batch}

\* The rows a block reads: features, or what the layer before has written.
Inputs(l, batch) ==
    IF l = 1 THEN {} ELSE {tensor[Output(l - 1)][n] : n \in SourcesOf(batch)}

Batch(t) == Split[t][step[t] + 1]

\* What the block computes belongs to the round if all it has read does.
Computed(t) ==
    IF \A v \in Inputs(layer[t], Batch(t)) : v = Value(epoch[t], layer[t] - 1, model[t])
    THEN Value(epoch[t], layer[t], model[t])
    ELSE Worthless

Pull(t) ==
    /\ step[t] < Len(Split[t])
    /\ Moves(t, "infer", "write")
    /\ held' = [held EXCEPT ![t] = Computed(t)]
    /\ UNCHANGED <<epoch, step, layer, model, moments, tensor>>

Push(t) ==
    /\ Moves(t, "write", "infer")
    /\ tensor' = [tensor EXCEPT ![Output(layer[t])] =
                    [n \in Nodes |-> IF n \in Batch(t) THEN held[t] ELSE @[n]]]
    /\ step' = [step EXCEPT ![t] = @ + 1]
    /\ UNCHANGED <<epoch, layer, model, moments, held>>

LayerDone(t) ==
    /\ step[t] = Len(Split[t])
    /\ Moves(t, "infer", "barrier")
    /\ UNCHANGED <<epoch, step, layer, model, moments, tensor, held>>

\* Slip: no barrier after the last layer.
BarrierUnlessLast ==
    \/ /\ \A t \in Trainers : pc[t] = "barrier" /\ layer[t] < Layers
       /\ pc' = [t \in Trainers |-> "infer"]
       /\ layer' = [t \in Trainers |-> layer[t] + 1]
       /\ step' = [t \in Trainers |-> 0]
       /\ UNCHANGED <<epoch, model, moments, tensor, held>>
    \/ \E t \in Trainers :
       /\ layer[t] = Layers /\ Moves(t, "barrier", "measure")
       /\ UNCHANGED <<epoch, step, layer, model, moments, tensor, held>>

\* g.barrier() at the end of a layer.
Barrier ==
    /\ \A t \in Trainers : pc[t] = "barrier"
    /\ pc' = [t \in Trainers |-> IF layer[t] < Layers THEN "infer" ELSE "measure"]
    /\ layer' = [t \in Trainers |-> IF layer[t] < Layers THEN layer[t] + 1 ELSE layer[t]]
    /\ step' = [t \in Trainers |-> 0]
    /\ UNCHANGED <<epoch, model, moments, tensor, held>>

\* compute_acc() of the rows of val_nid and test_nid; then the next epoch.
Measure(t) ==
    /\ Moves(t, "measure", NextEpoch(epoch[t]))
    /\ UNCHANGED <<epoch, step, layer, model, moments, tensor, held>>

-----------------------------------------------------------------------------

Own(t) == Forward(t) \/ Update(t) \/ Join(t) \/ Pull(t) \/ Push(t) \/ LayerDone(t) \/ Measure(t)

Next ==
    \/ \E t \in Trainers : Own(t)
    \/ Begin \/ AllReduce \/ LeaveJoin \/ Barrier

Spec == Init /\ [][Next]_vars

\* Every trainer runs on, and a collective operation that all have reached ends.
Fairness ==
    /\ \A t \in Trainers : WF_vars(Own(t))
    /\ WF_vars(Begin) /\ WF_vars(AllReduce) /\ WF_vars(LeaveJoin) /\ WF_vars(Barrier)

FairSpec == Spec /\ Fairness

-----------------------------------------------------------------------------
\* Properties

\* The predictions that compute_acc() reads are those of this evaluation, of the last
\* layer and of the trainer's own parameters, and come from rows of which the same
\* holds, layer by layer: no batch reads what a slower trainer has not yet written,
\* or a faster one has written already.
InferenceExact ==
    \A t \in Trainers : pc[t] = "measure" =>
        \A n \in EvalNid[t] : tensor["h_last"][n] = Value(epoch[t], Layers, model[t])

\* Gradients are averaged over one step of one epoch, and trainers whose optimizers
\* have done equally many steps have computed them with the same parameters.  (Those
\* that had fewer batches before keep older moments, which join() does not even out.)
GradientsMatch ==
    \A t, u \in Trainers : (pc[t] = "backward" /\ pc[u] = "backward") =>
        /\ epoch[t] = epoch[u] /\ step[t] = step[u]
        /\ moments[t] = moments[u] => model[t] = model[u]

\* All trainers evaluate the same parameters, though some took fewer steps.
EvaluatedAlike ==
    \A t, u \in Trainers : (pc[t] \in InferPlaces /\ pc[u] \in InferPlaces) =>
        model[t] = model[u] /\ epoch[t] = epoch[u] /\ layer[t] = layer[u]

\* Trainers with unequal numbers of batches all get through their epochs.
TrainingEnds == <>(\A t \in Trainers : pc[t] = "done")
=============================================================================
