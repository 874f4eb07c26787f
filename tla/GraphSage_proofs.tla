--------------------------- MODULE GraphSage_proofs ---------------------------
(***************************************************************************)
(* Theorems about the Python side of a job: about Training, for any        *)
(* trainers, graph, batches and epochs, and about Partition, for any       *)
(* graph, assignment, number of parts and of runs over the directory.      *)
(***************************************************************************)
EXTENDS Training, Partition, SequenceTheorems, FiniteSetTheorems, TLAPS

(***************************************************************************)
(* Training                                                                *)
(***************************************************************************)

LEMMA LayersNat == Layers \in Nat /\ 1 <= Layers /\ 2 <= Layers
BY TrainingAssumption DEF Layers

TrainPlaces == {"batch", "backward", "update", "joined"}

\* Training goes on only while epochs are left.
EpochsLeft ==
    \A t \in Trainers :
        /\ pc[t] = "main" => epoch[t] = 0
        /\ pc[t] \in TrainPlaces => epoch[t] < NumEpochs

TypeInv == TypeOK /\ EpochsLeft

LEMMA NextEpochIs ==
  ASSUME NEW e \in 0..NumEpochs
  PROVE  /\ NextEpoch(e) \in {"batch", "done"}
         /\ NextEpoch(e) = "batch" => e < NumEpochs
         /\ AfterEpoch(e) \in {"batch", "done", "infer"}
         /\ AfterEpoch(e) = "batch" => e < NumEpochs
BY DEF NextEpoch, AfterEpoch

LEMMA ValueTyped ==
  ASSUME NEW r \in Nat, NEW l \in Nat, NEW m \in Seq(Nat)
  PROVE  Value(r, l, m) \in Values
BY DEF Value, Values

LEMMA WorthlessTyped == <<>> \in Seq(Nat) /\ Worthless \in Values
<1>1. <<>> \in Seq(Nat)
  BY EmptySeq
<1> QED
  BY <1>1, ValueTyped DEF Worthless

LEMMA ComputedTyped ==
  ASSUME TypeOK, NEW t \in Trainers
  PROVE  Computed(t) \in Values
<1>1. epoch[t] \in Nat /\ layer[t] \in Nat /\ model[t] \in Seq(Nat)
  BY LayersNat, TrainingAssumption, SMTT(30) DEF TypeOK
<1> QED
  BY <1>1, ValueTyped, WorthlessTyped, LayersNat DEF Computed

LEMMA TypeInit == Init => TypeInv
<1> SUFFICES ASSUME Init PROVE TypeInv
  OBVIOUS
<1>1. <<>> \in Seq(Nat) /\ Worthless \in Values
  BY WorthlessTyped
<1>2. NumEpochs \in Nat /\ 0 \in 0..NumEpochs /\ 1 \in 1..Layers
  BY LayersNat, TrainingAssumption
<1> QED
  BY <1>1, <1>2 DEF Init, TypeInv, TypeOK, EpochsLeft, Places, InferPlaces, TrainPlaces

LEMMA TypeNext == TypeInv /\ [Next]_vars => TypeInv'
<1> SUFFICES ASSUME TypeInv, [Next]_vars PROVE TypeInv'
  OBVIOUS
<1>0. NumEpochs \in Nat /\ Layers \in Nat /\ 1 \in 1..Layers
  BY LayersNat, TrainingAssumption
<1> USE <1>0 DEF TypeInv, TypeOK, EpochsLeft, Moves, Places, InferPlaces, TrainPlaces
<1>1. CASE Begin
  BY <1>1, NextEpochIs DEF Begin
<1>2. ASSUME NEW t \in Trainers, Forward(t) PROVE TypeInv'
  BY <1>2 DEF Forward
<1>3. CASE AllReduce
  BY <1>3 DEF AllReduce
<1>4. ASSUME NEW t \in Trainers, Update(t) PROVE TypeInv'
  <2>1. Append(model[t], moments[t]) \in Seq(Nat)
    BY AppendProperties
  <2> QED
    BY <1>4, <2>1, SMTT(30) DEF Update
<1>5. ASSUME NEW t \in Trainers, Join(t) PROVE TypeInv'
  BY <1>5 DEF Join
<1>6. CASE LeaveJoin
  <2>1. \A t \in Trainers : epoch[t] + 1 \in 0..NumEpochs
    BY <1>6 DEF LeaveJoin
  <2>2. \A t \in Trainers : AfterEpoch(epoch[t] + 1) \in {"batch", "done", "infer"}
                         /\ (AfterEpoch(epoch[t] + 1) = "batch" => epoch[t] + 1 < NumEpochs)
    BY <2>1, NextEpochIs
  <2>3. PICK last \in LastJoiners : model' = [t \in Trainers |-> model[last]]
    BY <1>6 DEF LeaveJoin
  <2>4. model' \in [Trainers -> Seq(Nat)]
    BY <2>3 DEF LastJoiners
  <2> QED
    BY <1>6, <2>1, <2>2, <2>4 DEF LeaveJoin
<1>7. ASSUME NEW t \in Trainers, Pull(t) PROVE TypeInv'
  BY <1>7, ComputedTyped DEF Pull
<1>8. ASSUME NEW t \in Trainers, Push(t) PROVE TypeInv'
  <2>1. Output(layer[t]) \in Names
    BY DEF Output, Names
  <2>2. [n \in Nodes |-> IF n \in Batch(t) THEN held[t] ELSE tensor[Output(layer[t])][n]]
            \in [Nodes -> Values]
    BY <2>1
  <2> QED
    BY <1>8, <2>1, <2>2 DEF Push
<1>9. ASSUME NEW t \in Trainers, LayerDone(t) PROVE TypeInv'
  BY <1>9 DEF LayerDone
<1>10. CASE Barrier
  BY <1>10 DEF Barrier
<1>11. ASSUME NEW t \in Trainers, Measure(t) PROVE TypeInv'
  <2>1. NextEpoch(epoch[t]) \in {"batch", "done"} /\ (NextEpoch(epoch[t]) = "batch" => epoch[t] < NumEpochs)
    BY NextEpochIs
  <2> QED
    BY <1>11, <2>1 DEF Measure
<1>12. CASE UNCHANGED vars
  BY <1>12 DEF vars
<1> QED
  BY <1>1, <1>2, <1>3, <1>4, <1>5, <1>6, <1>7, <1>8, <1>9, <1>10, <1>11, <1>12 DEF Next, Own

LEMMA TypeInvAlways == Spec => []TypeInv
BY TypeInit, TypeNext, PTL DEF Spec

\* Every variable stays in its type; no trainer counts beyond the epochs or the layers.
THEOREM TypeCorrect == Spec => []TypeOK
<1>1. TypeInv => TypeOK
  BY DEF TypeInv
<1> QED
  BY <1>1, TypeInvAlways, PTL

-----------------------------------------------------------------------------
\* All are in one epoch and one layer, and who infers does so with all others and
\* with the same parameters.
InStep ==
    \A t, u \in Trainers :
        /\ epoch[t] = epoch[u] /\ layer[t] = layer[u]
        /\ pc[t] = "main" => pc[u] = "main"
        /\ pc[t] \in InferPlaces => pc[u] \in InferPlaces /\ model[t] = model[u]

LEMMA InStepInit == Init => InStep
BY DEF Init, InStep, InferPlaces

LEMMA InStepNext == TypeInv /\ InStep /\ [Next]_vars => InStep'
<1> SUFFICES ASSUME TypeInv, InStep, [Next]_vars PROVE InStep'
  OBVIOUS
<1>0. NumEpochs \in Nat /\ Layers \in Nat
  BY LayersNat, TrainingAssumption
<1> USE <1>0 DEF InStep, TypeInv, TypeOK, EpochsLeft, Moves, InferPlaces, TrainPlaces
<1>1. CASE Begin
  BY <1>1 DEF Begin, NextEpoch
<1>2. ASSUME NEW t \in Trainers, Forward(t) PROVE InStep'
  BY <1>2 DEF Forward
<1>3. CASE AllReduce
  BY <1>3 DEF AllReduce
<1>4. ASSUME NEW t \in Trainers, Update(t) PROVE InStep'
  BY <1>4 DEF Update
<1>5. ASSUME NEW t \in Trainers, Join(t) PROVE InStep'
  BY <1>5 DEF Join
<1>6. CASE LeaveJoin
  <2>1. PICK last \in LastJoiners : model' = [t \in Trainers |-> model[last]]
    BY <1>6 DEF LeaveJoin
  <2> QED
    BY <1>6, <2>1 DEF LeaveJoin, AfterEpoch, NextEpoch
<1>7. ASSUME NEW t \in Trainers, Pull(t) PROVE InStep'
  BY <1>7 DEF Pull
<1>8. ASSUME NEW t \in Trainers, Push(t) PROVE InStep'
  BY <1>8 DEF Push
<1>9. ASSUME NEW t \in Trainers, LayerDone(t) PROVE InStep'
  BY <1>9 DEF LayerDone
<1>10. CASE Barrier
  BY <1>10 DEF Barrier
<1>11. ASSUME NEW t \in Trainers, Measure(t) PROVE InStep'
  BY <1>11 DEF Measure, NextEpoch
<1>12. CASE UNCHANGED vars
  BY <1>12 DEF vars
<1> QED
  BY <1>1, <1>2, <1>3, <1>4, <1>5, <1>6, <1>7, <1>8, <1>9, <1>10, <1>11, <1>12 DEF Next, Own

LEMMA InStepAlways == Spec => []InStep
BY TypeInvAlways, InStepInit, InStepNext, PTL DEF Spec

\* Trainers of any number, with any numbers of batches, evaluate together and with the
\* same parameters.
THEOREM Alike == Spec => []EvaluatedAlike
<1>1. InStep => EvaluatedAlike
  BY DEF InStep, EvaluatedAlike
<1> QED
  BY <1>1, InStepAlways, PTL

-----------------------------------------------------------------------------
\* Who has not joined has taken as many steps as the others, one under way included;
\* with the same history of the optimizer it has the same parameters.
Stepping == {"main", "batch", "backward", "update", "measure"}
StepsOf(t) == IF pc[t] = "update" THEN step[t] + 1 ELSE step[t]
MomentsOf(t) == IF pc[t] = "update" THEN moments[t] + 1 ELSE moments[t]
ModelOf(t) == IF pc[t] = "update" THEN Append(model[t], moments[t]) ELSE model[t]

Aligned ==
    /\ \A t \in Trainers : pc[t] = "measure" => step[t] = 0
    /\ \A t, u \in Trainers : (pc[t] \in Stepping /\ pc[u] \in Stepping) =>
        /\ StepsOf(t) = StepsOf(u)
        /\ MomentsOf(t) = MomentsOf(u) => ModelOf(t) = ModelOf(u)

LEMMA AlignedInit == Init => Aligned
BY DEF Init, Aligned, Stepping, StepsOf, MomentsOf, ModelOf

\* Most steps change nothing of what Aligned compares.
Kept(u) ==
    /\ pc'[u] \in Stepping => pc[u] \in Stepping
    /\ pc'[u] = "measure" => pc[u] = "measure" /\ step'[u] = step[u]
    /\ pc'[u] \in Stepping =>
        /\ StepsOf(u)' = StepsOf(u)
        /\ MomentsOf(u)' = MomentsOf(u) /\ ModelOf(u)' = ModelOf(u)

LEMMA KeptAligned == Aligned /\ (\A u \in Trainers : Kept(u)) => Aligned'
BY DEF Aligned, Kept

LEMMA AlignedNext == TypeInv /\ InStep /\ Aligned /\ [Next]_vars => Aligned'
<1> SUFFICES ASSUME TypeInv, InStep, Aligned, [Next]_vars PROVE Aligned'
  OBVIOUS
<1>0. TypeOK
  BY DEF TypeInv
<1>1. CASE Begin
  <2>1. \A u \in Trainers : Kept(u)
    BY <1>0, <1>1 DEF Begin, NextEpoch, Kept, Stepping, StepsOf, MomentsOf, ModelOf, TypeOK
  <2> QED
    BY <2>1, KeptAligned
<1>2. ASSUME NEW t \in Trainers, Forward(t) PROVE Aligned'
  <2>1. \A u \in Trainers : Kept(u)
    BY <1>0, <1>2 DEF Forward, Moves, Kept, Stepping, StepsOf, MomentsOf, ModelOf, TypeOK
  <2> QED
    BY <2>1, KeptAligned
<1>3. CASE AllReduce
  <2> DEFINE active == {t \in Trainers : pc[t] = "backward"}
  <2>1. \A u \in Trainers : pc'[u] \in Stepping => u \in active
    BY <1>0, <1>3 DEF AllReduce, Stepping, TypeOK
  <2>2. ASSUME NEW u \in active
        PROVE  /\ pc[u] \in Stepping /\ pc'[u] = "update"
               /\ StepsOf(u) = step[u] /\ StepsOf(u)' = step[u] + 1
               /\ MomentsOf(u) = moments[u] /\ MomentsOf(u)' = moments[u] + 1
               /\ ModelOf(u) = model[u] /\ ModelOf(u)' = Append(model[u], moments[u])
    BY <1>0, <1>3 DEF AllReduce, Stepping, StepsOf, MomentsOf, ModelOf, TypeOK
  <2>3. \A u \in active : moments[u] \in Nat
    BY <1>0 DEF TypeOK
  <2>4. \A u \in Trainers : pc'[u] # "measure"
    BY <2>1, <2>2 DEF Stepping
  <2>5. ASSUME NEW t \in active, NEW u \in active
        PROVE  /\ StepsOf(t)' = StepsOf(u)'
               /\ MomentsOf(t)' = MomentsOf(u)' => ModelOf(t)' = ModelOf(u)'
    <3>1. /\ StepsOf(t) = StepsOf(u)
          /\ MomentsOf(t) = MomentsOf(u) => ModelOf(t) = ModelOf(u)
      BY <2>2 DEF Aligned
    <3>2. /\ step[t] = step[u]
          /\ moments[t] = moments[u] => model[t] = model[u]
      BY <2>2, <3>1
    <3>3. moments[t] + 1 = moments[u] + 1 => moments[t] = moments[u]
      BY <2>3
    <3> QED
      BY <2>2, <3>2, <3>3
  <2> QED
    BY <2>1, <2>4, <2>5 DEF Aligned
<1>4. ASSUME NEW t \in Trainers, Update(t) PROVE Aligned'
  <2>1. \A u \in Trainers : Kept(u)
    BY <1>0, <1>4 DEF Update, Moves, Kept, Stepping, StepsOf, MomentsOf, ModelOf, TypeOK
  <2> QED
    BY <2>1, KeptAligned
<1>5. ASSUME NEW t \in Trainers, Join(t) PROVE Aligned'
  <2>1. \A u \in Trainers : Kept(u)
    BY <1>0, <1>5 DEF Join, Moves, Kept, Stepping, StepsOf, MomentsOf, ModelOf, TypeOK
  <2> QED
    BY <2>1, KeptAligned
<1>6. CASE LeaveJoin
  <2>1. PICK last \in LastJoiners : model' = [t \in Trainers |-> model[last]]
    BY <1>6 DEF LeaveJoin
  <2>2. \A u \in Trainers : pc'[u] \in {"batch", "infer", "done"} /\ step'[u] = 0
    BY <1>6 DEF LeaveJoin, AfterEpoch, NextEpoch
  <2>3. \A u \in Trainers : StepsOf(u)' = 0 /\ ModelOf(u)' = model[last]
    BY <2>1, <2>2 DEF StepsOf, ModelOf
  <2> QED
    BY <2>2, <2>3 DEF Aligned
<1>7. ASSUME NEW t \in Trainers, Pull(t) PROVE Aligned'
  <2>1. \A u \in Trainers : Kept(u)
    BY <1>0, <1>7 DEF Pull, Moves, Kept, Stepping, StepsOf, MomentsOf, ModelOf, TypeOK
  <2> QED
    BY <2>1, KeptAligned
<1>8. ASSUME NEW t \in Trainers, Push(t) PROVE Aligned'
  <2>1. \A u \in Trainers : Kept(u)
    BY <1>0, <1>8 DEF Push, Moves, Kept, Stepping, StepsOf, MomentsOf, ModelOf, TypeOK, Places,
       InferPlaces
  <2> QED
    BY <2>1, KeptAligned
<1>9. ASSUME NEW t \in Trainers, LayerDone(t) PROVE Aligned'
  <2>1. \A u \in Trainers : Kept(u)
    BY <1>0, <1>9 DEF LayerDone, Moves, Kept, Stepping, StepsOf, MomentsOf, ModelOf, TypeOK
  <2> QED
    BY <2>1, KeptAligned
<1>10. CASE Barrier
  <2>1. \A u \in Trainers : pc'[u] \in {"infer", "measure"} /\ step'[u] = 0
    BY <1>10 DEF Barrier
  <2>2. \A t, u \in Trainers : model'[t] = model'[u]
    BY <1>10 DEF Barrier, InStep, InferPlaces
  <2>3. \A u \in Trainers : StepsOf(u)' = 0 /\ ModelOf(u)' = model'[u]
    BY <2>1 DEF StepsOf, ModelOf
  <2> QED
    BY <2>1, <2>2, <2>3 DEF Aligned
<1>11. ASSUME NEW t \in Trainers, Measure(t) PROVE Aligned'
  <2>1. \A u \in Trainers : Kept(u)
    BY <1>0, <1>11 DEF Measure, NextEpoch, Moves, Kept, Stepping, StepsOf, MomentsOf, ModelOf,
       TypeOK
  <2> QED
    BY <2>1, KeptAligned
<1>12. CASE UNCHANGED vars
  <2>1. \A u \in Trainers : Kept(u)
    BY <1>12 DEF vars, Kept, Stepping, StepsOf, MomentsOf, ModelOf
  <2> QED
    BY <2>1, KeptAligned
<1> QED
  BY <1>1, <1>2, <1>3, <1>4, <1>5, <1>6, <1>7, <1>8, <1>9, <1>10, <1>11, <1>12 DEF Next, Own

\* Gradients are averaged over the same step of the same epoch, and equal optimizers
\* have computed them with equal parameters, however many batches each trainer has.
THEOREM Match == Spec => []GradientsMatch
<1>1. InStep /\ Aligned => GradientsMatch
  BY DEF InStep, Aligned, GradientsMatch, Stepping, StepsOf, MomentsOf, ModelOf
<1> QED
  BY <1>1, TypeInvAlways, InStepAlways, AlignedInit, AlignedNext, PTL DEF Spec

-----------------------------------------------------------------------------
\* Two layers: rows of a layer are written once each, with one value for all.
NewRow(t, l) == Value(epoch[t], l, model[t])

Rows ==
    \A t \in Trainers :
        /\ pc[t] = "write" => step[t] < Len(Split[t]) /\ held[t] = NewRow(t, layer[t])
        /\ pc[t] = "barrier" => step[t] = Len(Split[t])
        /\ pc[t] \in InferPlaces =>
            /\ \A i \in 1..Len(Split[t]) : i <= step[t] =>
                   \A n \in Split[t][i] : tensor[Output(layer[t])][n] = NewRow(t, layer[t])
            /\ layer[t] = 2 => \A n \in Nodes : tensor["h"][n] = NewRow(t, 1)
        /\ pc[t] = "measure" => \A n \in Nodes : tensor["h_last"][n] = NewRow(t, 2)

RowsInv == TypeInv /\ InStep /\ Rows

LEMMA Outputs ==
  ASSUME NumLayers <= 2
  PROVE  Layers = 2 /\ Output(1) = "h" /\ Output(2) = "h_last"
BY DEF Layers, Output

LEMMA BatchIn ==
  ASSUME TypeOK, NEW t \in Trainers, step[t] < Len(Split[t])
  PROVE  /\ step[t] + 1 \in 1..Len(Split[t])
         /\ Batch(t) \in SUBSET Nodes /\ SourcesOf(Batch(t)) \in SUBSET Nodes
<1>1. Split[t] \in Seq(SUBSET Nodes) /\ step[t] \in Nat
  BY TrainingAssumption DEF TypeOK
<1>2. step[t] + 1 \in 1..Len(Split[t])
  BY <1>1, LenProperties
<1>3. Batch(t) \in SUBSET Nodes
  BY <1>1, <1>2, ElementOfSeq DEF Batch
<1> QED
  BY <1>2, <1>3, TrainingAssumption DEF SourcesOf

\* A block that reads complete rows computes one that belongs to the round.
LEMMA ComputedExact ==
  ASSUME NumLayers <= 2, RowsInv, NEW t \in Trainers, pc[t] = "infer", step[t] < Len(Split[t])
  PROVE  Computed(t) = NewRow(t, layer[t])
<1>1. layer[t] \in {1, 2}
  BY Outputs DEF RowsInv, TypeInv, TypeOK
<1>2. CASE layer[t] = 1
  BY <1>2 DEF Computed, Inputs, NewRow
<1>3. CASE layer[t] = 2
  <2>1. \A n \in Nodes : tensor["h"][n] = NewRow(t, 1)
    BY <1>3 DEF RowsInv, Rows, InferPlaces
  <2>2. SourcesOf(Batch(t)) \in SUBSET Nodes
    BY BatchIn DEF RowsInv, TypeInv
  <2>3. Inputs(layer[t], Batch(t)) = {tensor["h"][n] : n \in SourcesOf(Batch(t))}
    BY <1>3, Outputs DEF Inputs
  <2> QED
    BY <1>3, <2>1, <2>2, <2>3 DEF Computed, NewRow
<1> QED
  BY <1>1, <1>2, <1>3

\* A step that leaves tensors and parameters alone, and brings nobody into inference.
LEMMA RowsKept ==
  ASSUME Rows, UNCHANGED <<tensor, held>>,
         \A u \in Trainers :
            /\ pc'[u] \in InferPlaces \cup {"measure"} =>
                 /\ pc'[u] = pc[u]
                 /\ epoch'[u] = epoch[u] /\ step'[u] = step[u]
                 /\ layer'[u] = layer[u] /\ model'[u] = model[u]
  PROVE  Rows'
BY DEF Rows, NewRow, InferPlaces, Value, Output

LEMMA RowsNext ==
  ASSUME NumLayers <= 2, RowsInv, [Next]_vars
  PROVE  Rows'
<1> USE DEF RowsInv, TypeInv
<1>0. Layers = 2 /\ Output(1) = "h" /\ Output(2) = "h_last"
  BY Outputs
<1>t. TypeOK'
  BY TypeNext
<1>1. CASE Begin
  BY <1>1, RowsKept DEF Begin, NextEpoch, InferPlaces, TypeOK
<1>2. ASSUME NEW t \in Trainers, Forward(t) PROVE Rows'
  BY <1>2, RowsKept DEF Forward, Moves, InferPlaces, TypeOK
<1>3. CASE AllReduce
  BY <1>3, RowsKept DEF AllReduce, InferPlaces, TypeOK
<1>4. ASSUME NEW t \in Trainers, Update(t) PROVE Rows'
  BY <1>4, RowsKept DEF Update, Moves, InferPlaces, TypeOK
<1>5. ASSUME NEW t \in Trainers, Join(t) PROVE Rows'
  BY <1>5, RowsKept DEF Join, Moves, InferPlaces, TypeOK
<1>6. CASE LeaveJoin
  <2>1. \A u \in Trainers : pc'[u] \in {"batch", "infer", "done"} /\ step'[u] = 0 /\ layer'[u] = 1
    BY <1>6 DEF LeaveJoin, AfterEpoch, NextEpoch
  <2> QED
    BY <2>1 DEF Rows
<1>7. ASSUME NEW t \in Trainers, Pull(t) PROVE Rows'
  <2>1. /\ pc[t] = "infer" /\ step[t] < Len(Split[t])
        /\ UNCHANGED <<epoch, step, layer, model, moments, tensor>>
        /\ pc' = [pc EXCEPT ![t] = "write"]
        /\ held' = [held EXCEPT ![t] = Computed(t)]
    BY <1>7 DEF Pull, Moves
  <2>2. held'[t] = NewRow(t, layer[t])
    BY <2>1, ComputedExact DEF TypeOK
  <2>3. \A u \in Trainers : \A l : NewRow(u, l)' = NewRow(u, l)
    BY <2>1 DEF NewRow, Value
  <2>4. \A u \in Trainers : /\ pc'[u] = IF u = t THEN "write" ELSE pc[u]
                            /\ u # t => held'[u] = held[u]
    BY <2>1 DEF TypeOK
  <2>5. ASSUME NEW u \in Trainers
        PROVE  /\ pc'[u] = "write" => step'[u] < Len(Split[u]) /\ held'[u] = NewRow(u, layer[u])
               /\ pc'[u] = "barrier" => step'[u] = Len(Split[u])
    BY <2>1, <2>2, <2>4 DEF Rows
  <2>6. \A u \in Trainers : (pc'[u] \in InferPlaces => pc[u] \in InferPlaces)
                            /\ (pc'[u] = "measure" => pc[u] = "measure")
    BY <2>1, <2>4 DEF InferPlaces
  <2> QED
    BY <2>1, <2>3, <2>5, <2>6 DEF Rows, Output
<1>8. ASSUME NEW t \in Trainers, Push(t) PROVE Rows'
  <2> DEFINE o == Output(layer[t])
  <2>1. /\ pc[t] = "write" /\ pc' = [pc EXCEPT ![t] = "infer"]
        /\ step' = [step EXCEPT ![t] = @ + 1]
        /\ UNCHANGED <<epoch, layer, model, moments, held>>
    BY <1>8 DEF Push, Moves
  <2>2. step[t] < Len(Split[t]) /\ held[t] = NewRow(t, layer[t])
    BY <2>1 DEF Rows
  <2>3. o \in Names
    BY DEF Output, Names
  <2>4. /\ \A n \in Nodes : tensor'[o][n] = IF n \in Batch(t) THEN NewRow(t, layer[t]) ELSE tensor[o][n]
        /\ \A x \in Names : x # o => tensor'[x] = tensor[x]
    BY <1>8, <2>2, <2>3 DEF Push, TypeOK
  <2>5. \A u \in Trainers : /\ pc[u] \in InferPlaces /\ pc'[u] \in InferPlaces
                            /\ layer[u] = layer[t] /\ \A l \in {1, 2} : NewRow(u, l) = NewRow(t, l)
    BY <2>1 DEF InStep, InferPlaces, NewRow, TypeOK
  <2>6. layer[t] \in {1, 2}
    BY <1>0 DEF TypeOK
  <2>7. ASSUME NEW u \in Trainers
        PROVE  /\ pc'[u] = "write" => step'[u] < Len(Split[u]) /\ held'[u] = NewRow(u, layer[u])
               /\ pc'[u] = "barrier" => step'[u] = Len(Split[u])
    BY <2>1 DEF Rows, TypeOK
  <2>8. ASSUME NEW u \in Trainers, NEW i \in 1..Len(Split[u]), i <= step'[u], NEW n \in Split[u][i]
        PROVE  tensor'[o][n] = NewRow(u, layer[u])
    <3>1. n \in Nodes
      BY TrainingAssumption, ElementOfSeq
    <3>2. CASE u = t /\ i = step[t] + 1
      BY <2>4, <3>1, <3>2 DEF Batch
    <3>3. CASE i <= step[u]
      <4>1. tensor[o][n] = NewRow(u, layer[u])
        BY <2>5, <3>3 DEF Rows
      <4> QED
        BY <2>4, <2>5, <2>6, <3>1, <4>1
    <3>4. step[u] \in Nat /\ (step'[u] = IF u = t THEN step[u] + 1 ELSE step[u])
      BY <2>1 DEF TypeOK
    <3>5. i \in Nat /\ i <= step'[u]
      BY <2>8, TrainingAssumption, LenProperties
    <3> QED
      BY <3>2, <3>3, <3>4, <3>5
  <2>9. ASSUME NEW u \in Trainers, layer[u] = 2, NEW n \in Nodes
        PROVE  tensor'["h"][n] = NewRow(u, 1)
    BY <1>0, <2>4, <2>5, <2>9 DEF Rows, Names
  <2>10. \A u \in Trainers : \A l : NewRow(u, l)' = NewRow(u, l)
    BY <2>1 DEF NewRow, Value
  <2> QED
    BY <2>1, <2>5, <2>7, <2>8, <2>9, <2>10 DEF Rows, InferPlaces, Output
<1>9. ASSUME NEW t \in Trainers, LayerDone(t) PROVE Rows'
  BY <1>9 DEF LayerDone, Moves, Rows, NewRow, InferPlaces, TypeOK, Output, Value
<1>10. CASE Barrier
  <2>1. \A u \in Trainers : pc[u] = "barrier" /\ step'[u] = 0
    BY <1>10 DEF Barrier
  <2>2. ASSUME NEW u \in Trainers, NEW n \in Nodes
        PROVE  tensor[Output(layer[u])][n] = NewRow(u, layer[u])
    <3>0. PICK t \in Trainers : \E i \in 1..Len(Split[t]) : n \in Split[t][i]
      BY SplitAssumption
    <3>1. PICK i \in 1..Len(Split[t]) : n \in Split[t][i]
      BY <3>0
    <3>2. step[t] = Len(Split[t]) /\ pc[t] \in InferPlaces
      BY <2>1 DEF Rows, InferPlaces
    <3>3. Split[t] \in Seq(SUBSET Nodes) /\ i <= step[t]
      BY <3>2, TrainingAssumption, LenProperties
    <3>4. tensor[Output(layer[t])][n] = NewRow(t, layer[t])
      BY <3>1, <3>2, <3>3 DEF Rows
    <3> QED
      BY <3>2, <3>4 DEF InStep, NewRow
  <2>3. \A u \in Trainers : layer[u] \in {1, 2} /\ model'[u] = model[u] /\ epoch'[u] = epoch[u]
    BY <1>0, <1>10 DEF Barrier, TypeOK
  <2>4. ASSUME NEW u \in Trainers, layer[u] = 1
        PROVE  /\ pc'[u] = "infer" /\ layer'[u] = 2
               /\ \A n \in Nodes : tensor'["h"][n] = NewRow(u, 1)'
    BY <1>0, <1>10, <2>2, <2>4 DEF Barrier, NewRow
  <2>5. ASSUME NEW u \in Trainers, layer[u] = 2
        PROVE  /\ pc'[u] = "measure"
               /\ \A n \in Nodes : tensor'["h_last"][n] = NewRow(u, 2)'
    BY <1>0, <1>10, <2>2, <2>5 DEF Barrier, NewRow
  <2> QED
    BY <2>1, <2>3, <2>4, <2>5 DEF Rows, InferPlaces
<1>11. ASSUME NEW t \in Trainers, Measure(t) PROVE Rows'
  BY <1>11, RowsKept DEF Measure, NextEpoch, Moves, InferPlaces, TypeOK
<1>12. CASE UNCHANGED vars
  BY <1>12 DEF vars, Rows, NewRow, InferPlaces, Output, Value
<1> QED
  BY <1>1, <1>2, <1>3, <1>4, <1>5, <1>6, <1>7, <1>8, <1>9, <1>10, <1>11, <1>12 DEF Next, Own

\* With two layers, the number the script starts from, every prediction that is measured
\* comes from rows of the same evaluation and the same parameters, however trainers
\* overtake each other within a layer.
THEOREM Exact ==
  ASSUME NumLayers <= 2
  PROVE  Spec => []InferenceExact
<1>1. Init => Rows
  BY DEF Init, Rows, InferPlaces
<1>2. TypeInv /\ InStep /\ Rows /\ [Next]_vars => Rows'
  BY RowsNext DEF RowsInv
<1>3. Rows => InferenceExact
  BY Outputs, TrainingAssumption DEF Rows, InferenceExact, NewRow
<1> QED
  BY <1>1, <1>2, <1>3, TypeInvAlways, InStepAlways, PTL DEF Spec

-----------------------------------------------------------------------------
(***************************************************************************)
(* Partition                                                               *)
(***************************************************************************)

(***************************************************************************)
(* Numbering a finite set along an order.                                  *)
(***************************************************************************)

\* The elements of a finite set, counted along a total order, get the numbers from 0 on.
LEMMA Ranks ==
  ASSUME NEW S, IsFiniteSet(S), NEW R, NEW rank,
         \A x \in S : <<x, x>> \notin R,
         \A x, y \in S : x = y \/ <<x, y>> \in R \/ <<y, x>> \in R,
         \A x, y, z \in S : <<x, y>> \in R /\ <<y, z>> \in R => <<x, z>> \in R,
         rank = [x \in S |-> Cardinality({m \in S : <<m, x>> \in R})]
  PROVE  /\ Cardinality(S) \in Nat
         /\ \A x \in S : rank[x] \in 0..(Cardinality(S) - 1)
         /\ \A x, y \in S : <<x, y>> \in R <=> rank[x] < rank[y]
         /\ \A i \in 0..(Cardinality(S) - 1) : \E x \in S : rank[x] = i
<1> DEFINE Below(x) == {m \in S : <<m, x>> \in R}
           N == Cardinality(S)
<1>1. N \in Nat
  BY FS_CardinalityType
<1>2. \A x \in S : IsFiniteSet(Below(x)) /\ Cardinality(Below(x)) \in 0..(N - 1)
  <2> TAKE x \in S
  <2>1. IsFiniteSet(S \ {x}) /\ Cardinality(S \ {x}) = N - 1
    BY FS_RemoveElement
  <2>2. Below(x) \subseteq S \ {x}
    OBVIOUS
  <2> HIDE DEF Below, N
  <2>3. IsFiniteSet(Below(x)) /\ Cardinality(Below(x)) <= N - 1
    BY <2>1, <2>2, FS_Subset
  <2>4. Cardinality(Below(x)) \in Nat
    BY <2>3, FS_CardinalityType
  <2> QED
    BY <1>1, <2>3, <2>4
<1>3. \A x, y \in S : <<x, y>> \in R => Cardinality(Below(x)) < Cardinality(Below(y))
  <2> SUFFICES ASSUME NEW x \in S, NEW y \in S, <<x, y>> \in R
               PROVE  Cardinality(Below(x)) < Cardinality(Below(y))
    OBVIOUS
  <2>1. Below(x) \subseteq Below(y) /\ x \in Below(y) /\ x \notin Below(x)
    OBVIOUS
  <2>2. /\ Cardinality(Below(x)) <= Cardinality(Below(y))
        /\ Cardinality(Below(y)) = Cardinality(Below(x)) => Below(y) = Below(x)
    BY <1>2, <2>1, FS_Subset
  <2> HIDE DEF Below
  <2> QED
    BY <1>2, <2>1, <2>2
<1>4. \A x \in S : rank[x] = Cardinality(Below(x))
  OBVIOUS
<1> HIDE DEF Below, N
<1>a. \A x \in S : rank[x] \in 0..(N - 1)
  BY <1>2, <1>4
<1>b. \A x, y \in S : <<x, y>> \in R => rank[x] < rank[y]
  BY <1>3, <1>4
<1>5. \A x, y \in S : <<x, y>> \in R <=> rank[x] < rank[y]
  <2> SUFFICES ASSUME NEW x \in S, NEW y \in S, rank[x] < rank[y], <<x, y>> \notin R
               PROVE  FALSE
    BY <1>b
  <2>1. x = y \/ rank[y] < rank[x]
    BY <1>b
  <2> QED
    BY <1>1, <1>a, <2>1
<1>6. rank \in Injection(S, 0..(N - 1))
  <2>1. rank \in [S -> 0..(N - 1)]
    BY <1>a
  <2>2. \A x, y \in S : rank[x] = rank[y] => x = y
    <3> SUFFICES ASSUME NEW x \in S, NEW y \in S, rank[x] = rank[y], x # y
                 PROVE  FALSE
      OBVIOUS
    <3>1. rank[x] < rank[y] \/ rank[y] < rank[x]
      BY <1>b
    <3>2. rank[x] \in Int /\ rank[y] \in Int
      BY <1>1, <1>a
    <3> QED
      BY <3>1, <3>2
  <2> QED
    BY <2>1, <2>2 DEF Injection, IsInjective
<1>7. IsFiniteSet(0..(N - 1)) /\ Cardinality(0..(N - 1)) = N
  BY <1>1, FS_Interval
<1>8. rank \in Surjection(S, 0..(N - 1))
  BY <1>6, <1>7, FS_Injection DEF N
<1> QED
  BY <1>1, <1>a, <1>5, <1>8 DEF Surjection, N

\* The same for numbers in their own order.
LEMMA NumberRanks ==
  ASSUME NEW S \in SUBSET Nat, IsFiniteSet(S)
  PROVE  /\ Cardinality(S) \in Nat
         /\ \A n \in S : Cardinality({m \in S : m < n}) \in 0..(Cardinality(S) - 1)
         /\ \A n, o \in S :
              n < o <=> Cardinality({m \in S : m < n}) < Cardinality({m \in S : m < o})
         /\ \A i \in 0..(Cardinality(S) - 1) : \E n \in S : Cardinality({m \in S : m < n}) = i
<1> DEFINE R == {pair \in S \X S : pair[1] < pair[2]}
           rank == [n \in S |-> Cardinality({m \in S : <<m, n>> \in R})]
           count(n) == Cardinality({m \in S : m < n})
<1>1. \A m, n \in S : <<m, n>> \in R <=> m < n
  OBVIOUS
<1>2. \A n \in S : {m \in S : <<m, n>> \in R} = {m \in S : m < n}
  BY <1>1
<1>3. \A n \in S : rank[n] = count(n)
  BY <1>2
<1>4. /\ \A x \in S : <<x, x>> \notin R
      /\ \A x, y \in S : x = y \/ <<x, y>> \in R \/ <<y, x>> \in R
      /\ \A x, y, z \in S : <<x, y>> \in R /\ <<y, z>> \in R => <<x, z>> \in R
  BY <1>1
<1> HIDE DEF R
<1>5. /\ Cardinality(S) \in Nat
      /\ \A x \in S : rank[x] \in 0..(Cardinality(S) - 1)
      /\ \A x, y \in S : <<x, y>> \in R <=> rank[x] < rank[y]
      /\ \A i \in 0..(Cardinality(S) - 1) : \E x \in S : rank[x] = i
  BY <1>4, Ranks
<1> HIDE DEF rank, count
<1>6. /\ \A n \in S : count(n) \in 0..(Cardinality(S) - 1)
      /\ \A n, o \in S : n < o <=> count(n) < count(o)
      /\ \A i \in 0..(Cardinality(S) - 1) : \E n \in S : count(n) = i
  <2>1. \A n \in S : count(n) \in 0..(Cardinality(S) - 1)
    BY <1>3, <1>5
  <2>2. \A n, o \in S : n < o <=> count(n) < count(o)
    <3> TAKE n, o \in S
    <3>1. rank[n] = count(n) /\ rank[o] = count(o)
      BY <1>3
    <3>2. n < o <=> <<n, o>> \in R
      BY <1>1
    <3>3. <<n, o>> \in R <=> rank[n] < rank[o]
      BY <1>5
    <3> QED
      BY <3>1, <3>2, <3>3
  <2>3. \A i \in 0..(Cardinality(S) - 1) : \E n \in S : count(n) = i
    BY <1>3, <1>5
  <2> QED
    BY <2>1, <2>2, <2>3
<1> QED
  BY <1>5, <1>6 DEF count

LEMMA LeastAndGreatest ==
  ASSUME NEW S \in SUBSET Nat, IsFiniteSet(S), S # {}
  PROVE  (\E i \in S : \A j \in S : i <= j) /\ (\E i \in S : \A j \in S : i >= j)
<1> DEFINE N == Cardinality(S)
           rank(n) == Cardinality({m \in S : m < n})
<1>1. /\ N \in Nat
      /\ \A n \in S : rank(n) \in 0..(N - 1)
      /\ \A n, o \in S : n < o <=> rank(n) < rank(o)
      /\ \A i \in 0..(N - 1) : \E n \in S : rank(n) = i
  BY NumberRanks
<1> HIDE DEF rank, N
<1>2. 0 \in 0..(N - 1) /\ N - 1 \in 0..(N - 1)
  <2>1. PICK n \in S : TRUE
    OBVIOUS
  <2>2. rank(n) \in 0..(N - 1)
    BY <1>1
  <2> QED
    BY <1>1, <2>2
<1>3. PICK least \in S, greatest \in S : rank(least) = 0 /\ rank(greatest) = N - 1
  BY <1>1, <1>2
<1>4. \A j \in S : ~(j < least) /\ ~(greatest < j)
  BY <1>1, <1>3
<1> QED
  BY <1>3, <1>4

-----------------------------------------------------------------------------
(***************************************************************************)
(* The graph and its numberings.                                           *)
(***************************************************************************)

LEMMA GraphIs ==
  ASSUME graph \in Graphs
  PROVE  /\ IsFiniteSet(GraphNodes) /\ Cardinality(GraphNodes) \in Nat
         /\ GraphNodes = 0..(Cardinality(GraphNodes) - 1)
         /\ GraphNodes \subseteq Nat
         /\ \A n \in GraphNodes : graph.ntype[n] \in Nat /\ graph.ntype[n] \in NTypes
         /\ NTypes \subseteq Nat
         /\ \A m, n \in GraphNodes : m <= n => graph.ntype[m] <= graph.ntype[n]
         /\ Len(graph.edges) \in Nat /\ Edges = 1..Len(graph.edges) /\ IsFiniteSet(Edges)
         /\ \A e \in Edges :
              /\ Source(e) \in GraphNodes /\ Destination(e) \in GraphNodes
              /\ EType(e) \in ETypes
              /\ EType(e) = <<graph.ntype[Source(e)], graph.ntype[Destination(e)]>>
<1> DEFINE N == Cardinality(GraphNodes)
<1>1. /\ IsFiniteSet(GraphNodes) /\ graph.ntype \in [0..(N - 1) -> Nat]
      /\ \A m, n \in GraphNodes : m <= n => graph.ntype[m] <= graph.ntype[n]
      /\ graph.edges \in Seq(GraphNodes \X GraphNodes)
  BY PartitionAssumption DEF IsGraph, GraphNodes
<1>2. N \in Nat
  BY <1>1, FS_CardinalityType
<1>3. GraphNodes = 0..(N - 1)
  BY <1>1 DEF GraphNodes
<1>4. Len(graph.edges) \in Nat /\ Edges = 1..Len(graph.edges)
  BY <1>1, LenProperties DEF Edges
<1>5. IsFiniteSet(Edges)
  BY <1>4, FS_Interval
<1>6. \A e \in Edges : graph.edges[e] \in GraphNodes \X GraphNodes
  BY <1>1, <1>4, ElementOfSeq
<1>7. \A n \in GraphNodes : graph.ntype[n] \in Nat /\ graph.ntype[n] \in NTypes
  BY <1>1, <1>3 DEF NTypes
<1>8. NTypes \subseteq Nat
  BY <1>7 DEF NTypes
<1>9. \A e \in Edges : Source(e) \in GraphNodes /\ Destination(e) \in GraphNodes
  BY <1>6 DEF Source, Destination
<1> HIDE DEF N
<1>10. GraphNodes \subseteq Nat
  BY <1>2, <1>3
<1>11. \A e \in Edges : /\ EType(e) \in ETypes
                        /\ EType(e) = <<graph.ntype[Source(e)], graph.ntype[Destination(e)]>>
  BY DEF ETypes, EType
<1> QED
  BY <1>1, <1>2, <1>3, <1>4, <1>5, <1>7, <1>8, <1>9, <1>10, <1>11 DEF N

\* The id of a node among those of its type is its own, and with one type the node itself.
LEMMA TypedIdsAre ==
  ASSUME graph \in Graphs, NEW n \in GraphNodes
  PROVE  /\ NodeAt(graph.ntype[n], TypedId(n)) = n
         /\ ~(Cardinality(NTypes) > 1) => TypedId(n) = n
<1> DEFINE type == graph.ntype[n]
           S == {m \in GraphNodes : graph.ntype[m] = type}
           count(m) == Cardinality({o \in S : o < m})
<1>1. IsFiniteSet(S) /\ S \in SUBSET Nat
  BY GraphIs, FS_Subset
<1>2. \A m \in S : TypedId(m) = count(m)
  <2> TAKE m \in S
  <2>1. {o \in GraphNodes : o < m /\ graph.ntype[o] = graph.ntype[m]} = {o \in S : o < m}
    OBVIOUS
  <2> QED
    BY <2>1 DEF TypedId
<1>3. /\ \A m \in S : count(m) \in 0..(Cardinality(S) - 1)
      /\ \A m, o \in S : m < o <=> count(m) < count(o)
  <2> HIDE DEF S
  <2> QED
    BY <1>1, NumberRanks
<1>4. n \in S
  OBVIOUS
<1>5. NodeAt(type, TypedId(n)) = n
  <2>1. \A m \in S : TypedId(m) = TypedId(n) => m = n
    <3> HIDE DEF S, count
    <3>1. \A m, o \in S : m < o <=> TypedId(m) < TypedId(o)
      BY <1>2, <1>3
    <3>2. \A m \in S : TypedId(m) \in Nat /\ m \in Nat
      BY <1>1, <1>2, <1>3
    <3> QED
      BY <1>4, <3>1, <3>2
  <2> QED
    BY <2>1 DEF NodeAt
<1>6. ASSUME ~(Cardinality(NTypes) > 1) PROVE TypedId(n) = n
  <2>1. graph.ntype \in Surjection(GraphNodes, NTypes)
    <3>1. DOMAIN graph.ntype = GraphNodes
      BY DEF GraphNodes
    <3>2. graph.ntype \in [GraphNodes -> NTypes]
      BY <3>1, GraphIs, PartitionAssumption DEF IsGraph, NTypes
    <3> QED
      BY <3>2 DEF Surjection, NTypes
  <2>2. IsFiniteSet(NTypes) /\ Cardinality(NTypes) \in Nat
    BY <2>1, GraphIs, FS_Surjection, FS_CardinalityType
  <2>3. Cardinality(NTypes) = 1
    BY <1>6, <2>2, GraphIs, FS_EmptySet
  <2>4. PICK one : NTypes = {one}
    BY <2>2, <2>3, FS_Singleton
  <2>5. \A m \in GraphNodes : graph.ntype[m] = graph.ntype[n]
    BY <2>4, GraphIs
  <2>6. {m \in GraphNodes : m < n /\ graph.ntype[m] = graph.ntype[n]} = 0..(n - 1)
    BY <2>5, GraphIs
  <2>7. n \in Nat
    BY GraphIs
  <2>8. Cardinality(0..(n - 1)) = n
    BY <2>7, FS_Interval
  <2> QED
    BY <2>6, <2>8 DEF TypedId
<1> QED
  BY <1>5, <1>6

\* So is the id of an edge, and with one type of edges it is the edge itself.
LEMMA TypedEdgeIdsAre ==
  ASSUME graph \in Graphs, NEW e \in Edges
  PROVE  /\ EdgeAt(EType(e), TypedEdgeId(e)) = e
         /\ IsHomogeneous => TypedEdgeId(e) = e - 1
<1> DEFINE type == EType(e)
           S == {f \in Edges : EType(f) = type}
           count(f) == Cardinality({g \in S : g < f})
<1>1. IsFiniteSet(S) /\ S \in SUBSET Nat /\ e \in S
  <2>1. IsFiniteSet(Edges) /\ Edges \subseteq Nat
    BY GraphIs
  <2> QED
    BY <2>1, FS_Subset
<1>2. \A f \in S : TypedEdgeId(f) = count(f)
  <2> TAKE f \in S
  <2>1. {g \in Edges : g < f /\ EType(g) = EType(f)} = {g \in S : g < f}
    OBVIOUS
  <2> QED
    BY <2>1 DEF TypedEdgeId
<1>3. \A f \in S : TypedEdgeId(f) = TypedEdgeId(e) => f = e
  <2> HIDE DEF S
  <2>1. /\ \A f \in S : count(f) \in 0..(Cardinality(S) - 1)
        /\ \A f, g \in S : f < g <=> count(f) < count(g)
    BY <1>1, NumberRanks
  <2> HIDE DEF count
  <2>2. \A f, g \in S : f < g <=> TypedEdgeId(f) < TypedEdgeId(g)
    BY <1>2, <2>1
  <2>3. \A f \in S : TypedEdgeId(f) \in Int /\ f \in Int
    BY <1>1, <1>2, <2>1
  <2> QED
    BY <1>1, <2>2, <2>3
<1>4. EdgeAt(type, TypedEdgeId(e)) = e
  BY <1>1, <1>3 DEF EdgeAt
<1>5. ASSUME IsHomogeneous PROVE TypedEdgeId(e) = e - 1
  <2>1. PICK one : ETypes = {one}
    <3>1. IsFiniteSet(ETypes)
      <4>1. [f \in Edges |-> EType(f)] \in Surjection(Edges, ETypes)
        BY DEF Surjection, ETypes
      <4> QED
        BY <4>1, GraphIs, FS_Surjection
    <3> QED
      BY <1>5, <3>1, FS_Singleton DEF IsHomogeneous
  <2>2. \A f \in Edges : EType(f) = EType(e)
    BY <2>1, GraphIs
  <2>3. {f \in Edges : f < e /\ EType(f) = EType(e)} = 1..(e - 1)
    BY <2>2, GraphIs
  <2>4. e \in Nat /\ 1 <= e
    BY GraphIs
  <2>5. Cardinality(1..(e - 1)) = e - 1
    BY <2>4, FS_Interval
  <2> QED
    BY <2>3, <2>5 DEF TypedEdgeId
<1> QED
  BY <1>4, <1>5

-----------------------------------------------------------------------------

\* What a run works on once it has assigned the nodes.
Assigned ==
    /\ graph \in Graphs /\ call \in Calls
    /\ node_parts \in [GraphNodes -> Parts]

LEMMA CallIs ==
  ASSUME call \in Calls
  PROVE  /\ call.num_parts \in Nat /\ 1 <= call.num_parts /\ call.num_parts <= MaxParts
         /\ MaxParts \in Nat /\ Parts = 0..(call.num_parts - 1) /\ Parts \subseteq Nat
         /\ call.trainers \in Nat /\ 1 <= call.trainers /\ call.reshuffle \in BOOLEAN
BY PartitionAssumption DEF Parts

\* The nodes of a part and type are enumerated, each once and in order.
LEMMA InnerNodesAre ==
  ASSUME Assigned, NEW p, NEW type, NEW s, s = InnerNodes(p, type)
  PROVE  /\ Len(s) \in Nat /\ DOMAIN s = 1..Len(s) /\ s \in Seq(Inner(p, type))
         /\ \A k \in DOMAIN s : s[k] \in Inner(p, type)
         /\ \A n \in Inner(p, type) : \E k \in DOMAIN s : s[k] = n
         /\ Inner(p, type) # {} =>
              /\ Head(s) \in Inner(p, type) /\ Last(s) \in Inner(p, type)
              /\ \A n \in Inner(p, type) : Head(s) <= n /\ n <= Last(s)
<1> DEFINE S == Inner(p, type)
           N == Cardinality(S)
           count(n) == Cardinality({m \in S : m < n})
<1>1. S \in SUBSET Nat /\ IsFiniteSet(S)
  BY GraphIs, FS_Subset DEF Assigned, Inner
<1>2. s = [k \in 1..N |-> CHOOSE n \in S : count(n) = k - 1]
  BY DEF InnerNodes
<1> HIDE DEF S
<1>3. /\ N \in Nat
      /\ \A n \in S : count(n) \in 0..(N - 1)
      /\ \A n, o \in S : n < o <=> count(n) < count(o)
      /\ \A i \in 0..(N - 1) : \E n \in S : count(n) = i
  BY <1>1, NumberRanks
<1> HIDE DEF N, count
<1>4. \A k \in 1..N : s[k] \in S /\ count(s[k]) = k - 1
  <2> TAKE k \in 1..N
  <2>1. k - 1 \in 0..(N - 1)
    BY <1>3
  <2>2. \E n \in S : count(n) = k - 1
    BY <1>3, <2>1
  <2> QED
    BY <1>2, <2>2
<1>5. s \in Seq(S) /\ Len(s) = N /\ DOMAIN s = 1..N
  <2>1. s \in [1..N -> S]
    BY <1>2, <1>4
  <2> QED
    BY <1>3, <2>1, SeqDef, LenProperties
<1>6. \A n \in S : \A k \in 1..N : count(n) = k - 1 => s[k] = n
  <2> SUFFICES ASSUME NEW n \in S, NEW k \in 1..N, count(n) = k - 1 PROVE s[k] = n
    OBVIOUS
  <2>1. s[k] \in S /\ count(s[k]) = count(n)
    BY <1>4
  <2>2. count(n) \in Int
    BY <1>3
  <2>3. ~(s[k] < n) /\ ~(n < s[k])
    BY <1>3, <2>1, <2>2
  <2>4. s[k] \in Nat /\ n \in Nat
    BY <1>1, <2>1
  <2> QED
    BY <2>3, <2>4
<1>7. \A n \in S : \E k \in 1..N : s[k] = n
  <2> TAKE n \in S
  <2>1. count(n) + 1 \in 1..N /\ count(n) = (count(n) + 1) - 1
    BY <1>3
  <2> QED
    BY <1>6, <2>1
<1>8. ASSUME S # {}
      PROVE  /\ Head(s) \in S /\ Last(s) \in S
             /\ \A n \in S : Head(s) <= n /\ n <= Last(s)
  <2>1. 1 \in 1..N /\ N \in 1..N
    <3>1. PICK n \in S : TRUE
      BY <1>8
    <3>2. PICK k \in 1..N : s[k] = n
      BY <1>7
    <3> QED
      BY <1>3, <3>2
  <2>2. Head(s) = s[1] /\ Last(s) = s[N]
    <3>1. s # <<>>
      BY <1>5, <2>1
    <3> QED
      BY <1>5, <3>1, HeadTailProperties DEF Last
  <2>3. count(s[1]) = 0 /\ count(s[N]) = N - 1 /\ s[1] \in S /\ s[N] \in S
    BY <1>4, <2>1
  <2>4. \A n \in S : s[1] <= n /\ n <= s[N]
    <3> TAKE n \in S
    <3>1. ~(count(n) < 0) /\ ~(N - 1 < count(n))
      BY <1>3
    <3>2. ~(n < s[1]) /\ ~(s[N] < n)
      BY <1>3, <2>3, <3>1
    <3>3. n \in Nat /\ s[1] \in Nat /\ s[N] \in Nat
      BY <1>1, <2>3
    <3> QED
      BY <3>2, <3>3
  <2> QED
    BY <2>2, <2>3, <2>4
<1> QED
  BY <1>3, <1>4, <1>5, <1>7, <1>8 DEF S

\* Keys are compared part by part, then type by type, then by the old ids.
LEMMA NodeKeys ==
  ASSUME NEW m, NEW n
  PROVE  Lower(NodeKey(m), NodeKey(n)) <=>
            \/ node_parts[m] < node_parts[n]
            \/ node_parts[m] = node_parts[n] /\ graph.ntype[m] < graph.ntype[n]
            \/ node_parts[m] = node_parts[n] /\ graph.ntype[m] = graph.ntype[n] /\ m < n
<1> DEFINE s == NodeKey(m)
           t == NodeKey(n)
<1>1. /\ DOMAIN s = {1, 2, 3}
      /\ s[1] = node_parts[m] /\ s[2] = graph.ntype[m] /\ s[3] = m
      /\ t[1] = node_parts[n] /\ t[2] = graph.ntype[n] /\ t[3] = n
  BY DEF NodeKey
<1>2. 1..(1-1) = {} /\ 1..(2-1) = {1} /\ 1..(3-1) = {1, 2}
  OBVIOUS
<1> HIDE DEF s, t
<1>3. Lower(s, t) <=>
            \/ s[1] < t[1]
            \/ s[1] = t[1] /\ s[2] < t[2]
            \/ s[1] = t[1] /\ s[2] = t[2] /\ s[3] < t[3]
  BY <1>1, <1>2 DEF Lower
<1> QED
  BY <1>1, <1>3 DEF s, t

LEMMA EdgeKeys ==
  ASSUME NEW e, NEW f
  PROVE  Lower(EdgeKey(e), EdgeKey(f)) <=>
            LET p == node_parts[Destination(e)]
                q == node_parts[Destination(f)]
            IN  \/ p < q
                \/ p = q /\ EType(e)[1] < EType(f)[1]
                \/ p = q /\ EType(e)[1] = EType(f)[1] /\ EType(e)[2] < EType(f)[2]
                \/ p = q /\ EType(e)[1] = EType(f)[1] /\ EType(e)[2] = EType(f)[2] /\ e < f
<1> DEFINE s == EdgeKey(e)
           t == EdgeKey(f)
<1>1. /\ DOMAIN s = {1, 2, 3, 4}
      /\ s[1] = node_parts[Destination(e)] /\ s[2] = EType(e)[1] /\ s[3] = EType(e)[2]
      /\ s[4] = e
      /\ t[1] = node_parts[Destination(f)] /\ t[2] = EType(f)[1] /\ t[3] = EType(f)[2]
      /\ t[4] = f
  BY DEF EdgeKey
<1>2. 1..(1-1) = {} /\ 1..(2-1) = {1} /\ 1..(3-1) = {1, 2} /\ 1..(4-1) = {1, 2, 3}
  OBVIOUS
<1> HIDE DEF s, t
<1>3. Lower(s, t) <=>
            \/ s[1] < t[1]
            \/ s[1] = t[1] /\ s[2] < t[2]
            \/ s[1] = t[1] /\ s[2] = t[2] /\ s[3] < t[3]
            \/ s[1] = t[1] /\ s[2] = t[2] /\ s[3] = t[3] /\ s[4] < t[4]
  BY <1>1, <1>2 DEF Lower
<1> QED
  BY <1>1, <1>3 DEF s, t

-----------------------------------------------------------------------------
\* The new ids.

\* With reshuffle, new ids of nodes are in the order of the keys, from 0 on.
LEMMA NewNodes ==
  ASSUME Assigned
  PROVE  /\ \A n \in GraphNodes : NewNode(n) \in Nat
         /\ call.reshuffle =>
              \A m, n \in GraphNodes :
                NewNode(m) < NewNode(n) <=>
                  \/ node_parts[m] < node_parts[n]
                  \/ node_parts[m] = node_parts[n] /\ graph.ntype[m] < graph.ntype[n]
                  \/ node_parts[m] = node_parts[n] /\ graph.ntype[m] = graph.ntype[n] /\ m < n
<1> DEFINE S == GraphNodes
           Before(m, n) ==
              \/ node_parts[m] < node_parts[n]
              \/ node_parts[m] = node_parts[n] /\ graph.ntype[m] < graph.ntype[n]
              \/ node_parts[m] = node_parts[n] /\ graph.ntype[m] = graph.ntype[n] /\ m < n
           R == {pair \in S \X S : Before(pair[1], pair[2])}
           rank == [n \in S |-> Cardinality({m \in S : <<m, n>> \in R})]
<1>1. \A n \in S : n \in Nat /\ node_parts[n] \in Nat /\ graph.ntype[n] \in Nat
  BY GraphIs, CallIs DEF Assigned
<1>2. /\ \A m \in S : ~Before(m, m)
      /\ \A m, n \in S : m = n \/ Before(m, n) \/ Before(n, m)
      /\ \A m, n, o \in S : Before(m, n) /\ Before(n, o) => Before(m, o)
  BY <1>1
<1> HIDE DEF Before
<1>3. \A m, n \in S : <<m, n>> \in R <=> Before(m, n)
  OBVIOUS
<1> HIDE DEF R
<1>4. IsFiniteSet(S)
  BY GraphIs DEF Assigned
<1> HIDE DEF S
<1>5. /\ Cardinality(S) \in Nat
      /\ \A n \in S : rank[n] \in 0..(Cardinality(S) - 1)
      /\ \A m, n \in S : <<m, n>> \in R <=> rank[m] < rank[n]
  <2>1. /\ \A x \in S : <<x, x>> \notin R
        /\ \A x, y \in S : x = y \/ <<x, y>> \in R \/ <<y, x>> \in R
        /\ \A x, y, z \in S : <<x, y>> \in R /\ <<y, z>> \in R => <<x, z>> \in R
    BY <1>2, <1>3
  <2> QED
    BY <1>4, <2>1, Ranks
<1>6. call.reshuffle => \A n \in S : rank[n] = NewNode(n)
  <2> SUFFICES ASSUME call.reshuffle, NEW n \in S PROVE rank[n] = NewNode(n)
    OBVIOUS
  <2>1. {m \in S : <<m, n>> \in R} = {m \in GraphNodes : Lower(NodeKey(m), NodeKey(n))}
    BY <1>3, NodeKeys DEF S, Before
  <2> QED
    BY <2>1 DEF NewNode
<1> HIDE DEF rank
<1>7. ASSUME call.reshuffle, NEW m \in S, NEW n \in S
      PROVE  NewNode(m) < NewNode(n) <=> Before(m, n)
  <2>1. <<m, n>> \in R <=> rank[m] < rank[n]
    BY <1>5
  <2>2. rank[m] = NewNode(m) /\ rank[n] = NewNode(n)
    BY <1>6, <1>7
  <2> QED
    BY <1>3, <2>1, <2>2
<1>8. \A n \in S : NewNode(n) \in Nat
  <2> TAKE n \in S
  <2>1. CASE call.reshuffle
    BY <1>5, <1>6, <2>1
  <2>2. CASE ~call.reshuffle
    BY <1>1, <2>2 DEF NewNode
  <2> QED
    BY <2>1, <2>2
<1> QED
  BY <1>7, <1>8 DEF S, Before

\* New ids of edges are a numbering of all edges, with reshuffle part by part.
LEMMA NewEdges ==
  ASSUME Assigned
  PROVE  /\ \A e \in Edges : NewEdge(e) \in 0..(Len(graph.edges) - 1)
         /\ \A i \in 0..(Len(graph.edges) - 1) : \E e \in Edges : NewEdge(e) = i
         /\ \A e, f \in Edges : NewEdge(e) = NewEdge(f) => e = f
         /\ call.reshuffle => \A e, f \in Edges :
              /\ node_parts[Destination(e)] < node_parts[Destination(f)] =>
                   NewEdge(e) < NewEdge(f)
              /\ NewEdge(e) <= NewEdge(f) =>
                   node_parts[Destination(e)] <= node_parts[Destination(f)]
<1> DEFINE S == Edges
           N == Len(graph.edges)
           part(e) == node_parts[Destination(e)]
           Before(e, f) ==
              \/ part(e) < part(f)
              \/ part(e) = part(f) /\ EType(e)[1] < EType(f)[1]
              \/ part(e) = part(f) /\ EType(e)[1] = EType(f)[1] /\ EType(e)[2] < EType(f)[2]
              \/ part(e) = part(f) /\ EType(e)[1] = EType(f)[1] /\ EType(e)[2] = EType(f)[2]
                   /\ e < f
           R == {pair \in S \X S : Before(pair[1], pair[2])}
           rank == [f \in S |-> Cardinality({e \in S : <<e, f>> \in R})]
<1>1. \A e \in S : e \in Nat /\ part(e) \in Nat /\ EType(e)[1] \in Nat /\ EType(e)[2] \in Nat
  <2> TAKE e \in S
  <2>1. e \in Nat /\ Source(e) \in GraphNodes /\ Destination(e) \in GraphNodes
    BY GraphIs DEF Assigned
  <2>2. part(e) \in Nat
    BY <2>1, CallIs DEF Assigned
  <2>3. EType(e)[1] = graph.ntype[Source(e)] /\ EType(e)[2] = graph.ntype[Destination(e)]
    BY DEF EType
  <2> QED
    BY <2>1, <2>2, <2>3, GraphIs DEF Assigned
<1> HIDE DEF part
<1>2. /\ \A e \in S : ~Before(e, e)
      /\ \A e, f \in S : e = f \/ Before(e, f) \/ Before(f, e)
      /\ \A e, f, g \in S : Before(e, f) /\ Before(f, g) => Before(e, g)
  BY <1>1
<1>3. \A e, f \in S : part(e) < part(f) => Before(e, f)
  OBVIOUS
<1>4. \A e, f \in S : Before(e, f) => part(e) <= part(f)
  BY <1>1
<1> HIDE DEF Before
<1>5. \A e, f \in S : <<e, f>> \in R <=> Before(e, f)
  OBVIOUS
<1> HIDE DEF R
<1>6. IsFiniteSet(S) /\ Cardinality(S) = N /\ N \in Nat /\ S = 1..N
  <2>1. IsFiniteSet(Edges) /\ Len(graph.edges) \in Nat /\ Edges = 1..Len(graph.edges)
    BY GraphIs DEF Assigned
  <2>2. \A n \in Nat : Cardinality(1..n) = n
    BY FS_Interval
  <2> QED
    BY <2>1, <2>2
<1> HIDE DEF S, N
<1>7. /\ \A e \in S : rank[e] \in 0..(N - 1)
      /\ \A e, f \in S : <<e, f>> \in R <=> rank[e] < rank[f]
      /\ \A i \in 0..(N - 1) : \E e \in S : rank[e] = i
  <2>1. /\ \A x \in S : <<x, x>> \notin R
        /\ \A x, y \in S : x = y \/ <<x, y>> \in R \/ <<y, x>> \in R
        /\ \A x, y, z \in S : <<x, y>> \in R /\ <<y, z>> \in R => <<x, z>> \in R
    BY <1>2, <1>5
  <2>2. /\ \A x \in S : rank[x] \in 0..(Cardinality(S) - 1)
        /\ \A x, y \in S : <<x, y>> \in R <=> rank[x] < rank[y]
        /\ \A i \in 0..(Cardinality(S) - 1) : \E x \in S : rank[x] = i
    BY <1>6, <2>1, Ranks, ZenonT(40)
  <2> QED
    BY <1>6, <2>2
<1>8. call.reshuffle => \A e \in S : rank[e] = NewEdge(e)
  <2> SUFFICES ASSUME call.reshuffle, NEW f \in S PROVE rank[f] = NewEdge(f)
    OBVIOUS
  <2>1. \A e \in S : Lower(EdgeKey(e), EdgeKey(f)) <=> Before(e, f)
    BY EdgeKeys DEF Before, part
  <2>2. {e \in S : <<e, f>> \in R} = {e \in Edges : Lower(EdgeKey(e), EdgeKey(f))}
    BY <1>5, <2>1 DEF S
  <2> QED
    BY <2>2 DEF NewEdge
<1> HIDE DEF rank
<1>9. CASE call.reshuffle
  <2>1. \A e \in S : NewEdge(e) = rank[e]
    BY <1>8, <1>9
  <2>2. \A e, f \in S : Before(e, f) <=> NewEdge(e) < NewEdge(f)
    <3> TAKE e, f \in S
    <3>1. <<e, f>> \in R <=> rank[e] < rank[f]
      BY <1>7
    <3> QED
      BY <1>5, <2>1, <3>1
  <2>3. \A e \in S : NewEdge(e) \in 0..(N - 1)
    BY <1>7, <2>1
  <2>4. \A i \in 0..(N - 1) : \E e \in S : NewEdge(e) = i
    BY <1>7, <2>1
  <2>5. ASSUME NEW e \in S, NEW f \in S, NewEdge(e) = NewEdge(f) PROVE e = f
    <3>1. ~(NewEdge(e) < NewEdge(f)) /\ ~(NewEdge(f) < NewEdge(e))
      BY <1>6, <2>3, <2>5
    <3> QED
      BY <1>2, <2>2, <3>1
  <2>6. \A e, f \in S : part(e) < part(f) => NewEdge(e) < NewEdge(f)
    BY <1>3, <2>2
  <2>7. ASSUME NEW e \in S, NEW f \in S, NewEdge(e) <= NewEdge(f)
        PROVE  part(e) <= part(f)
    <3>1. ~(NewEdge(f) < NewEdge(e))
      BY <1>6, <2>3, <2>7
    <3>2. ~(part(f) < part(e))
      BY <2>6, <3>1
    <3>3. part(e) \in Nat /\ part(f) \in Nat
      BY <1>1
    <3> QED
      BY <3>2, <3>3
  <2> QED
    BY <2>3, <2>4, <2>5, <2>6, <2>7 DEF S, N, part
<1>10. CASE ~call.reshuffle
  <2>1. \A e \in S : NewEdge(e) = e - 1
    BY <1>10 DEF NewEdge
  <2>2. \A e \in S : NewEdge(e) \in 0..(N - 1)
    BY <1>6, <2>1
  <2>3. \A i \in 0..(N - 1) : \E e \in S : NewEdge(e) = i
    <3> TAKE i \in 0..(N - 1)
    <3>1. i + 1 \in S /\ (i + 1) - 1 = i
      BY <1>6
    <3> QED
      BY <2>1, <3>1
  <2>4. \A e, f \in S : NewEdge(e) = NewEdge(f) => e = f
    BY <1>6, <2>1
  <2> QED
    BY <1>10, <2>2, <2>3, <2>4 DEF S, N
<1> QED
  BY <1>9, <1>10

-----------------------------------------------------------------------------
(***************************************************************************)
(* What is saved.                                                          *)
(***************************************************************************)

\* The range of a part and type holds the new ids of its nodes, and none of another part.
LEMMA NodeRanges ==
  ASSUME Assigned, Splittable, call.reshuffle,
         NEW p \in Parts, NEW type \in NTypes, NEW n \in GraphNodes
  PROVE  /\ n \in Inner(p, type) =>
              NodeRange(p, type)[1] <= NewNode(n) /\ NewNode(n) < NodeRange(p, type)[2]
         /\ NodeRange(p, type)[1] <= NewNode(n) /\ NewNode(n) < NodeRange(p, type)[2] =>
              node_parts[n] = p
<1> DEFINE s == InnerNodes(p, type)
           first == Head(s)
           last == Last(s)
<1>1. Inner(p, type) # {}
  BY DEF Splittable
<1>2. /\ first \in Inner(p, type) /\ last \in Inner(p, type)
      /\ \A o \in Inner(p, type) : first <= o /\ o <= last
  BY <1>1, InnerNodesAre
<1>3. NodeRange(p, type) = <<NewNode(first), NewNode(last) + 1>>
  BY DEF NodeRange
<1> HIDE DEF first, last
<1>4. /\ first \in GraphNodes /\ node_parts[first] = p /\ graph.ntype[first] = type
      /\ last \in GraphNodes /\ node_parts[last] = p /\ graph.ntype[last] = type
  BY <1>2 DEF Inner
<1>5. \A o \in GraphNodes : NewNode(o) \in Nat /\ o \in Nat /\ node_parts[o] \in Nat
  BY NewNodes, GraphIs, CallIs DEF Assigned
<1>6. type \in Nat
  BY GraphIs DEF Assigned
<1>7. \A l, o \in GraphNodes :
        NewNode(l) < NewNode(o) <=>
          \/ node_parts[l] < node_parts[o]
          \/ node_parts[l] = node_parts[o] /\ graph.ntype[l] < graph.ntype[o]
          \/ node_parts[l] = node_parts[o] /\ graph.ntype[l] = graph.ntype[o] /\ l < o
  BY NewNodes
<1>8. ASSUME n \in Inner(p, type) PROVE NewNode(first) <= NewNode(n) /\ NewNode(n) <= NewNode(last)
  <2>1. node_parts[n] = p /\ graph.ntype[n] = type /\ first <= n /\ n <= last
    BY <1>2, <1>8 DEF Inner
  <2>2. ~(NewNode(n) < NewNode(first))
    BY <1>4, <1>5, <1>6, <1>7, <2>1
  <2>3. ~(NewNode(last) < NewNode(n))
    BY <1>4, <1>5, <1>6, <1>7, <2>1
  <2> QED
    BY <1>4, <1>5, <2>2, <2>3
<1>9. ASSUME NewNode(first) <= NewNode(n), NewNode(n) <= NewNode(last) PROVE node_parts[n] = p
  <2>1. ~(NewNode(n) < NewNode(first)) /\ ~(NewNode(last) < NewNode(n))
    BY <1>4, <1>5, <1>9
  <2>2. ~(node_parts[n] < p) /\ ~(p < node_parts[n])
    BY <1>4, <1>7, <2>1
  <2> QED
    BY <1>4, <1>5, <2>2
<1> QED
  BY <1>3, <1>4, <1>5, <1>8, <1>9

LEMMA EdgeRanges ==
  ASSUME Assigned, Splittable, call.reshuffle,
         NEW p \in Parts, NEW type \in ETypes, NEW e \in Edges
  PROVE  /\ e \in InnerEdges(p, type) =>
              EdgeRange(p, type)[1] <= NewEdge(e) /\ NewEdge(e) < EdgeRange(p, type)[2]
         /\ EdgeRange(p, type)[1] <= NewEdge(e) /\ NewEdge(e) < EdgeRange(p, type)[2] =>
              node_parts[Destination(e)] = p
<1> DEFINE ids == {NewEdge(f) : f \in InnerEdges(p, type)}
           least == CHOOSE i \in ids : \A j \in ids : i <= j
           greatest == CHOOSE i \in ids : \A j \in ids : i >= j
<1>1. \A f \in InnerEdges(p, type) : f \in Edges /\ node_parts[Destination(f)] = p
  BY DEF InnerEdges, PartEdges
<1>2. \A f \in Edges : NewEdge(f) \in 0..(Len(graph.edges) - 1)
  BY NewEdges
<1>3. Len(graph.edges) \in Nat
  BY GraphIs DEF Assigned
<1>4. ids \subseteq 0..(Len(graph.edges) - 1)
  BY <1>1, <1>2
<1>5. IsFiniteSet(ids) /\ ids \in SUBSET Nat
  <2>1. IsFiniteSet(0..(Len(graph.edges) - 1))
    BY <1>3, FS_Interval
  <2> HIDE DEF ids
  <2>2. IsFiniteSet(ids)
    BY <1>4, <2>1, FS_Subset
  <2>3. 0..(Len(graph.edges) - 1) \subseteq Nat
    BY <1>3
  <2> QED
    BY <1>4, <2>2, <2>3
<1>6. ids # {}
  BY DEF Splittable
<1>7. EdgeRange(p, type) = <<least, greatest + 1>>
  BY DEF EdgeRange
<1> HIDE DEF ids
<1>8. /\ least \in ids /\ \A j \in ids : least <= j
      /\ greatest \in ids /\ \A j \in ids : greatest >= j
  BY <1>5, <1>6, LeastAndGreatest
<1> HIDE DEF least, greatest
<1>9. PICK f \in InnerEdges(p, type), g \in InnerEdges(p, type) :
        least = NewEdge(f) /\ greatest = NewEdge(g)
  BY <1>8 DEF ids
<1>10. least \in Nat /\ greatest \in Nat /\ NewEdge(e) \in Nat
  BY <1>2, <1>3, <1>5, <1>8
<1>11. ASSUME e \in InnerEdges(p, type) PROVE least <= NewEdge(e) /\ NewEdge(e) <= greatest
  <2>1. NewEdge(e) \in ids
    BY <1>11 DEF ids
  <2> QED
    BY <1>8, <1>10, <2>1
<1>12. ASSUME least <= NewEdge(e), NewEdge(e) <= greatest
       PROVE  node_parts[Destination(e)] = p
  <2>1. p <= node_parts[Destination(e)] /\ node_parts[Destination(e)] <= p
    BY <1>1, <1>9, <1>12, NewEdges
  <2>2. node_parts[Destination(e)] \in Nat /\ p \in Nat
    BY GraphIs, CallIs DEF Assigned
  <2> QED
    BY <2>1, <2>2
<1> QED
  BY <1>7, <1>10, <1>11, <1>12

\* The features that are saved with a part are those of its nodes, in their order.
LEMMA RowsFollow ==
  ASSUME Assigned, NEW p, NEW type \in NTypes
  PROVE  NodeFeats(p)[type] =
            [k \in DOMAIN InnerNodes(p, type) |-> Row(InnerNodes(p, type)[k])]
<1> DEFINE s == InnerNodes(p, type)
           local == LocalNodes(p, type)
<1>1. \A k \in DOMAIN s : s[k] \in GraphNodes /\ graph.ntype[s[k]] = type
  <2>1. \A k \in DOMAIN s : s[k] \in Inner(p, type)
    BY InnerNodesAre
  <2> HIDE DEF s
  <2> QED
    BY <2>1 DEF Inner
<1>2. /\ DOMAIN local = DOMAIN s
      /\ \A k \in DOMAIN s : local[k] = IF Cardinality(NTypes) > 1 THEN TypedId(s[k]) ELSE s[k]
  BY DEF LocalNodes
<1>3. NodeFeats(p)[type] = [k \in DOMAIN local |-> Row(NodeAt(type, local[k]))]
  BY DEF NodeFeats
<1> HIDE DEF s, local
<1>4. \A k \in DOMAIN s : NodeAt(type, local[k]) = s[k]
  <2> TAKE k \in DOMAIN s
  <2>1. NodeAt(type, TypedId(s[k])) = s[k]
    BY <1>1, TypedIdsAre DEF Assigned
  <2>2. ~(Cardinality(NTypes) > 1) => TypedId(s[k]) = s[k]
    BY <1>1, TypedIdsAre DEF Assigned
  <2> QED
    BY <1>2, <2>1, <2>2
<1> QED
  BY <1>2, <1>3, <1>4 DEF s

\* And those of its edges.
LEMMA EdgeRowsAre ==
  ASSUME Assigned, NEW p, NEW type \in ETypes
  PROVE  EdgeFeats(p)[type] = [e \in InnerEdges(p, type) |-> EdgeRow(e)]
<1>1. \A e \in InnerEdges(p, type) : EdgeAt(type, LocalEdge(e)) = e
  <2> TAKE e \in InnerEdges(p, type)
  <2>1. e \in Edges /\ EType(e) = type
    BY DEF InnerEdges, PartEdges
  <2>2. LocalEdge(e) = TypedEdgeId(e)
    BY <2>1, TypedEdgeIdsAre DEF LocalEdge, Assigned
  <2> QED
    BY <2>1, <2>2, TypedEdgeIdsAre DEF Assigned
<1> QED
  BY <1>1 DEF EdgeFeats

-----------------------------------------------------------------------------
(***************************************************************************)
(* The inductive invariant: how far the run is, and what it has written.   *)
(***************************************************************************)

MapPlaces  == {"node_map", "edge_map"}
PartPlaces == {"node_feat", "edge_feat", "graph"}
Saving     == {"done"} \cup WritePlaces
Stages     == {"idle", "assign", "split", "dead"} \cup Saving

PartitionTypeOK ==
    /\ graph \in Graphs /\ call \in Calls /\ stage \in Stages
    /\ run \in Nat /\ part_id \in Nat /\ named \in 0..MaxParts
    /\ DOMAIN saved = Files /\ DOMAIN written = Files /\ torn \subseteq Files
    /\ \A f \in Files : written[f] \in 0..run

Progress ==
    /\ stage \in {"assign", "split"} \cup MapPlaces => part_id = 0
    /\ stage \in MapPlaces => ~call.reshuffle
    /\ stage \in PartPlaces => part_id < call.num_parts
    /\ stage \in {"config", "done"} => part_id = call.num_parts
    /\ stage # "done" => ~Loadable

OfThisRun(f) == written[f] = run /\ f \notin torn

\* The files of the parts before part_id are whole, and of part_id those before the
\* one that is to be written.
PartsInv ==
    stage \in Saving =>
        /\ \A p \in 0..(part_id - 1) : \A f \in PartFiles(p) : OfThisRun(f)
        /\ stage \in {"edge_feat", "graph"} => OfThisRun(<<"node_feat", part_id>>)
        /\ stage = "graph" => OfThisRun(<<"edge_feat", part_id>>)

\* What a configuration names is of its run, or has been written over by a later one.
NamedInv ==
    Readable =>
        \A p \in 0..(named - 1) : \A f \in PartFiles(p) :
            \/ written[f] > written[Config]
            \/ written[f] = written[Config] /\ f \notin torn

FilesInv == PartitionTypeOK /\ Progress /\ PartsInv /\ NamedInv

LEMMA FilesAre ==
  /\ \A p \in 0..(MaxParts - 1) : PartFiles(p) \subseteq Files
  /\ <<"node_map", 0>> \in Files /\ <<"edge_map", 0>> \in Files /\ Config \in Files
<1>1. \A p \in 0..(MaxParts - 1) : PartFiles(p) \subseteq Files
  <2> HIDE DEF PartFiles
  <2> QED
    BY DEF Files
<1>2. MapFiles \cup {Config} \subseteq Files
  BY DEF Files
<1> QED
  BY <1>1, <1>2 DEF MapFiles

\* A file that is written in full.
LEMMA Writes ==
  ASSUME PartitionTypeOK, NEW file \in Files, NEW content, Write(file, content), run' = run
  PROVE  /\ DOMAIN saved' = Files /\ DOMAIN written' = Files /\ torn' \subseteq Files
         /\ \A f \in Files : written'[f] \in 0..run'
         /\ saved'[file] = content
         /\ \A f \in Files : f # file => saved'[f] = saved[f] /\ written'[f] = written[f]
         /\ \A f : f # file => (f \in torn' <=> f \in torn)
         /\ OfThisRun(file)'
BY DEF PartitionTypeOK, Write, OfThisRun

LEMMA FilesInvInit == PartitionInit => FilesInv
<1> SUFFICES ASSUME PartitionInit PROVE FilesInv
  OBVIOUS
<1>1. PartitionTypeOK
  BY PartitionAssumption DEF PartitionInit, PartitionTypeOK, Stages
<1>2. written[Config] = 0
  BY FilesAre DEF PartitionInit
<1>3. Progress
  BY <1>2 DEF PartitionInit, Progress, MapPlaces, PartPlaces, Loadable, Readable
<1>4. PartsInv /\ NamedInv
  BY <1>2 DEF PartitionInit, PartsInv, NamedInv, Saving, WritePlaces, Readable
<1> QED
  BY <1>1, <1>3, <1>4 DEF FilesInv

\* The steps that touch no file.
LEMMA FilesInvKept ==
  ASSUME FilesInv, stage \notin Saving,
         graph' \in Graphs, call' \in Calls, run' = run, part_id' = part_id,
         UNCHANGED <<saved, written, torn, named>>,
         stage' \in {"split", "dead"} \cup MapPlaces \cup {"node_feat"},
         stage' # "dead" => stage \in {"assign", "split"} /\ call' = call,
         stage' \in MapPlaces => ~call.reshuffle
  PROVE  FilesInv'
<1> USE DEF FilesInv, Stages, Saving, WritePlaces, MapPlaces, PartPlaces
<1>1. PartitionTypeOK'
  BY DEF PartitionTypeOK
<1>2. ~Loadable'
  BY DEF Progress, Loadable, Readable
<1>3. stage' = "dead" \/ part_id' = 0
  BY DEF Progress
<1>4. Progress'
  <2>1. 0 < call.num_parts
    BY CallIs DEF PartitionTypeOK
  <2> QED
    BY <1>2, <1>3, <2>1 DEF Progress
<1>5. PartsInv'
  BY <1>3 DEF PartsInv
<1>6. NamedInv'
  BY DEF NamedInv, Readable
<1> QED
  BY <1>1, <1>4, <1>5, <1>6

\* The part that is saved.
LEMMA PartAtHand ==
  ASSUME FilesInv, stage \in PartPlaces
  PROVE  /\ part_id \in 0..(MaxParts - 1) /\ part_id < call.num_parts /\ part_id \in Parts
         /\ PartFiles(part_id) \subseteq Files
         /\ \A p \in 0..(part_id - 1) : <<"node_feat", part_id>> \notin PartFiles(p)
         /\ \A p \in 0..(part_id - 1) : <<"edge_feat", part_id>> \notin PartFiles(p)
         /\ \A p \in 0..(part_id - 1) : <<"graph", part_id>> \notin PartFiles(p)
<1>1. call \in Calls /\ part_id \in Nat /\ part_id < call.num_parts
  BY DEF FilesInv, PartitionTypeOK, Progress
<1>2. part_id \in 0..(MaxParts - 1) /\ part_id \in Parts
  BY <1>1, CallIs
<1>3. \A p \in 0..(part_id - 1) : p # part_id
  BY <1>1
<1> QED
  BY <1>1, <1>2, <1>3, FilesAre DEF PartFiles

\* A step that writes a file other than the configuration.
LEMMA NamedKept ==
  ASSUME FilesInv, stage # "done", NEW file \in Files, file # Config,
         written'[file] = run, file \notin torn',
         \A f \in Files : f # file => written'[f] = written[f],
         \A f : f # file => (f \in torn' <=> f \in torn),
         run' = run, named' = named
  PROVE  NamedInv' /\ ~Loadable'
<1>1. /\ written'[Config] = written[Config] /\ (Config \in torn' <=> Config \in torn)
      /\ written[Config] \in 0..run
  BY FilesAre DEF FilesInv, PartitionTypeOK
<1>2. ~Loadable'
  BY <1>1 DEF FilesInv, Progress, Loadable, Readable
<1>3. ASSUME Readable' PROVE Readable /\ written[Config] < run
  <2>1. Readable
    BY <1>1, <1>3 DEF Readable
  <2>2. written[Config] # run
    BY <2>1 DEF FilesInv, Progress, Loadable
  <2>3. run \in Nat
    BY DEF FilesInv, PartitionTypeOK
  <2> QED
    BY <1>1, <2>1, <2>2, <2>3
<1>4. ASSUME Readable', NEW p \in 0..(named - 1), NEW f \in PartFiles(p)
      PROVE  \/ written'[f] > written'[Config]
             \/ written'[f] = written'[Config] /\ f \notin torn'
  <2>1. named \in 0..MaxParts /\ MaxParts \in Nat
    BY PartitionAssumption DEF FilesInv, PartitionTypeOK
  <2>2. f \in Files
    BY <2>1, FilesAre
  <2>3. CASE f = file
    BY <1>1, <1>3, <1>4, <2>3
  <2>4. CASE f # file
    BY <1>1, <1>3, <1>4, <2>2, <2>4 DEF FilesInv, NamedInv
  <2> QED
    BY <2>3, <2>4
<1> QED
  BY <1>2, <1>4 DEF NamedInv

LEMMA FilesInvStart == FilesInv /\ Start => FilesInv'
<1> SUFFICES ASSUME FilesInv, Start PROVE FilesInv'
  OBVIOUS
<1> USE DEF FilesInv, Start
<1>1. run \in Nat /\ run' = run + 1
  BY DEF PartitionTypeOK
<1>2. PartitionTypeOK'
  BY <1>1 DEF PartitionTypeOK, Stages
<1>3. written[Config] \in 0..run
  BY FilesAre DEF PartitionTypeOK
<1>4. ~Loadable'
  BY <1>1, <1>3 DEF Loadable
<1>5. Progress'
  BY <1>4 DEF Progress, MapPlaces, PartPlaces
<1>6. PartsInv' /\ NamedInv'
  BY DEF PartsInv, NamedInv, Readable, Saving, WritePlaces
<1> QED
  BY <1>2, <1>5, <1>6

LEMMA FilesInvCrash == FilesInv /\ Crash => FilesInv'
<1> SUFFICES ASSUME FilesInv, Crash PROVE FilesInv'
  OBVIOUS
<1>0. /\ stage # "done" /\ stage' = "dead"
      /\ UNCHANGED <<graph, call, run, part_id, saved, named>>
  BY DEF Crash, inputs
<1>1. CASE UNCHANGED <<written, torn>>
  <2> USE <1>0, <1>1 DEF FilesInv
  <2>1. PartitionTypeOK'
    BY DEF PartitionTypeOK, Stages
  <2>2. Progress'
    BY DEF Progress, MapPlaces, PartPlaces, Loadable, Readable
  <2>3. PartsInv' /\ NamedInv'
    BY DEF PartsInv, NamedInv, Readable, Saving, WritePlaces
  <2> QED
    BY <2>1, <2>2, <2>3
<1>2. CASE /\ stage \in WritePlaces
           /\ written' = [written EXCEPT ![FileOf] = run]
           /\ torn' = torn \cup {FileOf}
  <2>1. FileOf \in Files
    BY <1>2, PartAtHand, FilesAre DEF FileOf, WritePlaces, PartPlaces, PartFiles, Config
  <2>2. /\ DOMAIN written' = Files /\ written'[FileOf] = run
        /\ \A f \in Files : f # FileOf => written'[f] = written[f]
    BY <1>2, <2>1 DEF FilesInv, PartitionTypeOK
  <2>3. PartitionTypeOK'
    BY <1>0, <1>2, <2>1, <2>2 DEF FilesInv, PartitionTypeOK, Stages
  <2>4. /\ ~Loadable'
        /\ Readable' => Readable /\ written[Config] < run /\ written'[Config] = written[Config]
    <3>1. written[Config] \in 0..run /\ run \in Nat
      BY FilesAre DEF FilesInv, PartitionTypeOK
    <3>2. Readable => written[Config] # run
      BY <1>0 DEF FilesInv, Progress, Loadable
    <3>3. FileOf # Config => written'[Config] = written[Config]
      BY <2>2, FilesAre
    <3> QED
      BY <1>0, <1>2, <3>1, <3>2, <3>3 DEF Readable, Loadable
  <2>5. Progress' /\ PartsInv'
    BY <1>0, <2>4 DEF Progress, MapPlaces, PartPlaces, PartsInv, Saving, WritePlaces
  <2>6. NamedInv'
    <3> SUFFICES ASSUME Readable', NEW p \in 0..(named - 1), NEW f \in PartFiles(p)
                 PROVE  \/ written'[f] > written'[Config]
                        \/ written'[f] = written'[Config] /\ f \notin torn'
      BY <1>0 DEF NamedInv
    <3>1. named \in 0..MaxParts /\ MaxParts \in Nat
      BY PartitionAssumption DEF FilesInv, PartitionTypeOK
    <3>2. f \in Files
      BY <3>1, FilesAre
    <3>3. run \in Nat /\ written[Config] \in 0..run
      BY FilesAre DEF FilesInv, PartitionTypeOK
    <3> QED
      BY <1>2, <2>2, <2>4, <3>2, <3>3 DEF FilesInv, NamedInv
  <2> QED
    BY <2>3, <2>5, <2>6 DEF FilesInv
<1> QED
  BY <1>1, <1>2 DEF Crash

\* One of the files of a part, or a map, is saved.
LEMMA FilesInvSave ==
  FilesInv /\ (SaveNodeMap \/ SaveEdgeMap \/ SaveNodeFeats \/ SaveEdgeFeats \/ SaveGraph)
    => FilesInv'
<1> SUFFICES ASSUME FilesInv,
                    SaveNodeMap \/ SaveEdgeMap \/ SaveNodeFeats \/ SaveEdgeFeats \/ SaveGraph
             PROVE  FilesInv'
  OBVIOUS
<1> DEFINE file == FileOf
           Now(f) == written'[f] = run /\ f \notin torn'
<1>1. /\ stage \in MapPlaces \cup PartPlaces /\ stage # "done"
      /\ graph' = graph /\ call' = call /\ run' = run /\ named' = named
      /\ \E content : Write(file, content)
  BY DEF SaveNodeMap, SaveEdgeMap, SaveNodeFeats, SaveEdgeFeats, SaveGraph, Goes, inputs,
         FileOf, MapPlaces, PartPlaces
<1>2. /\ graph \in Graphs /\ call \in Calls /\ run \in Nat /\ part_id \in Nat
      /\ named \in 0..MaxParts /\ call.num_parts \in Nat /\ 1 <= call.num_parts
  BY CallIs DEF FilesInv, PartitionTypeOK
<1>3. file \in Files /\ file # Config
  BY <1>1, PartAtHand, FilesAre
     DEF FileOf, MapPlaces, PartPlaces, PartFiles, Config
<1> HIDE DEF file
<1>4. /\ DOMAIN saved' = Files /\ DOMAIN written' = Files /\ torn' \subseteq Files
      /\ \A f \in Files : written'[f] \in 0..run'
      /\ \A f \in Files : f # file => written'[f] = written[f]
      /\ \A f : f # file => (f \in torn' <=> f \in torn)
      /\ written'[file] = run /\ file \notin torn'
  BY <1>1, <1>3, Writes DEF FilesInv, OfThisRun
<1>5. NamedInv' /\ ~Loadable'
  BY <1>1, <1>3, <1>4, NamedKept
<1>6. CASE SaveNodeMap \/ SaveEdgeMap
  <2>1. /\ stage \in MapPlaces /\ part_id' = part_id /\ part_id = 0
        /\ stage' = IF stage = "node_map" THEN "edge_map" ELSE "node_feat"
    BY <1>6 DEF SaveNodeMap, SaveEdgeMap, Goes, FilesInv, Progress, MapPlaces
  <2>2. PartitionTypeOK'
    BY <1>1, <1>2, <1>4, <2>1 DEF PartitionTypeOK, Stages, Saving, WritePlaces
  <2>3. Progress'
    BY <1>1, <1>2, <1>5, <2>1 DEF FilesInv, Progress, MapPlaces, PartPlaces
  <2>4. PartsInv'
    BY <2>1 DEF PartsInv
  <2> QED
    BY <1>5, <2>2, <2>3, <2>4 DEF FilesInv
<1>7. CASE SaveNodeFeats \/ SaveEdgeFeats \/ SaveGraph
  <2>1. /\ stage \in PartPlaces /\ file = <<stage, part_id>>
        /\ part_id < call.num_parts
        /\ stage = "node_feat" => stage' = "edge_feat" /\ part_id' = part_id
        /\ stage = "edge_feat" => stage' = "graph" /\ part_id' = part_id
        /\ stage = "graph" =>
             /\ stage' = IF part_id + 1 < call.num_parts THEN "node_feat" ELSE "config"
             /\ part_id' = part_id + 1
    BY <1>7 DEF SaveNodeFeats, SaveEdgeFeats, SaveGraph, Goes, FilesInv, Progress,
                PartPlaces, FileOf, file
  <2>2. PartitionTypeOK'
    BY <1>1, <1>2, <1>4, <2>1 DEF PartitionTypeOK, Stages, Saving, WritePlaces, PartPlaces
  <2>3. Progress'
    BY <1>1, <1>2, <1>5, <2>1 DEF FilesInv, Progress, MapPlaces, PartPlaces
  <2>4. \A f \in Files : f # file /\ OfThisRun(f) => Now(f)
    BY <1>4 DEF OfThisRun
  <2>5. Now(file)
    BY <1>4
  <2>6. \A p \in 0..(part_id - 1) : \A f \in PartFiles(p) : Now(f)
    <3> SUFFICES ASSUME NEW p \in 0..(part_id - 1), NEW f \in PartFiles(p)
                 PROVE  Now(f)
      OBVIOUS
    <3>1. f # file
      BY <2>1, PartAtHand DEF PartPlaces
    <3>2. p \in 0..(MaxParts - 1)
      <4>1. part_id \in 0..(MaxParts - 1) /\ MaxParts \in Nat
        BY <1>2, <2>1, PartAtHand, CallIs
      <4> QED
        BY <4>1
    <3>3. f \in Files
      BY <3>2, FilesAre
    <3>4. OfThisRun(f)
      BY <1>1 DEF FilesInv, PartsInv, MapPlaces, PartPlaces, Saving, WritePlaces
    <3> QED
      BY <2>4, <3>1, <3>3, <3>4
  <2>7. /\ stage = "edge_feat" \/ stage = "graph" => Now(<<"node_feat", part_id>>)
        /\ stage = "graph" => Now(<<"edge_feat", part_id>>)
    <3>1. <<"node_feat", part_id>> \in Files /\ <<"edge_feat", part_id>> \in Files
      BY <2>1, PartAtHand DEF PartFiles
    <3>2. /\ stage = "edge_feat" \/ stage = "graph" => OfThisRun(<<"node_feat", part_id>>)
          /\ stage = "graph" => OfThisRun(<<"edge_feat", part_id>>)
      BY DEF FilesInv, PartsInv, Saving, WritePlaces
    <3> QED
      BY <2>1, <2>4, <3>1, <3>2
  <2> HIDE DEF Now
  <2>8. PartsInv'
    <3>1. CASE stage = "node_feat"
      BY <1>1, <2>1, <2>5, <2>6, <3>1 DEF PartsInv, OfThisRun, Now
    <3>2. CASE stage = "edge_feat"
      BY <1>1, <2>1, <2>5, <2>6, <2>7, <3>2 DEF PartsInv, OfThisRun, Now
    <3>3. CASE stage = "graph"
      <4>1. \A f \in PartFiles(part_id) : Now(f)
        BY <2>1, <2>5, <2>7, <3>3 DEF PartFiles
      <4>2. 0..(part_id' - 1) = 0..(part_id - 1) \cup {part_id}
        BY <1>2, <2>1, <3>3
      <4> QED
        BY <1>1, <2>1, <2>6, <3>3, <4>1, <4>2 DEF PartsInv, OfThisRun, Now
    <3> QED
      BY <2>1, <3>1, <3>2, <3>3 DEF PartPlaces
  <2> QED
    BY <1>5, <2>2, <2>3, <2>8 DEF FilesInv
<1> QED
  BY <1>6, <1>7

LEMMA FilesInvDump == FilesInv /\ DumpConfig => FilesInv'
<1> SUFFICES ASSUME FilesInv, DumpConfig PROVE FilesInv'
  OBVIOUS
<1>1. /\ stage = "config" /\ stage' = "done" /\ part_id = call.num_parts
      /\ UNCHANGED <<graph, call, run, part_id>> /\ named' = call.num_parts
      /\ \E content : Write(Config, content)
  BY DEF DumpConfig, Goes, inputs, FilesInv, Progress
<1>2. call \in Calls /\ call.num_parts \in 0..MaxParts /\ MaxParts \in Nat
  BY CallIs DEF FilesInv, PartitionTypeOK
<1>3. /\ DOMAIN saved' = Files /\ DOMAIN written' = Files /\ torn' \subseteq Files
      /\ \A f \in Files : written'[f] \in 0..run'
      /\ \A f \in Files : f # Config => written'[f] = written[f]
      /\ \A f : f # Config => (f \in torn' <=> f \in torn)
      /\ written'[Config] = run
  BY <1>1, FilesAre, Writes DEF FilesInv, OfThisRun
<1>4. PartitionTypeOK'
  BY <1>1, <1>2, <1>3 DEF FilesInv, PartitionTypeOK, Stages, Saving
<1>5. Progress'
  BY <1>1 DEF Progress, MapPlaces, PartPlaces
<1>6. \A p \in 0..(call.num_parts - 1) : \A f \in PartFiles(p) : OfThisRun(f)'
  <2> SUFFICES ASSUME NEW p \in 0..(call.num_parts - 1), NEW f \in PartFiles(p)
               PROVE  OfThisRun(f)'
    OBVIOUS
  <2>0. p \in 0..(MaxParts - 1)
    BY <1>2
  <2>1. f \in Files /\ f # Config
    <3>1. f # Config
      BY DEF PartFiles, Config
    <3> QED
      BY <2>0, <3>1, FilesAre
  <2>2. OfThisRun(f)
    BY <1>1 DEF FilesInv, PartsInv, Saving, WritePlaces
  <2> QED
    BY <1>1, <1>3, <2>1, <2>2 DEF OfThisRun
<1>7. PartsInv' /\ NamedInv'
  BY <1>1, <1>3, <1>6 DEF PartsInv, NamedInv, OfThisRun
<1> QED
  BY <1>4, <1>5, <1>7 DEF FilesInv

LEMMA FilesInvStep == FilesInv /\ [PartitionNext]_partitionVars => FilesInv'
<1> SUFFICES ASSUME FilesInv, [PartitionNext]_partitionVars PROVE FilesInv'
  OBVIOUS
<1>0. graph \in Graphs /\ call \in Calls
  BY DEF FilesInv, PartitionTypeOK
<1>1. CASE AssignOne \/ AssignTrainers \/ Assign \/ RefuseMethod \/ SplitGraph \/ RefuseSplit
  <2>1. /\ UNCHANGED <<graph, call, run, part_id, saved, written, torn, named>>
        /\ stage \in {"assign", "split"}
        /\ stage' \in {"split", "dead", "node_map", "node_feat"}
        /\ stage' = "node_map" => ~call.reshuffle
    BY <1>1 DEF AssignOne, AssignTrainers, Assign, RefuseMethod, SplitGraph, RefuseSplit,
                Goes, inputs, files
  <2> QED
    BY <1>0, <2>1, FilesInvKept DEF Saving, WritePlaces, MapPlaces
<1>2. CASE UNCHANGED partitionVars
  BY <1>2 DEF partitionVars, FilesInv, PartitionTypeOK, Progress, PartsInv, NamedInv,
              OfThisRun, Loadable, Readable
<1> QED
  BY <1>1, <1>2, FilesInvStart, FilesInvCrash, FilesInvSave, FilesInvDump DEF PartitionNext

LEMMA FilesInvAlways == PartitionSpec => []FilesInv
BY FilesInvInit, FilesInvStep, PTL DEF PartitionSpec

\* Every variable stays in its type, however runs end and start again.
THEOREM PartitionTypeCorrect == PartitionSpec => []PartitionTypeOK
BY FilesInvAlways, PTL DEF FilesInv

\* Wherever runs are interrupted, a configuration that can be read names whole parts of
\* one run until a later run writes over one of them: the configuration is dumped last
\* (partition_graph, aly_partition.py 887-1010).
THEOREM Whole == PartitionSpec => []LoadsAreWhole
<1>1. FilesInv => LoadsAreWhole
  <2> SUFFICES ASSUME FilesInv, Readable, \A f \in Files : written[f] <= written[Config],
                      NEW p \in 0..(named - 1), NEW f \in PartFiles(p)
               PROVE  written[f] = written[Config] /\ f \notin torn
    BY DEF LoadsAreWhole
  <2>1. named \in 0..MaxParts /\ MaxParts \in Nat
    BY PartitionAssumption DEF FilesInv, PartitionTypeOK
  <2>2. f \in Files
    BY <2>1, FilesAre
  <2>3. written[f] \in 0..run /\ written[Config] \in 0..run /\ run \in Nat
    BY <2>2, FilesAre DEF FilesInv, PartitionTypeOK
  <2> QED
    BY <2>2, <2>3 DEF FilesInv, NamedInv
<1> QED
  BY <1>1, FilesInvAlways, PTL

-----------------------------------------------------------------------------
(***************************************************************************)
(* The inductive invariant: what the run has written.                      *)
(***************************************************************************)

\* A node that the override leaves alone is with its trainer.
Coalesced ==
    \/ trainer_id = <<>>
    \/ \A n \in GraphNodes : n >= 2 * Boundary =>
        trainer_id[<<graph.ntype[n], TypedId(n)>>] \div call.trainers = node_parts[n]

BookNow == [node_map |-> IF call.reshuffle THEN NodeMap ELSE NoAnswer,
            edge_map |-> IF call.reshuffle THEN EdgeMap ELSE NoAnswer]

ContentInv ==
    /\ stage = "assign" => trainer_id = <<>>
    /\ stage \in {"split"} \cup Saving => Assigned /\ Coalesced
    /\ stage \in Saving =>
        /\ Splittable
        /\ \A p \in 0..(part_id - 1) :
            /\ saved[<<"node_feat", p>>] = NodeFeats(p)
            /\ saved[<<"edge_feat", p>>] = EdgeFeats(p)
            /\ saved[<<"graph", p>>] = PartGraph(p)
        /\ stage \in {"edge_feat", "graph"} =>
            saved[<<"node_feat", part_id>>] = NodeFeats(part_id)
        /\ stage = "graph" => saved[<<"edge_feat", part_id>>] = EdgeFeats(part_id)
        /\ ~call.reshuffle /\ stage # "node_map" => saved[<<"node_map", 0>>] = NodeParts
        /\ ~call.reshuffle /\ stage \notin MapPlaces => saved[<<"edge_map", 0>>] = EdgeParts
    /\ stage = "done" => saved[Config] = BookNow

\* What is saved depends on the graph, the call and the assignment only.
LEMMA SameContents ==
  ASSUME UNCHANGED <<graph, call, node_parts, trainer_id>>
  PROVE  /\ (Assigned /\ Coalesced <=> (Assigned /\ Coalesced)')
         /\ Splittable' = Splittable
         /\ \A p : /\ NodeFeats(p)' = NodeFeats(p)
                   /\ EdgeFeats(p)' = EdgeFeats(p)
                   /\ PartGraph(p)' = PartGraph(p)
         /\ NodeParts' = NodeParts /\ EdgeParts' = EdgeParts
         /\ BookNow' = BookNow
<1> USE DEF GraphNodes, Edges, Source, Destination, NTypes, EType, ETypes, Parts, TypedId,
            PartEdges, Inner, InnerEdges
<1>1. Assigned /\ Coalesced <=> (Assigned /\ Coalesced)'
  BY DEF Assigned, Coalesced
<1>2. Splittable' = Splittable
  BY DEF Splittable, IsHomogeneous
<1>3. \A p : /\ NodeFeats(p)' = NodeFeats(p)
             /\ PartGraph(p)' = PartGraph(p)
  BY DEF NodeFeats, LocalNodes, InnerNodes, NodeAt, Row, Masks, TrainerOf,
         PartGraph, Halo, NewNode, NewEdge, NodeKey, EdgeKey, Lower
<1>6. \A p : EdgeFeats(p)' = EdgeFeats(p)
  BY DEF EdgeFeats, LocalEdge, TypedEdgeId, EdgeAt, IsHomogeneous, EdgeRow, TrainerOf
<1>4. NodeParts' = NodeParts /\ EdgeParts' = EdgeParts
  BY DEF NodeParts, EdgeParts
<1>5. BookNow' = BookNow
  BY DEF BookNow, NodeMap, EdgeMap, NodeRange, EdgeRange, InnerNodes, NewNode, NewEdge,
         NodeKey, EdgeKey, Lower, Last
<1> QED
  BY <1>1, <1>2, <1>3, <1>4, <1>5, <1>6

-----------------------------------------------------------------------------
\* Assigning the nodes.

LEMMA Division ==
  ASSUME NEW a \in Nat, NEW b \in Nat, 1 <= b, NEW n \in Nat, a < n * b
  PROVE  a \div b \in 0..(n - 1)
<1>1. a \div b \in Int /\ a = (b * (a \div b)) + (a % b) /\ a % b \in 0..(b - 1)
  OBVIOUS
<1> DEFINE q == a \div b
<1> HIDE DEF q
<1>2. ASSUME q < 0 PROVE FALSE
  <2>1. b * q <= -b
    BY <1>1, <1>2 DEF q
  <2> QED
    BY <1>1, <2>1 DEF q
<1>3. ASSUME q >= n PROVE FALSE
  <2>1. b * q >= b * n
    BY <1>1, <1>3 DEF q
  <2> QED
    BY <1>1, <2>1 DEF q
<1> QED
  BY <1>1, <1>2, <1>3 DEF q

\* The trainer that a node was assigned to.
LEMMA TrainersAre ==
  ASSUME graph \in Graphs, NEW assigned, NEW n \in GraphNodes
  PROVE  SetTrainerIds(assigned)[<<graph.ntype[n], TypedId(n)>>] = assigned[n]
<1>1. NodeAt(graph.ntype[n], TypedId(n)) = n
  BY TypedIdsAre
<1>2. <<graph.ntype[n], TypedId(n)>> \in TypedIds
  BY DEF TypedIds
<1> QED
  BY <1>1, <1>2 DEF SetTrainerIds

\* The override keeps to the parts, if there are two of them.
LEMMA OverriddenIs ==
  ASSUME graph \in Graphs, call \in Calls, call.num_parts > 1,
         NEW assigned, \A n \in GraphNodes : assigned[n] \in Parts
  PROVE  /\ Overridden(assigned) \in [GraphNodes -> Parts]
         /\ \A n \in GraphNodes : n >= 2 * Boundary => Overridden(assigned)[n] = assigned[n]
<1>1. 0 \in Parts /\ 1 \in Parts
  BY CallIs
<1>2. \A n \in GraphNodes : n >= 2 * Boundary => ~(n < Boundary) /\ ~(n < 2 * Boundary)
  BY GraphIs, PartitionAssumption
<1>3. Overridden(assigned) \in [GraphNodes -> Parts]
  BY <1>1 DEF Overridden
<1>4. ASSUME NEW n \in GraphNodes, n >= 2 * Boundary
      PROVE  Overridden(assigned)[n] = assigned[n]
  BY <1>2, <1>4 DEF Overridden
<1> QED
  BY <1>3, <1>4

LEMMA AssignOneAssigns ==
  ASSUME graph \in Graphs, call \in Calls, trainer_id = <<>>, AssignOne
  PROVE  Assigned' /\ Coalesced'
<1>1. /\ UNCHANGED <<graph, call>> /\ call.num_parts = 1
      /\ node_parts' = [n \in GraphNodes |-> 0] /\ GraphNodes' = GraphNodes /\ Parts' = Parts
      /\ \A n \in GraphNodes : TypedId(n)' = TypedId(n)
  BY DEF AssignOne, inputs, GraphNodes, Parts, TypedId
<1>2. Assigned'
  BY <1>1, CallIs DEF Assigned
<1>3. CASE call.trainers = 1
  <2>1. trainer_id' = <<>>
    BY <1>3 DEF AssignOne
  <2> QED
    BY <1>2, <2>1 DEF Coalesced
<1>4. CASE call.trainers # 1
  <2>1. PICK assigned \in [GraphNodes -> 0..(call.trainers - 1)] :
          trainer_id' = SetTrainerIds(assigned)
    BY <1>4 DEF AssignOne
  <2>2. ASSUME NEW n \in GraphNodes
        PROVE  trainer_id'[<<graph.ntype[n], TypedId(n)>>] \div call.trainers = 0
    <3>1. assigned[n] \in Nat /\ assigned[n] < 1 * call.trainers /\ call.trainers \in Nat
          /\ 1 <= call.trainers
      BY CallIs
    <3>2. assigned[n] \div call.trainers \in 0..(1 - 1)
      BY <3>1, Division
    <3>3. SetTrainerIds(assigned)[<<graph.ntype[n], TypedId(n)>>] = assigned[n]
      BY TrainersAre
    <3> QED
      BY <2>1, <3>2, <3>3
  <2>3. \A n \in GraphNodes : node_parts'[n] = 0
    BY <1>1
  <2> QED
    BY <1>1, <1>2, <2>2, <2>3 DEF Coalesced
<1> QED
  BY <1>2, <1>3, <1>4

LEMMA AssignTrainersAssigns ==
  ASSUME graph \in Graphs, call \in Calls, AssignTrainers
  PROVE  Assigned' /\ Coalesced'
<1>1. /\ UNCHANGED <<graph, call>> /\ call.num_parts > 1
      /\ GraphNodes' = GraphNodes /\ Parts' = Parts
      /\ \A n \in GraphNodes : TypedId(n)' = TypedId(n)
  BY DEF AssignTrainers, inputs, GraphNodes, Parts, TypedId
<1>2. PICK assigned \in [GraphNodes -> 0..(call.num_parts * call.trainers - 1)] :
        /\ trainer_id' = SetTrainerIds(assigned)
        /\ node_parts' = Overridden([n \in GraphNodes |-> assigned[n] \div call.trainers])
  BY DEF AssignTrainers
<1> DEFINE machine == [n \in GraphNodes |-> assigned[n] \div call.trainers]
<1>3. \A n \in GraphNodes : machine[n] \in Parts
  <2> TAKE n \in GraphNodes
  <2>1. /\ call.num_parts \in Nat /\ call.trainers \in Nat /\ 1 <= call.trainers
        /\ call.num_parts * call.trainers \in Nat
    BY CallIs
  <2>2. assigned[n] \in Nat /\ assigned[n] < call.num_parts * call.trainers
    BY <2>1
  <2>3. assigned[n] \div call.trainers \in 0..(call.num_parts - 1)
    BY <2>1, <2>2, Division
  <2> QED
    BY <2>3, CallIs
<1>4. \A n \in GraphNodes : machine[n] = assigned[n] \div call.trainers
  OBVIOUS
<1> HIDE DEF machine
<1>5. /\ node_parts' \in [GraphNodes -> Parts]
      /\ \A n \in GraphNodes : n >= 2 * Boundary => node_parts'[n] = machine[n]
  BY <1>1, <1>2, <1>3, OverriddenIs DEF machine
<1>6. Assigned'
  BY <1>1, <1>5 DEF Assigned
<1>7. \A n \in GraphNodes : trainer_id'[<<graph.ntype[n], TypedId(n)>>] = assigned[n]
  BY <1>2, TrainersAre
<1> QED
  BY <1>1, <1>4, <1>5, <1>6, <1>7 DEF Coalesced

LEMMA AssignAssigns ==
  ASSUME graph \in Graphs, call \in Calls, trainer_id = <<>>, Assign
  PROVE  Assigned' /\ Coalesced'
<1>1. /\ UNCHANGED <<graph, call, trainer_id>> /\ call.num_parts > 1
      /\ GraphNodes' = GraphNodes /\ Parts' = Parts
  BY DEF Assign, inputs, GraphNodes, Parts
<1>2. PICK assigned \in [GraphNodes -> Parts] : node_parts' = Overridden(assigned)
  BY DEF Assign
<1>3. node_parts' \in [GraphNodes -> Parts]
  BY <1>1, <1>2, OverriddenIs
<1> QED
  BY <1>1, <1>3 DEF Assigned, Coalesced

-----------------------------------------------------------------------------
\* Saving.

LEMMA ContentInvInit == PartitionInit => ContentInv
BY DEF PartitionInit, ContentInv, Saving, WritePlaces

\* A step that keeps the assignment and what is to be saved.
LEMMA ContentInvSave ==
  FilesInv /\ ContentInv
  /\ (SaveNodeMap \/ SaveEdgeMap \/ SaveNodeFeats \/ SaveEdgeFeats \/ SaveGraph \/ DumpConfig)
    => ContentInv'
<1> SUFFICES ASSUME FilesInv, ContentInv,
                    \/ SaveNodeMap \/ SaveEdgeMap \/ SaveNodeFeats
                    \/ SaveEdgeFeats \/ SaveGraph \/ DumpConfig
             PROVE  ContentInv'
  OBVIOUS
<1> DEFINE file == FileOf
           PartSaved(p) ==
              /\ saved'[<<"node_feat", p>>] = NodeFeats(p)
              /\ saved'[<<"edge_feat", p>>] = EdgeFeats(p)
              /\ saved'[<<"graph", p>>] = PartGraph(p)
<1>1. /\ stage \in WritePlaces /\ stage \in Saving
      /\ UNCHANGED <<graph, call, node_parts, trainer_id, run>>
      /\ part_id' = IF stage = "graph" THEN part_id + 1 ELSE part_id
      /\ stage = "node_map" => stage' = "edge_map" /\ Write(file, NodeParts)
      /\ stage = "edge_map" => stage' = "node_feat" /\ Write(file, EdgeParts)
      /\ stage = "node_feat" => stage' = "edge_feat" /\ Write(file, NodeFeats(part_id))
      /\ stage = "edge_feat" => stage' = "graph" /\ Write(file, EdgeFeats(part_id))
      /\ stage = "graph" => stage' \in {"node_feat", "config"} /\ Write(file, PartGraph(part_id))
      /\ stage = "config" => stage' = "done" /\ Write(file, BookNow)
  BY DEF SaveNodeMap, SaveEdgeMap, SaveNodeFeats, SaveEdgeFeats, SaveGraph, DumpConfig,
         Goes, inputs, FileOf, Saving, WritePlaces, Config, BookNow
<1>2. /\ file \in Files
      /\ file = IF stage \in PartPlaces THEN <<stage, part_id>> ELSE <<stage, 0>>
  BY <1>1, PartAtHand, FilesAre
     DEF FileOf, WritePlaces, PartPlaces, PartFiles, Config
<1> HIDE DEF file
<1>3. \A content : Write(file, content) =>
        /\ saved'[file] = content
        /\ \A f \in Files : f # file => saved'[f] = saved[f]
  BY <1>1, <1>2, Writes DEF FilesInv
<1>4. \A f \in Files : f # file => saved'[f] = saved[f]
  BY <1>1, <1>3 DEF WritePlaces
<1>5. /\ stage = "node_map" => saved'[file] = NodeParts
      /\ stage = "edge_map" => saved'[file] = EdgeParts
      /\ stage = "node_feat" => saved'[file] = NodeFeats(part_id)
      /\ stage = "edge_feat" => saved'[file] = EdgeFeats(part_id)
      /\ stage = "graph" => saved'[file] = PartGraph(part_id)
      /\ stage = "config" => saved'[file] = BookNow
  BY <1>1, <1>3
<1>6. /\ part_id \in Nat /\ MaxParts \in Nat /\ part_id <= MaxParts
      /\ call.num_parts \in Nat
      /\ \A p \in 0..(part_id - 1) : p \in 0..(MaxParts - 1)
  BY <1>1, CallIs DEF FilesInv, PartitionTypeOK, Progress, WritePlaces, MapPlaces, PartPlaces
<1>7. ASSUME NEW p \in 0..(part_id - 1) PROVE PartSaved(p)
  <2>1. PartFiles(p) \subseteq Files
    BY <1>6, FilesAre
  <2>2. file \notin PartFiles(p)
    <3>1. p # part_id
      BY <1>6
    <3> QED
      BY <1>1, <1>2, <3>1 DEF WritePlaces, PartPlaces, PartFiles
  <2>3. \A f \in PartFiles(p) : saved'[f] = saved[f]
    BY <1>4, <2>1, <2>2
  <2> QED
    BY <1>1, <2>3 DEF ContentInv, PartFiles
<1>8. stage = "graph" => PartSaved(part_id)
  <2> SUFFICES ASSUME stage = "graph" PROVE PartSaved(part_id)
    OBVIOUS
  <2>1. PartFiles(part_id) \subseteq Files /\ file = <<"graph", part_id>>
    BY <1>2, PartAtHand DEF PartPlaces
  <2>2. /\ saved'[<<"node_feat", part_id>>] = saved[<<"node_feat", part_id>>]
        /\ saved'[<<"edge_feat", part_id>>] = saved[<<"edge_feat", part_id>>]
    BY <1>4, <2>1 DEF PartFiles
  <2> QED
    BY <1>1, <1>5, <2>1, <2>2 DEF ContentInv
<1> HIDE DEF PartSaved
<1>9. \A p \in 0..(part_id' - 1) : PartSaved(p)
  <2> SUFFICES ASSUME NEW p \in 0..(part_id' - 1) PROVE PartSaved(p)
    OBVIOUS
  <2>1. p \in 0..(part_id - 1) \/ (stage = "graph" /\ p = part_id)
    BY <1>1, <1>6
  <2> QED
    BY <1>7, <1>8, <2>1
<1>10. stage' \in {"edge_feat", "graph"} =>
         /\ part_id' = part_id
         /\ saved'[<<"node_feat", part_id>>] = NodeFeats(part_id)
         /\ stage' = "graph" => saved'[<<"edge_feat", part_id>>] = EdgeFeats(part_id)
  <2>1. CASE stage = "node_feat"
    BY <1>1, <1>2, <1>5, <2>1 DEF PartPlaces
  <2>2. CASE stage = "edge_feat"
    <3>1. <<"node_feat", part_id>> \in Files /\ file = <<"edge_feat", part_id>>
      BY <1>2, <2>2, PartAtHand DEF PartPlaces, PartFiles
    <3> QED
      BY <1>1, <1>4, <1>5, <2>2, <3>1 DEF ContentInv
  <2>3. CASE stage \notin {"node_feat", "edge_feat"}
    BY <1>1, <2>3 DEF WritePlaces
  <2> QED
    BY <2>1, <2>2, <2>3
<1>11. ~call.reshuffle =>
         /\ stage' # "node_map" => saved'[<<"node_map", 0>>] = NodeParts
         /\ stage' \notin MapPlaces => saved'[<<"edge_map", 0>>] = EdgeParts
  <2> SUFFICES ASSUME ~call.reshuffle
               PROVE  /\ stage' # "node_map" => saved'[<<"node_map", 0>>] = NodeParts
                      /\ stage' \notin MapPlaces => saved'[<<"edge_map", 0>>] = EdgeParts
    OBVIOUS
  <2>1. CASE stage = "node_map"
    BY <1>1, <1>2, <1>5, <2>1 DEF PartPlaces, MapPlaces
  <2>2. CASE stage = "edge_map"
    BY <1>1, <1>2, <1>4, <1>5, <2>2, FilesAre DEF PartPlaces, MapPlaces, ContentInv
  <2>3. CASE stage \notin MapPlaces
    <3>1. file # <<"node_map", 0>> /\ file # <<"edge_map", 0>>
      BY <1>2, <2>3 DEF PartPlaces, MapPlaces
    <3> QED
      BY <1>1, <1>4, <2>3, <3>1, FilesAre DEF MapPlaces, ContentInv
  <2> QED
    BY <2>1, <2>2, <2>3 DEF MapPlaces
<1>12. stage' = "done" => saved'[Config] = BookNow
  BY <1>1, <1>2, <1>5 DEF WritePlaces, PartPlaces, Config
<1>13. Assigned /\ Coalesced /\ Splittable
  BY <1>1 DEF ContentInv
<1>14. /\ Assigned' /\ Coalesced' /\ Splittable'
       /\ \A p : /\ NodeFeats(p)' = NodeFeats(p)
                 /\ EdgeFeats(p)' = EdgeFeats(p)
                 /\ PartGraph(p)' = PartGraph(p)
       /\ NodeParts' = NodeParts /\ EdgeParts' = EdgeParts
       /\ BookNow' = BookNow
  BY <1>1, <1>13, SameContents
<1>15. stage' # "assign"
  BY <1>1 DEF WritePlaces
<1>16. \A p \in 0..(part_id' - 1) :
         /\ saved'[<<"node_feat", p>>] = NodeFeats(p)'
         /\ saved'[<<"edge_feat", p>>] = EdgeFeats(p)'
         /\ saved'[<<"graph", p>>] = PartGraph(p)'
  BY <1>9, <1>14 DEF PartSaved
<1> QED
  BY <1>1, <1>10, <1>11, <1>12, <1>14, <1>15, <1>16 DEF ContentInv

LEMMA ContentInvStep ==
  FilesInv /\ ContentInv /\ [PartitionNext]_partitionVars => ContentInv'
<1> SUFFICES ASSUME FilesInv, ContentInv, [PartitionNext]_partitionVars PROVE ContentInv'
  OBVIOUS
<1>0. graph \in Graphs /\ call \in Calls
  BY DEF FilesInv, PartitionTypeOK
<1>1. CASE Start \/ RefuseMethod \/ RefuseSplit \/ Crash
  <2>1. (stage' = "assign" /\ trainer_id' = <<>>) \/ stage' = "dead"
    BY <1>1 DEF Start, RefuseMethod, RefuseSplit, Crash, Goes
  <2> QED
    BY <2>1 DEF ContentInv, Saving, WritePlaces
<1>2. CASE AssignOne \/ AssignTrainers \/ Assign
  <2>1. stage = "assign" /\ stage' = "split"
    BY <1>2 DEF AssignOne, AssignTrainers, Assign, Goes
  <2>2. trainer_id = <<>>
    BY <2>1 DEF ContentInv
  <2>3. Assigned' /\ Coalesced'
    BY <1>0, <1>2, <2>2, AssignOneAssigns, AssignTrainersAssigns, AssignAssigns
  <2> QED
    BY <2>1, <2>3 DEF ContentInv, Saving, WritePlaces
<1>3. CASE SplitGraph
  <2>1. /\ stage = "split" /\ Splittable
        /\ stage' = IF call.reshuffle THEN "node_feat" ELSE "node_map"
        /\ UNCHANGED <<graph, call, node_parts, trainer_id, part_id>>
    BY <1>3 DEF SplitGraph, Goes, inputs
  <2>2. part_id' = 0
    BY <2>1 DEF FilesInv, Progress
  <2>3. Assigned' /\ Coalesced' /\ Splittable'
    BY <2>1, SameContents DEF ContentInv
  <2> QED
    BY <2>1, <2>2, <2>3 DEF ContentInv, Saving, WritePlaces, MapPlaces
<1>4. CASE UNCHANGED partitionVars
  <2>1. UNCHANGED <<graph, call, node_parts, trainer_id, stage, part_id, saved>>
    BY <1>4 DEF partitionVars
  <2> QED
    BY <2>1, SameContents DEF ContentInv
<1> QED
  BY <1>1, <1>2, <1>3, <1>4, ContentInvSave DEF PartitionNext

PartitionInv == FilesInv /\ ContentInv

LEMMA PartitionInvAlways == PartitionSpec => []PartitionInv
<1>1. PartitionInit => PartitionInv
  BY FilesInvInit, ContentInvInit DEF PartitionInv
<1>2. PartitionInv /\ [PartitionNext]_partitionVars => PartitionInv'
  BY FilesInvStep, ContentInvStep DEF PartitionInv
<1> QED
  BY <1>1, <1>2, PTL DEF PartitionSpec

\* What can be loaded is what the run was to save.
LEMMA LoadedIs ==
  ASSUME PartitionInv, Loadable
  PROVE  /\ Assigned /\ Coalesced /\ Splittable
         /\ \A p \in Parts : /\ LoadedFeats(p) = NodeFeats(p)
                             /\ LoadedEdgeFeats(p) = EdgeFeats(p)
                             /\ LoadedGraph(p) = PartGraph(p)
         /\ saved[Config] = BookNow
         /\ ~call.reshuffle =>
              saved[<<"node_map", 0>>] = NodeParts /\ saved[<<"edge_map", 0>>] = EdgeParts
<1>1. stage = "done" /\ part_id = call.num_parts
  BY DEF PartitionInv, FilesInv, Progress
<1> QED
  BY <1>1 DEF PartitionInv, ContentInv, Saving, MapPlaces, Parts, LoadedFeats,
         LoadedEdgeFeats, LoadedGraph

-----------------------------------------------------------------------------
(***************************************************************************)
(* What is loaded.                                                         *)
(***************************************************************************)

\* The ids of the nodes that a part holds are those of its nodes.
LEMMA InnerIdsAre ==
  ASSUME PartitionInv, Loadable, NEW p \in Parts
  PROVE  /\ \A type \in NTypes : LoadedGraph(p).inner[type] =
              [k \in DOMAIN InnerNodes(p, type) |-> NewNode(InnerNodes(p, type)[k])]
         /\ \A id \in InnerIds(p) :
              \E n \in GraphNodes : n \in Inner(p, graph.ntype[n]) /\ id = NewNode(n)
         /\ \A n \in GraphNodes : node_parts[n] = p => NewNode(n) \in InnerIds(p)
<1>1. Assigned /\ LoadedGraph(p) = PartGraph(p)
  BY LoadedIs
<1>2. \A type \in NTypes : LoadedGraph(p).inner[type] =
        [k \in DOMAIN InnerNodes(p, type) |-> NewNode(InnerNodes(p, type)[k])]
  BY <1>1 DEF PartGraph
<1>3. InnerIds(p) = UNION {{NewNode(InnerNodes(p, type)[k]) : k \in DOMAIN InnerNodes(p, type)} :
                              type \in NTypes}
  <2>1. \A type \in NTypes : ToSet(LoadedGraph(p).inner[type]) =
          {NewNode(InnerNodes(p, type)[k]) : k \in DOMAIN InnerNodes(p, type)}
    BY <1>2 DEF ToSet
  <2> QED
    BY <2>1 DEF InnerIds
<1>4. ASSUME NEW id \in InnerIds(p)
      PROVE  \E n \in GraphNodes : n \in Inner(p, graph.ntype[n]) /\ id = NewNode(n)
  <2>1. PICK type \in NTypes : \E k \in DOMAIN InnerNodes(p, type) : id = NewNode(InnerNodes(p, type)[k])
    BY <1>3
  <2>2. PICK k \in DOMAIN InnerNodes(p, type) : id = NewNode(InnerNodes(p, type)[k])
    BY <2>1
  <2>3. InnerNodes(p, type)[k] \in Inner(p, type)
    BY <1>1, InnerNodesAre
  <2> QED
    BY <2>2, <2>3 DEF Inner
<1>5. ASSUME NEW n \in GraphNodes, node_parts[n] = p PROVE NewNode(n) \in InnerIds(p)
  <2> DEFINE type == graph.ntype[n]
  <2>1. n \in Inner(p, type) /\ type \in NTypes
    BY <1>1, <1>5, GraphIs DEF Inner, Assigned
  <2>2. \E k \in DOMAIN InnerNodes(p, type) : InnerNodes(p, type)[k] = n
    BY <1>1, <2>1, InnerNodesAre
  <2> QED
    BY <1>3, <2>1, <2>2
<1> QED
  BY <1>2, <1>4, <1>5

\* The edges that a part holds.
LEMMA EdgesAre ==
  ASSUME PartitionInv, Loadable, NEW p \in Parts
  PROVE  /\ LoadedGraph(p).edges =
           {[id |-> NewEdge(e), src |-> NewNode(Source(e)), dst |-> NewNode(Destination(e))] :
               e \in PartEdges(p)}
         /\ LoadedGraph(p).halo = {NewNode(n) : n \in Halo(p)}
<1>1. LoadedGraph(p) = PartGraph(p)
  BY LoadedIs
<1>2. /\ PartGraph(p).edges =
           {[id |-> NewEdge(e), src |-> NewNode(Source(e)), dst |-> NewNode(Destination(e))] :
               e \in PartEdges(p)}
      /\ PartGraph(p).halo = {NewNode(n) : n \in Halo(p)}
  BY Zenon DEF PartGraph
<1> QED
  BY <1>1, <1>2

\* The book agrees with the parts, for any graph and any assignment that lets a run get
\* as far as its configuration (load_partition, aly_partition.py 179-205).
THEOREM Book == PartitionSpec => []BookAgrees
<1>1. PartitionInv => BookAgrees
  <2> SUFFICES ASSUME PartitionInv, Loadable, NEW p \in Parts
               PROVE  /\ \A id \in InnerIds(p) : PartsOfNode(id) = {p}
                      /\ \A e \in LoadedGraph(p).edges : PartsOfEdge(e.id) = {p}
    BY DEF BookAgrees
  <2>1. /\ Assigned /\ Splittable /\ saved[Config] = BookNow
        /\ ~call.reshuffle =>
             saved[<<"node_map", 0>>] = NodeParts /\ saved[<<"edge_map", 0>>] = EdgeParts
    BY LoadedIs
  <2>2. ASSUME NEW id \in InnerIds(p) PROVE PartsOfNode(id) = {p}
    <3>1. PICK n \in GraphNodes : n \in Inner(p, graph.ntype[n]) /\ id = NewNode(n)
      BY InnerIdsAre
    <3>2. node_parts[n] = p /\ graph.ntype[n] \in NTypes
      BY <2>1, <3>1, GraphIs DEF Inner, Assigned
    <3>3. CASE call.reshuffle
      <4>1. saved[Config].node_map = NodeMap
        BY <2>1, <3>3 DEF BookNow
      <4>2. \A q \in Parts : \A type \in NTypes :
              InRange(NodeMap, type, q, id) <=>
                NodeRange(q, type)[1] <= id /\ id < NodeRange(q, type)[2]
        BY DEF NodeMap, InRange
      <4>3. DOMAIN NodeMap = NTypes
        BY DEF NodeMap
      <4>4. \A q \in Parts : \A type \in NTypes : InRange(NodeMap, type, q, id) => q = p
        BY <2>1, <3>1, <3>2, <3>3, <4>2, NodeRanges
      <4>5. InRange(NodeMap, graph.ntype[n], p, id)
        BY <2>1, <3>1, <3>2, <3>3, <4>2, NodeRanges
      <4> HIDE DEF NodeMap
      <4> QED
        BY <3>2, <3>3, <4>1, <4>3, <4>4, <4>5 DEF PartsOfNode
    <3>4. CASE ~call.reshuffle
      BY <2>1, <3>1, <3>2, <3>4 DEF PartsOfNode, NodeParts, NewNode
    <3> QED
      BY <3>3, <3>4
  <2>3. ASSUME NEW edge \in LoadedGraph(p).edges PROVE PartsOfEdge(edge.id) = {p}
    <3>1. PICK e \in PartEdges(p) : edge.id = NewEdge(e)
      BY EdgesAre
    <3>2. e \in Edges /\ node_parts[Destination(e)] = p
      BY DEF PartEdges
    <3>3. EType(e) \in ETypes /\ e \in InnerEdges(p, EType(e))
      BY <2>1, <3>2, GraphIs DEF InnerEdges, Assigned
    <3>4. CASE call.reshuffle
      <4>1. saved[Config].edge_map = EdgeMap
        BY <2>1, <3>4 DEF BookNow
      <4>2. \A q \in Parts : \A type \in ETypes :
              InRange(EdgeMap, type, q, edge.id) <=>
                EdgeRange(q, type)[1] <= edge.id /\ edge.id < EdgeRange(q, type)[2]
        BY DEF EdgeMap, InRange
      <4>3. DOMAIN EdgeMap = ETypes
        BY DEF EdgeMap
      <4>4. \A q \in Parts : \A type \in ETypes : InRange(EdgeMap, type, q, edge.id) => q = p
        BY <2>1, <3>1, <3>2, <3>4, <4>2, EdgeRanges
      <4>5. InRange(EdgeMap, EType(e), p, edge.id)
        BY <2>1, <3>1, <3>2, <3>3, <3>4, <4>2, EdgeRanges
      <4> QED
        BY <3>3, <3>4, <4>1, <4>3, <4>4, <4>5 DEF PartsOfEdge
    <3>5. CASE ~call.reshuffle
      <4>1. edge.id = e - 1 /\ e \in 1..Len(graph.edges) /\ Len(graph.edges) \in Nat
        BY <2>1, <3>1, <3>2, <3>5, GraphIs DEF NewEdge, Assigned
      <4>2. edge.id \in 0..(Len(graph.edges) - 1) /\ edge.id + 1 = e
        BY <4>1
      <4>3. EdgeParts[edge.id] = p
        BY <3>2, <4>2 DEF EdgeParts
      <4> QED
        BY <2>1, <3>5, <4>3 DEF PartsOfEdge
    <3> QED
      BY <3>4, <3>5
  <2> QED
    BY <2>2, <2>3
<1> QED
  BY <1>1, PartitionInvAlways, PTL

\* The rows of the features are those of the nodes they are read for, and every node has
\* its row somewhere (partition_graph, aly_partition.py 900-967).
THEOREM Follow == PartitionSpec => []FeaturesFollow
<1>1. PartitionInv => FeaturesFollow
  <2> SUFFICES ASSUME PartitionInv, Loadable PROVE NodeRowsFollow /\ EdgeRowsFollow
    BY DEF FeaturesFollow
  <2>1. /\ Assigned
        /\ \A p \in Parts : LoadedFeats(p) = NodeFeats(p) /\ LoadedEdgeFeats(p) = EdgeFeats(p)
    BY LoadedIs
  <2>2. \A p \in Parts : \A type \in NTypes : LoadedFeats(p)[type] =
          [k \in DOMAIN InnerNodes(p, type) |-> Row(InnerNodes(p, type)[k])]
    BY <2>1, RowsFollow
  <2>3. ASSUME NEW p \in Parts, NEW type \in NTypes,
               NEW ids, ids = LoadedGraph(p).inner[type],
               NEW rows, rows = LoadedFeats(p)[type]
        PROVE  /\ Len(rows) = Len(ids)
               /\ \A k \in DOMAIN ids : NewNode(rows[k].node) = ids[k]
    <3> DEFINE s == InnerNodes(p, type)
    <3>1. Len(s) \in Nat /\ DOMAIN s = 1..Len(s)
      BY <2>1, InnerNodesAre
    <3>2. /\ ids = [k \in DOMAIN s |-> NewNode(s[k])]
          /\ rows = [k \in DOMAIN s |-> Row(s[k])]
      BY <2>2, <2>3, InnerIdsAre
    <3> HIDE DEF s
    <3>3. Len(ids) = Len(s) /\ Len(rows) = Len(s)
      BY <3>1, <3>2
    <3>4. \A k \in DOMAIN s : rows[k].node = s[k]
      BY <3>2 DEF Row
    <3> QED
      BY <3>2, <3>3, <3>4
  <2>4. ASSUME NEW n \in GraphNodes
        PROVE  \E p \in Parts : \E type \in NTypes : \E k \in DOMAIN LoadedFeats(p)[type] :
                 LoadedFeats(p)[type][k] = Row(n)
    <3> DEFINE p == node_parts[n]
               type == graph.ntype[n]
               s == InnerNodes(p, type)
    <3>1. p \in Parts /\ type \in NTypes /\ n \in Inner(p, type)
      BY <2>1, GraphIs DEF Assigned, Inner
    <3>2. PICK k \in DOMAIN s : s[k] = n
      BY <2>1, <3>1, InnerNodesAre
    <3>3. LoadedFeats(p)[type] = [i \in DOMAIN s |-> Row(s[i])]
      BY <2>2, <3>1
    <3> HIDE DEF s, p, type
    <3>4. k \in DOMAIN LoadedFeats(p)[type] /\ LoadedFeats(p)[type][k] = Row(n)
      BY <3>2, <3>3
    <3> QED
      BY <3>1, <3>4
  <2>5. NodeRowsFollow
    BY <2>3, <2>4 DEF NodeRowsFollow
  <2>6. \A p \in Parts : \A type \in ETypes :
          LoadedEdgeFeats(p)[type] = [e \in InnerEdges(p, type) |-> EdgeRow(e)]
    BY <2>1, EdgeRowsAre
  <2>7. ASSUME NEW p \in Parts, NEW edge \in LoadedGraph(p).edges
        PROVE  \E type \in ETypes : \E e \in DOMAIN LoadedEdgeFeats(p)[type] :
                 NewEdge(e) = edge.id
    <3>1. PICK e \in PartEdges(p) : edge.id = NewEdge(e)
      BY EdgesAre
    <3>2. EType(e) \in ETypes /\ e \in InnerEdges(p, EType(e))
      BY <2>1, <3>1, GraphIs DEF Assigned, PartEdges, InnerEdges
    <3> QED
      BY <2>6, <3>1, <3>2
  <2>8. ASSUME NEW p \in Parts, NEW type \in ETypes, NEW e \in DOMAIN LoadedEdgeFeats(p)[type]
        PROVE  LoadedEdgeFeats(p)[type][e] = EdgeRow(e)
    <3>1. LoadedEdgeFeats(p)[type] = [f \in InnerEdges(p, type) |-> EdgeRow(f)]
      BY <2>6
    <3>2. e \in InnerEdges(p, type)
      BY <2>8, <3>1
    <3> QED
      BY <3>1, <3>2
  <2>9. EdgeRowsFollow
    BY <2>7, <2>8 DEF EdgeRowsFollow
  <2> QED
    BY <2>5, <2>9
<1> QED
  BY <1>1, PartitionInvAlways, PTL

\* No edge is lost, none is in two parts, and both its ends are found where it is
\* (partition_graph and _get_inner_edge_mask, aly_partition.py 763-804 and 94-106).
THEOREM EdgesGo == PartitionSpec => []EdgesWithDestination
<1>1. PartitionInv => EdgesWithDestination
  <2> SUFFICES ASSUME PartitionInv, Loadable PROVE EdgesWithDestination
    BY DEF EdgesWithDestination
  <2>1. Assigned
    BY LoadedIs
  <2>2. ASSUME NEW p \in Parts, NEW edge \in LoadedGraph(p).edges
        PROVE  edge.dst \in InnerIds(p) /\ edge.src \in InnerIds(p) \cup LoadedGraph(p).halo
    <3>1. PICK e \in PartEdges(p) :
            edge.src = NewNode(Source(e)) /\ edge.dst = NewNode(Destination(e))
      BY EdgesAre
    <3>2. e \in Edges /\ node_parts[Destination(e)] = p
      BY DEF PartEdges
    <3>3. Source(e) \in GraphNodes /\ Destination(e) \in GraphNodes
      BY <2>1, <3>2, GraphIs DEF Assigned
    <3>4. CASE node_parts[Source(e)] = p
      BY <3>1, <3>2, <3>3, <3>4, InnerIdsAre
    <3>5. CASE node_parts[Source(e)] # p
      <4>1. Source(e) \in Halo(p)
        BY <3>5 DEF Halo
      <4>2. edge.src \in LoadedGraph(p).halo
        BY <3>1, <4>1, EdgesAre
      <4> QED
        BY <3>1, <3>2, <3>3, <4>2, InnerIdsAre
    <3> QED
      BY <3>4, <3>5
  <2>3. ASSUME NEW i \in 0..(Len(graph.edges) - 1)
        PROVE  Cardinality({p \in Parts : \E edge \in LoadedGraph(p).edges : edge.id = i}) = 1
    <3>1. PICK e \in Edges : NewEdge(e) = i
      BY <2>1, NewEdges
    <3>2. node_parts[Destination(e)] \in Parts
      BY <2>1, GraphIs DEF Assigned
    <3>3. \A p \in Parts :
            (\E edge \in LoadedGraph(p).edges : edge.id = i) <=> p = node_parts[Destination(e)]
      <4> TAKE p \in Parts
      <4>1. ASSUME NEW edge \in LoadedGraph(p).edges, edge.id = i
            PROVE  p = node_parts[Destination(e)]
        <5>1. PICK f \in PartEdges(p) : edge.id = NewEdge(f)
          BY EdgesAre
        <5>2. f \in Edges /\ node_parts[Destination(f)] = p
          BY DEF PartEdges
        <5> QED
          BY <2>1, <3>1, <4>1, <5>1, <5>2, NewEdges
      <4>2. ASSUME p = node_parts[Destination(e)]
            PROVE  \E edge \in LoadedGraph(p).edges : edge.id = i
        <5>1. e \in PartEdges(p)
          BY <4>2 DEF PartEdges
        <5> DEFINE edge == [id |-> NewEdge(e), src |-> NewNode(Source(e)),
                            dst |-> NewNode(Destination(e))]
        <5>2. edge \in LoadedGraph(p).edges /\ edge.id = i
          BY <3>1, <5>1, EdgesAre
        <5> QED
          BY <5>2
      <4> QED
        BY <4>1, <4>2
    <3>4. {p \in Parts : \E edge \in LoadedGraph(p).edges : edge.id = i} =
            {node_parts[Destination(e)]}
      BY <3>2, <3>3
    <3> QED
      BY <3>4, FS_Singleton
  <2> QED
    BY <2>2, <2>3 DEF EdgesWithDestination
<1> QED
  BY <1>1, PartitionInvAlways, PTL

\* A node that the override leaves alone is loaded by the machine of its trainer
\* (partition_graph, aly_partition.py 686-755 and 922-948).
THEOREM WithTrainer == PartitionSpec => []TrainersCoalesced
<1>1. PartitionInv => TrainersCoalesced
  <2> SUFFICES ASSUME PartitionInv, Loadable, NEW p \in Parts
               PROVE  /\ \A type \in NTypes : \A k \in DOMAIN LoadedFeats(p)[type] :
                           LET row == LoadedFeats(p)[type][k]
                           IN  row.node >= 2 * Boundary =>
                                 \A t \in row.trainer : t \div call.trainers = p
                      /\ \A type \in ETypes : \A e \in DOMAIN LoadedEdgeFeats(p)[type] :
                           LET row == LoadedEdgeFeats(p)[type][e]
                           IN  Destination(row.edge) >= 2 * Boundary =>
                                 \A t \in row.trainer : t \div call.trainers = p
    BY DEF TrainersCoalesced
  <2>1. /\ Assigned /\ Coalesced
        /\ LoadedFeats(p) = NodeFeats(p) /\ LoadedEdgeFeats(p) = EdgeFeats(p)
    BY LoadedIs
  <2>2. ASSUME NEW n \in GraphNodes, node_parts[n] = p, n >= 2 * Boundary, NEW t \in TrainerOf(n)
        PROVE  t \div call.trainers = p
    BY <2>1, <2>2 DEF Coalesced, TrainerOf
  <2>3. ASSUME NEW type \in NTypes, NEW k \in DOMAIN LoadedFeats(p)[type],
               LoadedFeats(p)[type][k].node >= 2 * Boundary,
               NEW t \in LoadedFeats(p)[type][k].trainer
        PROVE  t \div call.trainers = p
    <3> DEFINE s == InnerNodes(p, type)
    <3>1. LoadedFeats(p)[type] = [i \in DOMAIN s |-> Row(s[i])]
      BY <2>1, RowsFollow
    <3>2. k \in DOMAIN s /\ LoadedFeats(p)[type][k] = Row(s[k])
      BY <3>1
    <3>3. s[k] \in Inner(p, type)
      BY <2>1, <3>2, InnerNodesAre
    <3>4. LoadedFeats(p)[type][k].node = s[k] /\ LoadedFeats(p)[type][k].trainer = TrainerOf(s[k])
      BY <3>2 DEF Row
    <3>5. s[k] \in GraphNodes /\ node_parts[s[k]] = p
      BY <3>3 DEF Inner
    <3> HIDE DEF s
    <3> QED
      BY <2>2, <2>3, <3>4, <3>5
  <2>4. ASSUME NEW type \in ETypes, NEW e \in DOMAIN LoadedEdgeFeats(p)[type],
               NEW row, row = LoadedEdgeFeats(p)[type][e],
               Destination(row.edge) >= 2 * Boundary, NEW t \in row.trainer
        PROVE  t \div call.trainers = p
    <3>0. LoadedEdgeFeats(p)[type] = [f \in InnerEdges(p, type) |-> EdgeRow(f)]
      BY <2>1, EdgeRowsAre
    <3>1. e \in InnerEdges(p, type) /\ row = EdgeRow(e)
      BY <2>4, <3>0
    <3>2. e \in Edges /\ node_parts[Destination(e)] = p
      BY <3>1 DEF InnerEdges, PartEdges
    <3>3. row.edge = e /\ row.trainer = TrainerOf(Destination(e)) /\ Destination(e) \in GraphNodes
      BY <2>1, <3>1, <3>2, GraphIs DEF EdgeRow, Assigned
    <3> QED
      BY <2>2, <2>4, <3>2, <3>3
  <2> QED
    BY <2>3, <2>4
<1> QED
  BY <1>1, PartitionInvAlways, PTL
=============================================================================
