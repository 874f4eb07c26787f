----------------------------- MODULE MCPartition -----------------------------
\* Five nodes: of one type, and of two with edges of two types.
EXTENDS Partition
OneType == [ntype |-> [n \in 0..4 |-> 0],
            edges |-> <<<<0, 1>>, <<2, 0>>, <<3, 1>>, <<1, 4>>, <<4, 2>>>>]
TwoTypes == [ntype |-> [n \in 0..4 |-> IF n < 3 THEN 0 ELSE 1],
             edges |-> <<<<0, 1>>, <<2, 0>>, <<0, 3>>, <<1, 4>>, <<2, 4>>>>]
MCGraphs == {OneType, TwoTypes}
Call(parts, trainers, method, shuffled) ==
    [num_parts |-> parts, trainers |-> trainers, part_method |-> method, reshuffle |-> shuffled]
MCCalls == {Call(1, 2, "metis", TRUE), Call(1, 1, "metis", FALSE), Call(2, 2, "metis", TRUE),
            Call(2, 1, "metis", FALSE), Call(3, 1, "random", TRUE), Call(2, 1, "other", TRUE)}
===============================================================================
