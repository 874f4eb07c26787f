------------------------------ MODULE Partition ------------------------------
(***************************************************************************)
(* srcChange/partition/aly_partition.py and python/GraphPartition.py, which *)
(* calls it: partition_graph() splits a graph into parts, renumbers its    *)
(* nodes and edges, and writes for each part its structure and its rows of *)
(* the features, and at last the configuration that load_partition() reads *)
(* all of it by.  A run may stop anywhere; the next uses the same directory.*)
(*                                                                         *)
(* The graph is in its homogeneous form sim_g: nodes 0, 1, ... in the order *)
(* of their types.  What an earlier run has written is kept as its number. *)
(* External: metis and random_choice (any assignment is theirs),           *)
(* partition_graph_with_halo and the partition book.                       *)
(***************************************************************************)
EXTENDS Integers, Sequences, FiniteSets, SequencesExt

CONSTANTS
    Graphs,      \* records [ntype : node -> type, edges : Seq(<<source, destination>>)]
    Calls,       \* records [num_parts, trainers, part_method, reshuffle]
    Boundary,    \* 98308: the nodes below go to part 0, as many again to part 1
    TrainNum,    \* 480000: nodes of the training set
    ValNum,      \* 36000
    MaxParts,    \* (a bound) on num_parts
    MaxRuns      \* (a bound) on the runs over the directory

\* Nodes 0, 1, ... in the order of their types.
IsGraph(g) ==
    LET nodes == DOMAIN g.ntype
    IN  /\ IsFiniteSet(nodes) /\ g.ntype \in [0..(Cardinality(nodes) - 1) -> Nat]
        /\ \A m, n \in nodes : m <= n => g.ntype[m] <= g.ntype[n]
        /\ g.edges \in Seq(nodes \X nodes)

ASSUME PartitionAssumption ==
    /\ Boundary \in Nat /\ MaxParts \in Nat
    /\ \A g \in Graphs : IsGraph(g)
    /\ \A c \in Calls :
        c.num_parts \in 1..MaxParts /\ c.trainers \in Nat \ {0} /\ c.reshuffle \in BOOLEAN

VARIABLES
    graph,        \* the graph that is partitioned
    call,         \* the arguments
    stage,        \* where the run is
    run,          \* its number
    trainer_id,   \* the node data of that name; empty if there is none
    node_parts,   \* the part of each node
    part_id,      \* the part that is saved
    saved,        \* what this run has written to each file
    written,      \* which run has written each file last; 0 if there is no such file
    torn,         \* the files that a run was writing when it stopped
    named         \* the number of parts that the configuration names

partitionVars ==
    <<graph, call, stage, run, trainer_id, node_parts, part_id, saved, written, torn, named>>
inputs == <<graph, call, run>>
files == <<saved, written, torn, named>>

PartFiles(p) == {<<"node_feat", p>>, <<"edge_feat", p>>, <<"graph", p>>}
MapFiles == {<<"node_map", 0>>, <<"edge_map", 0>>}
Config == <<"config", 0>>
Files == (UNION {PartFiles(p) : p \in 0..(MaxParts - 1)}) \cup MapFiles \cup {Config}

NoAnswer == <<>>

-----------------------------------------------------------------------------
\* The graph

GraphNodes == DOMAIN graph.ntype
Edges == DOMAIN graph.edges
Source(e) == graph.edges[e][1]
Destination(e) == graph.edges[e][2]
NTypes == {graph.ntype[n] : n \in GraphNodes}
EType(e) == <<graph.ntype[Source(e)], graph.ntype[Destination(e)]>>
ETypes == {EType(e) : e \in Edges}
IsHomogeneous == Cardinality(NTypes) = 1 /\ Cardinality(ETypes) = 1
Parts == 0..(call.num_parts - 1)

\* sim_g.ndata[NID]: the id of a node among those of its type.
TypedId(n) == Cardinality({m \in GraphNodes : m < n /\ graph.ntype[m] = graph.ntype[n]})

\* The node of a type that has an id.
NodeAt(type, id) == CHOOSE n \in GraphNodes : graph.ntype[n] = type /\ TypedId(n) = id

TypedIds == {<<graph.ntype[n], TypedId(n)>> : n \in GraphNodes}

\* sim_g.edata[EID] and the edge of a type that has an id, likewise.
TypedEdgeId(e) == Cardinality({f \in Edges : f < e /\ EType(f) = EType(e)})
EdgeAt(type, id) == CHOOSE e \in Edges : EType(e) = type /\ TypedEdgeId(e) = id

\* The masks that the script sets, whatever the data set said: the nodes at
\* TrainNum and at TrainNum + ValNum are in none.
Masks(n) ==
    (IF n < TrainNum THEN {"train"} ELSE {})
    \cup (IF n > TrainNum /\ n < TrainNum + ValNum THEN {"val"} ELSE {})
    \cup (IF n > TrainNum + ValNum THEN {"test"} ELSE {})

-----------------------------------------------------------------------------
\* partition_graph_with_halo()

Lower(s, t) ==
    \E k \in DOMAIN s : s[k] < t[k] /\ \A j \in 1..(k - 1) : s[j] = t[j]

NodeKey(n) == <<node_parts[n], graph.ntype[n], n>>
EdgeKey(e) == <<node_parts[Destination(e)], EType(e)[1], EType(e)[2], e>>

\* With reshuffle, ids are given out part by part, in a part type by type.
NewNode(n) ==
    IF call.reshuffle
    THEN Cardinality({m \in GraphNodes : Lower(NodeKey(m), NodeKey(n))})
    ELSE n

NewEdge(e) ==
    IF call.reshuffle
    THEN Cardinality({f \in Edges : Lower(EdgeKey(f), EdgeKey(e))})
    ELSE e - 1

\* An edge is where its destination is; its source comes along as a halo node.
PartEdges(p) == {e \in Edges : node_parts[Destination(e)] = p}
Halo(p) == {Source(e) : e \in PartEdges(p)} \ {n \in GraphNodes : node_parts[n] = p}

\* The nodes of a part and type that _get_inner_node_mask() selects, and the edges that
\* _get_inner_edge_mask() does.
Inner(p, type) == {n \in GraphNodes : node_parts[n] = p /\ graph.ntype[n] = type}
InnerNodes(p, type) ==
    [k \in 1..Cardinality(Inner(p, type)) |->
        CHOOSE n \in Inner(p, type) : Cardinality({m \in Inner(p, type) : m < n}) = k - 1]

InnerEdges(p, type) == {e \in PartEdges(p) : EType(e) = type}

-----------------------------------------------------------------------------
\* partition_graph(), in memory

PartitionInit ==
    /\ graph \in Graphs /\ call \in Calls
    /\ stage = "idle" /\ run = 0 /\ part_id = 0 /\ named = 0
    /\ trainer_id = <<>> /\ node_parts = <<>>
    /\ saved = [f \in Files |-> NoAnswer]
    /\ written = [f \in Files |-> 0]
    /\ torn = {}

Goes(from, to) == stage = from /\ stage' = to

\* The script is started, on an empty directory or on what an earlier run has left.
Start ==
    /\ run < MaxRuns /\ stage \in {"idle", "dead", "done"} /\ stage' = "assign"
    /\ run' = run + 1
    /\ call' \in Calls
    /\ trainer_id' = <<>> /\ node_parts' = <<>> /\ part_id' = 0
    /\ saved' = [f \in Files |-> NoAnswer]
    /\ UNCHANGED <<graph, written, torn, named>>

\* _set_trainer_ids(): type by type, at the ids of the type.
SetTrainerIds(assigned) == [id \in TypedIds |-> assigned[NodeAt(id[1], id[2])]]

\* What the two assignments to node_parts leave of what metis or random_choice said.
Overridden(assigned) ==
    [n \in GraphNodes |->
        IF n < Boundary THEN 0 ELSE IF n < 2 * Boundary THEN 1 ELSE assigned[n]]

\* One part: nothing to assign but, with several trainers, the trainers.
AssignOne ==
    /\ call.num_parts = 1 /\ Goes("assign", "split")
    /\ node_parts' = [n \in GraphNodes |-> 0]
    /\ IF call.trainers = 1
       THEN UNCHANGED trainer_id
       ELSE \E assigned \in [GraphNodes -> 0..(call.trainers - 1)] :
                trainer_id' = SetTrainerIds(assigned)
    /\ UNCHANGED <<inputs, part_id, files>>

\* Slip: the trainers of a machine are not put together again by a division.
AssignTrainersByRemainder ==
    /\ call.num_parts > 1 /\ call.part_method = "metis" /\ call.trainers > 1
    /\ Goes("assign", "split")
    /\ \E assigned \in [GraphNodes -> 0..(call.num_parts * call.trainers - 1)] :
        /\ trainer_id' = SetTrainerIds(assigned)
        /\ node_parts' = Overridden([n \in GraphNodes |-> assigned[n] % call.num_parts])
    /\ UNCHANGED <<inputs, part_id, files>>

\* Metis assigns to trainers; those of one machine make up a part.
AssignTrainers ==
    /\ call.num_parts > 1 /\ call.part_method = "metis" /\ call.trainers > 1
    /\ Goes("assign", "split")
    /\ \E assigned \in [GraphNodes -> 0..(call.num_parts * call.trainers - 1)] :
        /\ trainer_id' = SetTrainerIds(assigned)
        /\ node_parts' = Overridden([n \in GraphNodes |-> assigned[n] \div call.trainers])
    /\ UNCHANGED <<inputs, part_id, files>>

\* Metis with one trainer a machine, or random, which does not ask for the trainers.
Assign ==
    /\ call.num_parts > 1
    /\ \/ call.part_method = "metis" /\ call.trainers = 1
       \/ call.part_method = "random"
    /\ Goes("assign", "split")
    /\ \E assigned \in [GraphNodes -> Parts] : node_parts' = Overridden(assigned)
    /\ UNCHANGED <<inputs, trainer_id, part_id, files>>

\* raise Exception('Unknown partitioning method')
RefuseMethod ==
    /\ call.num_parts > 1 /\ call.part_method \notin {"metis", "random"}
    /\ Goes("assign", "dead")
    /\ UNCHANGED <<inputs, trainer_id, node_parts, part_id, files>>

\* With reshuffle, every part has to have nodes and edges of every type: the first and
\* the last of them are asked for.  Without, there must be one type only.
Splittable ==
    IF call.reshuffle
    THEN \A p \in Parts :
            /\ \A type \in NTypes : Inner(p, type) # {}
            /\ \A type \in ETypes : InnerEdges(p, type) # {}
    ELSE IsHomogeneous

SplitGraph ==
    /\ Goes("split", IF call.reshuffle THEN "node_feat" ELSE "node_map") /\ Splittable
    /\ UNCHANGED <<inputs, trainer_id, node_parts, part_id, files>>

RefuseSplit ==
    /\ Goes("split", "dead") /\ ~Splittable
    /\ UNCHANGED <<inputs, trainer_id, node_parts, part_id, files>>

-----------------------------------------------------------------------------
\* What is saved

\* Slip: the last id itself.
NodeRangeToLast(p, type) ==
    LET inner == InnerNodes(p, type)
    IN  <<NewNode(Head(inner)), NewNode(Last(inner))>>

\* The first id of a part and type, and the one after the last.
NodeRange(p, type) ==
    LET inner == InnerNodes(p, type)
    IN  <<NewNode(Head(inner)), NewNode(Last(inner)) + 1>>

EdgeRange(p, type) ==
    LET ids == {NewEdge(e) : e \in InnerEdges(p, type)}
    IN  <<CHOOSE i \in ids : \A j \in ids : i <= j, (CHOOSE i \in ids : \A j \in ids : i >= j) + 1>>

NodeMap == [type \in NTypes |-> [p \in Parts |-> NodeRange(p, type)]]
EdgeMap == [type \in ETypes |-> [p \in Parts |-> EdgeRange(p, type)]]

\* What the maps of a graph that keeps its ids say instead, id by id.
NodeParts == node_parts
EdgeParts == [i \in 0..(Len(graph.edges) - 1) |-> node_parts[Destination(i + 1)]]

TrainerOf(n) ==
    IF trainer_id = <<>> THEN {} ELSE {trainer_id[<<graph.ntype[n], TypedId(n)>>]}

\* A row of the features names the node it is about.
Row(n) == [node |-> n, masks |-> Masks(n), trainer |-> TrainerOf(n)]
EdgeRow(e) == [edge |-> e, trainer |-> TrainerOf(Destination(e))]

\* Slip: the new ids of the nodes, where the features are in the order of the old.
LocalNodesByNewId(p, type) ==
    LET inner == InnerNodes(p, type)
    IN  [k \in DOMAIN inner |->
            IF Cardinality(NTypes) > 1 THEN TypedId(inner[k]) ELSE NewNode(inner[k])]

\* The rows of g.nodes[type].data to gather: by orig_id, and for several types by what
\* sim_g says orig_id is among them.
LocalNodes(p, type) ==
    LET inner == InnerNodes(p, type)
    IN  [k \in DOMAIN inner |-> IF Cardinality(NTypes) > 1 THEN TypedId(inner[k]) ELSE inner[k]]

NodeFeats(p) ==
    [type \in NTypes |->
        LET local == LocalNodes(p, type)
        IN  [k \in DOMAIN local |-> Row(NodeAt(type, local[k]))]]

\* The row of g.edges[type].data to gather for an edge, likewise; ids count from 0.
LocalEdge(e) == IF IsHomogeneous THEN e - 1 ELSE TypedEdgeId(e)

\* The rows gathered for the edges of a part, each at the place of its edge.
EdgeFeats(p) ==
    [type \in ETypes |->
        [e \in InnerEdges(p, type) |-> EdgeRow(EdgeAt(type, LocalEdge(e)))]]

PartGraph(p) ==
    [inner |-> [type \in NTypes |->
                   LET s == InnerNodes(p, type) IN [k \in DOMAIN s |-> NewNode(s[k])]],
     halo  |-> {NewNode(n) : n \in Halo(p)},
     edges |-> {[id |-> NewEdge(e), src |-> NewNode(Source(e)), dst |-> NewNode(Destination(e))] :
                    e \in PartEdges(p)}]

Write(file, content) ==
    /\ saved' = [saved EXCEPT ![file] = content]
    /\ written' = [written EXCEPT ![file] = run]
    /\ torn' = torn \ {file}

SaveNodeMap ==
    /\ Goes("node_map", "edge_map") /\ Write(<<"node_map", 0>>, NodeParts)
    /\ UNCHANGED <<inputs, trainer_id, node_parts, part_id, named>>

SaveEdgeMap ==
    /\ Goes("edge_map", "node_feat") /\ Write(<<"edge_map", 0>>, EdgeParts)
    /\ UNCHANGED <<inputs, trainer_id, node_parts, part_id, named>>

SaveNodeFeats ==
    /\ Goes("node_feat", "edge_feat") /\ Write(<<"node_feat", part_id>>, NodeFeats(part_id))
    /\ UNCHANGED <<inputs, trainer_id, node_parts, part_id, named>>

SaveEdgeFeats ==
    /\ Goes("edge_feat", "graph") /\ Write(<<"edge_feat", part_id>>, EdgeFeats(part_id))
    /\ UNCHANGED <<inputs, trainer_id, node_parts, part_id, named>>

\* Slip: the structure of the first part is saved for all.
SaveGraphOfFirst ==
    /\ Goes("graph", IF part_id + 1 < call.num_parts THEN "node_feat" ELSE "config")
    /\ Write(<<"graph", part_id>>, PartGraph(0))
    /\ part_id' = part_id + 1
    /\ UNCHANGED <<inputs, trainer_id, node_parts, named>>

\* Slip: the last part is left out.
SaveGraphButLast ==
    /\ Goes("graph", IF part_id + 2 < call.num_parts THEN "node_feat" ELSE "config")
    /\ Write(<<"graph", part_id>>, PartGraph(part_id))
    /\ part_id' = part_id + 1
    /\ UNCHANGED <<inputs, trainer_id, node_parts, named>>

SaveGraph ==
    /\ Goes("graph", IF part_id + 1 < call.num_parts THEN "node_feat" ELSE "config")
    /\ Write(<<"graph", part_id>>, PartGraph(part_id))
    /\ part_id' = part_id + 1
    /\ UNCHANGED <<inputs, trainer_id, node_parts, named>>

\* _dump_part_config(), when everything it names is there.
DumpConfig ==
    /\ Goes("config", "done")
    /\ Write(Config, [node_map |-> IF call.reshuffle THEN NodeMap ELSE NoAnswer,
                      edge_map |-> IF call.reshuffle THEN EdgeMap ELSE NoAnswer])
    /\ named' = call.num_parts
    /\ UNCHANGED <<inputs, trainer_id, node_parts, part_id>>

-----------------------------------------------------------------------------

WritePlaces == {"node_map", "edge_map", "node_feat", "edge_feat", "graph", "config"}

FileOf == IF stage \in {"node_map", "edge_map", "config"} THEN <<stage, 0>> ELSE <<stage, part_id>>

\* The run ends before it writes a file, or in the middle of it.
Crash ==
    /\ stage \notin {"idle", "dead", "done"} /\ stage' = "dead"
    /\ \/ UNCHANGED <<written, torn>>
       \/ /\ stage \in WritePlaces
          /\ written' = [written EXCEPT ![FileOf] = run]
          /\ torn' = torn \cup {FileOf}
    /\ UNCHANGED <<inputs, trainer_id, node_parts, part_id, saved, named>>

PartitionNext ==
    \/ Start \/ AssignOne \/ AssignTrainers \/ Assign \/ RefuseMethod
    \/ SplitGraph \/ RefuseSplit
    \/ SaveNodeMap \/ SaveEdgeMap
    \/ SaveNodeFeats \/ SaveEdgeFeats \/ SaveGraph \/ DumpConfig
    \/ Crash

PartitionSpec == PartitionInit /\ [][PartitionNext]_partitionVars

-----------------------------------------------------------------------------
\* load_partition() and load_partition_book()

Readable == written[Config] # 0 /\ Config \notin torn

\* There is something of this run to load.
Loadable == Readable /\ written[Config] = run

LoadedGraph(p) == saved[<<"graph", p>>]
LoadedFeats(p) == saved[<<"node_feat", p>>]
LoadedEdgeFeats(p) == saved[<<"edge_feat", p>>]

\* The partition books: by ranges, or by the arrays of the map files.
InRange(map, type, p, id) == map[type][p][1] <= id /\ id < map[type][p][2]

PartsOfNode(id) ==
    IF call.reshuffle
    THEN LET map == saved[Config].node_map
         IN  {p \in Parts : \E type \in DOMAIN map : InRange(map, type, p, id)}
    ELSE {saved[<<"node_map", 0>>][id]}

PartsOfEdge(id) ==
    IF call.reshuffle
    THEN LET map == saved[Config].edge_map
         IN  {p \in Parts : \E type \in DOMAIN map : InRange(map, type, p, id)}
    ELSE {saved[<<"edge_map", 0>>][id]}

InnerIds(p) == UNION {ToSet(LoadedGraph(p).inner[type]) : type \in NTypes}

-----------------------------------------------------------------------------
\* Properties

\* What load_partition() asserts in debug mode: the book puts the nodes and edges that a
\* part holds into that part, and into no other.
BookAgrees ==
    Loadable => \A p \in Parts :
        /\ \A id \in InnerIds(p) : PartsOfNode(id) = {p}
        /\ \A e \in LoadedGraph(p).edges : PartsOfEdge(e.id) = {p}

\* The row that is loaded for the k-th inner node of a type is that of the node the
\* new id stands for, and all rows together hold every node once.
NodeRowsFollow ==
    /\ \A p \in Parts : \A type \in NTypes :
        LET ids == LoadedGraph(p).inner[type]
            rows == LoadedFeats(p)[type]
        IN  /\ Len(rows) = Len(ids)
            /\ \A k \in DOMAIN ids : NewNode(rows[k].node) = ids[k]
    /\ \A n \in GraphNodes : \E p \in Parts : \E type \in NTypes :
        \E k \in DOMAIN LoadedFeats(p)[type] : LoadedFeats(p)[type][k] = Row(n)

\* The row at the place of an edge is that of the edge, and every edge of the part has one.
EdgeRowsFollow ==
    \A p \in Parts :
        /\ \A type \in ETypes : \A e \in DOMAIN LoadedEdgeFeats(p)[type] :
            LoadedEdgeFeats(p)[type][e] = EdgeRow(e)
        /\ \A edge \in LoadedGraph(p).edges : \E type \in ETypes :
            \E e \in DOMAIN LoadedEdgeFeats(p)[type] : NewEdge(e) = edge.id

\* A row that is loaded belongs to the node or edge it is loaded for, whichever of the
\* three numberings it was gathered by.
FeaturesFollow == Loadable => NodeRowsFollow /\ EdgeRowsFollow

\* Every edge is in one part, that of its destination, and its source is there too, as
\* a node of the part or of its halo.
EdgesWithDestination ==
    Loadable =>
        /\ \A p \in Parts : \A e \in LoadedGraph(p).edges :
            e.dst \in InnerIds(p) /\ e.src \in InnerIds(p) \cup LoadedGraph(p).halo
        /\ \A i \in 0..(Len(graph.edges) - 1) :
            Cardinality({p \in Parts : \E e \in LoadedGraph(p).edges : e.id = i}) = 1

\* A node that the override leaves alone is in the part of the machine that its trainer
\* is on, as is an edge to it.
TrainersCoalesced ==
    Loadable => \A p \in Parts :
        /\ \A type \in NTypes : \A k \in DOMAIN LoadedFeats(p)[type] :
            LET row == LoadedFeats(p)[type][k]
            IN  row.node >= 2 * Boundary => \A t \in row.trainer : t \div call.trainers = p
        /\ \A type \in ETypes : \A e \in DOMAIN LoadedEdgeFeats(p)[type] :
            LET row == LoadedEdgeFeats(p)[type][e]
            IN  Destination(row.edge) >= 2 * Boundary =>
                    \A t \in row.trainer : t \div call.trainers = p

\* Wherever runs have stopped, a configuration that can be read names parts that are
\* whole and of one run, unless a later run has begun to write over them.
LoadsAreWhole ==
    (Readable /\ \A f \in Files : written[f] <= written[Config]) =>
        \A p \in 0..(named - 1) : \A f \in PartFiles(p) :
            written[f] = written[Config] /\ f \notin torn
=============================================================================
