----------------------------- MODULE MCRpcServer -----------------------------
(***************************************************************************)
(* RpcServer on a small instance: every single message, and the batches    *)
(* that have at most two items.                                            *)
(***************************************************************************)
EXTENDS RpcServer

MCMessages ==
    [batch : {FALSE}, items : {<<i>> : i \in Items}]
    \cup [batch : {TRUE}, items : BoundedSeq(Items, MaxItems)]
=============================================================================
