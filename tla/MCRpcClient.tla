----------------------------- MODULE MCRpcClient -----------------------------
(***************************************************************************)
(* RpcClient on a small instance: every response alone, and in batches of  *)
(* at most two.                                                            *)
(***************************************************************************)
EXTENDS RpcClient

MCItems ==
    [kind : {"answer"}, id : Ids] \cup [kind : {"flawed"}, id : {0, 1}]
    \cup [kind : {"garbled"}, id : {0}]
MCMessages ==
    [batch : {FALSE}, items : {<<i>> : i \in MCItems}]
    \cup [batch : {TRUE}, items : BoundedSeq(MCItems, 2)]
=============================================================================
