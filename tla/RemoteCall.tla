------------------------------ MODULE RemoteCall ------------------------------
(***************************************************************************)
(* What bearRPC promises about calls, on either side of a connection: an   *)
(* answer belongs to a call that was made, and no call is answered twice.  *)
(* A reply may answer several calls at once (a batch), and a call may be   *)
(* given up.  RpcServer and RpcClient are both shown to implement this     *)
(* specification.                                                          *)
(***************************************************************************)
EXTENDS Naturals, Sequences, FiniteSets, SequencesExt

CONSTANT Calls

VARIABLES
    open,             \* made and not answered yet
    answers           \* the replies so far, each the sequence of the calls it answers

vars == <<open, answers>>

Init == open = {} /\ answers = <<>>

Answered == UNION {Range(answers[n]) : n \in DOMAIN answers}

Make(S) ==
    /\ S \cap (open \cup Answered) = {}
    /\ open' = open \cup S
    /\ UNCHANGED answers

Answer(S) ==
    /\ \E s \in SetToSeqs(S) : answers' = Append(answers, s)
    /\ open' = open \ S

GiveUp(S) ==
    /\ open' = open \ S
    /\ UNCHANGED answers

Next ==
    \/ \E c \in Calls : Make({c})
    \/ \E S \in SUBSET open : Answer(S) \/ GiveUp(S)

Spec == Init /\ [][Next]_vars
=============================================================================
