------------------------------ MODULE RpcServer ------------------------------
(***************************************************************************)
(* bearTcpServer.cc: the server's end of one connection.  The loop's       *)
(* thread cuts the byte stream into messages and dispatches them; services *)
(* answer their calls at any later time, on any thread; the answers to a   *)
(* batch are collected and sent together when the last reference to them   *)
(* is dropped.                                                             *)
(*                                                                         *)
(* A message is [batch, items]: one item, or a JSON array of items.  What  *)
(* an item leads to is all that counts:                                    *)
(*   call       a request that reaches its procedure                       *)
(*   badCall    a request that validation or the lookup refuses            *)
(*   notify     a notification that reaches its procedure                  *)
(*   badNotify  one refused with a NotifyException                         *)
(*   oddNotify  one refused with a RequestException                        *)
(*   junk       not JSON, or a value of another type                       *)
(* Item i of the m-th message the server has taken is the pair <<m, i>>.   *)
(***************************************************************************)
EXTENDS Naturals, Sequences, FiniteSets, SequencesExt

CONSTANTS
    Messages,         \* what the peer may send
    MaxItems,         \* bound: items of a message
    MaxFrames         \* bound: messages and other lines it sends

Items  == {"call", "badCall", "notify", "badNotify", "oddNotify", "junk"}
Throws == {"badCall", "badNotify", "oddNotify", "junk"}

ASSUME MessagesAssumption ==
    /\ Messages \subseteq [batch : BOOLEAN, items : Seq(Items)]
    /\ \A msg \in Messages :
        /\ Len(msg.items) <= MaxItems
        /\ msg.batch \/ Len(msg.items) = 1
    /\ MaxFrames \in Nat /\ MaxItems \in Nat

VARIABLES
    sends,            \* frames the peer has sent
    wire,             \* what is on its way: lengths, bodies and other lines
    buffer,           \* what has arrived and was not retrieved
    pc,               \* where the loop's thread is
    taken,            \* the messages retrieved
    next,             \* the item of the batch handleBatchRequests is at
    held,             \* calls whose callback the services have and not called
    called,           \* calls whose callback was called and still exists
    holders,          \* who refers to the data of a batch: 0 is the handler
    responses,        \* the items a batch has responses for
    replies           \* what was sent: the message answered, and its items

vars == <<sends, wire, buffer, pc, taken, next, held, called, holders,
          responses, replies>>
streamVars == <<sends, wire, buffer>>
batchVars  == <<holders, responses>>

\* idle: waiting for input; loop: in the while loop of handleMessage; batch: in
\* handleBatchRequests; terminated: an exception that nobody caught.
Places == {"idle", "loop", "batch", "terminated"}

Alive == pc # "terminated"

\* The two lines of a message, an empty line, and a bad or too great length.
NoMessage == [batch |-> TRUE, items |-> <<>>]
Unit(part, msg) == [part |-> part, msg |-> msg]
Units == [part : {"length", "body", "blank", "badLength"},
          msg : Messages \cup {NoMessage}]

Numbers   == 1 .. MaxFrames
Positions == 1 .. MaxItems
Calls     == Numbers \X Positions

TypeOK ==
    /\ sends \in 0 .. MaxFrames
    /\ wire \in Seq(Units) /\ buffer \in Seq(Units)
    /\ pc \in Places
    /\ taken \in Seq(Messages)
    /\ next \in 0 .. MaxItems + 1
    /\ held \subseteq Calls /\ called \subseteq Calls
    /\ holders \in [Numbers -> SUBSET ({0} \cup Positions)]
    /\ responses \in [Numbers -> Seq(Positions)]
    /\ replies \in Seq([of : Numbers, items : Seq(Positions)])

Init ==
    /\ sends = 0 /\ wire = <<>> /\ buffer = <<>>
    /\ pc = "idle" /\ taken = <<>> /\ next = 0
    /\ held = {} /\ called = {}
    /\ holders = [m \in Numbers |-> {}]
    /\ responses = [m \in Numbers |-> <<>>]
    /\ replies = <<>>

Reply(m, items) == replies' = Append(replies, [of |-> m, items |-> items])

\* One reference to the data of batch m goes; the last one sends the reply.
Drop(m, h) ==
    /\ holders' = [holders EXCEPT ![m] = @ \ {h}]
    /\ IF holders[m] = {h} THEN Reply(m, responses[m]) ELSE UNCHANGED replies

current == Len(taken)

-----------------------------------------------------------------------------
\* The peer and the network

Send ==
    /\ Alive /\ sends < MaxFrames
    /\ sends' = sends + 1
    /\ \/ \E msg \in Messages :
            wire' = wire \o <<Unit("length", msg), Unit("body", msg)>>
       \/ \E line \in {"blank", "badLength"} :
            wire' = Append(wire, Unit(line, NoMessage))
    /\ UNCHANGED <<buffer, pc, taken, next, held, called, batchVars, replies>>

\* Some of the bytes arrive: onMessage is called, and with it handleMessage.
Arrive ==
    /\ pc = "idle"
    /\ \E n \in 1 .. Len(wire) :
        /\ buffer' = buffer \o SubSeq(wire, 1, n)
        /\ wire' = SubSeq(wire, n + 1, Len(wire))
    /\ pc' = "loop"
    /\ UNCHANGED <<sends, taken, next, held, called, batchVars, replies>>

-----------------------------------------------------------------------------
\* handleMessage

\* No line end yet, or a body that has not arrived: wait for more.
Incomplete == Len(buffer) < 2 /\ (buffer # <<>> => Head(buffer).part = "length")

NeedMore ==
    /\ pc = "loop" /\ Incomplete
    /\ pc' = "idle"
    /\ UNCHANGED <<streamVars, taken, next, held, called, batchVars, replies>>

\* An empty line is skipped, and ends the loop.
SkipBlank ==
    /\ pc = "loop" /\ buffer # <<>> /\ Head(buffer).part = "blank"
    /\ buffer' = Tail(buffer)
    /\ pc' = "idle"
    /\ UNCHANGED <<sends, wire, taken, next, held, called, batchVars, replies>>

\* "invalid message length", "message is too long"
RejectLength ==
    /\ pc = "loop" /\ buffer # <<>> /\ Head(buffer).part = "badLength"
    /\ pc' = "terminated"
    /\ UNCHANGED <<streamVars, taken, next, held, called, batchVars, replies>>

\* The next message, complete, is taken out of the buffer.
Retrieve(msg) ==
    /\ pc = "loop" /\ ~Incomplete
    /\ Head(buffer) = Unit("length", msg)
    /\ buffer' = SubSeq(buffer, 3, Len(buffer))
    /\ taken' = Append(taken, msg)

\* handleRequest of a single request: a call gives the service a callback, a
\* notification leaves nothing behind, an exception passes through onMessage.
HandleSingle ==
    /\ \E msg \in Messages :
        /\ Retrieve(msg) /\ ~msg.batch
        /\ held' = IF msg.items[1] = "call" THEN held \cup {<<current + 1, 1>>}
                   ELSE held
        /\ pc' = IF msg.items[1] \in Throws THEN "terminated" ELSE pc
    /\ UNCHANGED <<sends, wire, next, called, batchVars, replies>>

\* Slip: the handler of the batch has no reference to its data of its own.
BeginBatchUnheld ==
    /\ \E msg \in Messages :
        /\ Retrieve(msg) /\ msg.batch
        /\ pc' = IF msg.items = <<>> THEN "terminated" ELSE "batch"
        /\ next' = 1
        /\ UNCHANGED holders
    /\ UNCHANGED <<sends, wire, held, called, responses, replies>>

\* handleRequest of a batch: an empty one is an exception, any other gets its
\* ThreadSafeBatchResponse.
BeginBatch ==
    /\ \E msg \in Messages :
        /\ Retrieve(msg) /\ msg.batch
        /\ IF msg.items = <<>>
           THEN pc' = "terminated" /\ UNCHANGED <<next, holders>>
           ELSE /\ pc' = "batch" /\ next' = 1
                /\ holders' = [holders EXCEPT ![current + 1] = {0}]
    /\ UNCHANGED <<sends, wire, held, called, responses, replies>>

-----------------------------------------------------------------------------
\* handleBatchRequests

items == taken[current].items

BatchGoesOn == pc = "batch" /\ next <= Len(items)

\* A call: its callback refers to the data of the batch.
BatchCall ==
    /\ BatchGoesOn /\ items[next] = "call"
    /\ held' = held \cup {<<current, next>>}
    /\ holders' = [holders EXCEPT ![current] = @ \cup {next}]
    /\ next' = next + 1
    /\ UNCHANGED <<streamVars, pc, taken, called, responses, replies>>

BatchNotify ==
    /\ BatchGoesOn /\ items[next] = "notify"
    /\ next' = next + 1
    /\ UNCHANGED <<streamVars, pc, taken, held, called, batchVars, replies>>

\* An exception ends the batch.  A RequestException becomes a response, a
\* NotifyException does not; what follows in the batch is never looked at.
BatchThrows ==
    /\ BatchGoesOn /\ items[next] \in Throws
    /\ responses' = IF items[next] = "badNotify" THEN responses
                    ELSE [responses EXCEPT ![current] = Append(@, next)]
    /\ next' = Len(items) + 1
    /\ UNCHANGED <<streamVars, pc, taken, held, called, holders, replies>>

\* Slip: handleBatchRequests replies with the responses there are.
EndBatchReplies ==
    /\ pc = "batch" /\ next > Len(items)
    /\ holders' = [holders EXCEPT ![current] = @ \ {0}]
    /\ Reply(current, responses[current])
    /\ pc' = "loop"
    /\ UNCHANGED <<streamVars, taken, next, held, called, responses>>

\* handleBatchRequests returns and drops its reference.
EndBatch ==
    /\ pc = "batch" /\ next > Len(items)
    /\ Drop(current, 0)
    /\ pc' = "loop"
    /\ UNCHANGED <<streamVars, taken, next, held, called, responses>>

-----------------------------------------------------------------------------
\* Services answer

\* A service calls the callback of a call: the response is sent, or added to
\* those of its batch.
Answer(c) ==
    /\ Alive /\ c \in held
    /\ held' = held \ {c} /\ called' = called \cup {c}
    /\ IF taken[c[1]].batch
       THEN /\ responses' = [responses EXCEPT ![c[1]] = Append(@, c[2])]
            /\ UNCHANGED replies
       ELSE Reply(c[1], <<c[2]>>) /\ UNCHANGED responses
    /\ UNCHANGED <<streamVars, pc, taken, next, holders>>

\* Slip: a callback that is destroyed keeps its reference.
ReleaseLeaks(c) ==
    /\ Alive /\ c \in called
    /\ called' = called \ {c}
    /\ UNCHANGED <<streamVars, pc, taken, next, held, batchVars, replies>>

\* The callback is destroyed, and with it its reference to the batch.
Release(c) ==
    /\ Alive /\ c \in called
    /\ called' = called \ {c}
    /\ IF taken[c[1]].batch THEN Drop(c[1], c[2]) ELSE UNCHANGED <<holders, replies>>
    /\ UNCHANGED <<streamVars, pc, taken, next, held, responses>>

-----------------------------------------------------------------------------

HandleMessage ==
    \/ NeedMore \/ SkipBlank \/ RejectLength \/ HandleSingle \/ BeginBatch
    \/ BatchCall \/ BatchNotify \/ BatchThrows \/ EndBatch

Next ==
    \/ Send \/ Arrive \/ HandleMessage
    \/ \E c \in held \cup called : Answer(c) \/ Release(c)

Spec == Init /\ [][Next]_vars

\* The loop's thread goes on, and every service calls and then gives up the
\* callbacks it was handed.  Nothing is promised of the peer.
Fairness ==
    /\ WF_vars(HandleMessage)
    /\ \A c \in Calls : WF_vars((c \in held /\ Answer(c)) \/ (c \in called /\ Release(c)))

FairSpec == Spec /\ Fairness

-----------------------------------------------------------------------------
\* Properties

Replied(m) == \E n \in DOMAIN replies : replies[n].of = m

\* A message is replied to once, and the reply to a batch comes last: nobody
\* refers to the batch any more, and every call of it that reached its procedure
\* has exactly one response in it.
BatchRepliesAreFinal ==
    \A n \in DOMAIN replies :
        LET m == replies[n].of IN
        /\ \A k \in DOMAIN replies : replies[k].of = m => k = n
        /\ taken[m].batch =>
            /\ \A c \in held \cup called : c[1] # m
            /\ ~(pc = "batch" /\ m = current)
            /\ replies[n].items = responses[m] /\ IsInjective(responses[m])

\* What a peer may expect is RemoteCall: every response answers a request that
\* was made, alone or in a batch, and none is answered twice.  A request of a batch
\* that is refused is made and answered by handleBatchRequests itself.
CallsOf(m, numbers) == [k \in DOMAIN numbers |-> <<m, numbers[k]>>]
Answers == [n \in DOMAIN replies |-> CallsOf(replies[n].of, replies[n].items)]
Collected == UNION {Range(CallsOf(m, responses[m])) : m \in {k \in Numbers : ~Replied(k)}}
OpenCalls == held \cup Collected
RC == INSTANCE RemoteCall WITH open <- OpenCalls, answers <- Answers
ImplementsRemoteCall == RC!Spec

\* Every call that reached its procedure is answered, and every batch that was
\* begun is replied to, unless a later message brings the server down.  Services call
\* back before they let go of a callback, which is for them to do.
CallsAreAnswered ==
    /\ \A c \in Calls : c \in held ~> (c \in RC!Answered \/ ~Alive)
    /\ \A m \in Numbers : holders[m] # {} ~> (Replied(m) \/ ~Alive)
=============================================================================
