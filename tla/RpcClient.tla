------------------------------ MODULE RpcClient ------------------------------
(***************************************************************************)
(* bearTcpClinet.h: the client's end of one connection.  Calls are         *)
(* numbered by id_, their callbacks wait in callbacks_, and a response is  *)
(* matched with its callback by its id alone.  Everything happens on the   *)
(* loop's thread, but callbacks may make further calls, and what arrives   *)
(* is the peer's choice: the client must be correct whatever it sends.     *)
(*                                                                         *)
(* A response leads to one of three things, its kind:                      *)
(*   answer   a result or an error, with the id of a call                  *)
(*   flawed   its id is read, then it is refused: wrong version, no error  *)
(*   garbled  refused before its id is known: not three fields, no id of   *)
(*            32 bits, not JSON                                            *)
(***************************************************************************)
EXTENDS Integers, Sequences, FiniteSets, SequencesExt

CONSTANTS
    Messages,         \* what the peer may send: one response or several
    MaxCalls,         \* bound: calls made
    MaxFrames,        \* bound: messages and other lines the peer sends
    Int32Max          \* the greatest id a response may carry

Ids   == 0 .. MaxCalls - 1
Kinds == {"answer", "flawed", "garbled"}
Items == [kind : Kinds, id : Ids]

ASSUME MessagesAssumption ==
    /\ MaxCalls \in Nat \ {0} /\ MaxFrames \in Nat /\ Int32Max \in Nat
    /\ Messages \subseteq [batch : BOOLEAN, items : Seq(Items)]
    /\ \A msg \in Messages : msg.batch \/ Len(msg.items) = 1

VARIABLES
    sent,             \* the frames the peer has sent
    wire,             \* what is on its way: lengths, bodies and other lines
    buffer,           \* what has arrived and was not retrieved
    nextId,           \* id_
    callbacks,        \* the ids callbacks_ has an entry for
    pc,               \* where the loop's thread is
    todo,             \* the responses of the message at hand not handled yet
    dangling,         \* a rehash invalidated the iterator handleSingleResponse holds
    invoked           \* the ids whose callbacks were called, in order

vars == <<sent, wire, buffer, nextId, callbacks, pc, todo, dangling, invoked>>

\* idle: waiting for input; loop: in the while loop of handleMessage; responses:
\* in handleResponse; callback: in the callback of the first of todo; undefined:
\* an invalid iterator was erased, and nothing is known of what follows.
Places == {"idle", "loop", "responses", "callback", "undefined"}
Defined == pc # "undefined"

\* badLength: a line that is not a length, an empty one too; tooLong: a length
\* of kMaxMessageLen or more.
NoMessage == [batch |-> TRUE, items |-> <<>>]
Unit(part, msg) == [part |-> part, msg |-> msg]
Units == [part : {"length", "body", "badLength", "tooLong"},
          msg : Messages \cup {NoMessage}]

TypeOK ==
    /\ sent \in Seq(Units) /\ Len(sent) <= MaxFrames
    /\ wire \in Seq(Units) /\ buffer \in Seq(Units)
    /\ nextId \in 0 .. MaxCalls
    /\ callbacks \subseteq 0 .. nextId - 1
    /\ pc \in Places
    /\ todo \in Seq(Items) /\ (pc \in {"idle", "loop"} => todo = <<>>)
    /\ dangling \in BOOLEAN
    /\ invoked \in Seq(0 .. nextId - 1)

Init ==
    /\ sent = <<>> /\ wire = <<>> /\ buffer = <<>>
    /\ nextId = 0 /\ callbacks = {}
    /\ pc = "idle" /\ todo = <<>> /\ dangling = FALSE /\ invoked = <<>>

-----------------------------------------------------------------------------
\* Calls, between events or in a callback

\* The insertion into callbacks_, an unordered_map, may rehash: then the iterator of
\* the entry whose callback makes the call is no longer valid.
SendCall ==
    /\ pc \in {"idle", "callback"}
    /\ nextId < MaxCalls
    /\ callbacks' = callbacks \cup {nextId}
    /\ nextId' = nextId + 1
    /\ \E rehash \in BOOLEAN : dangling' = (pc = "callback" /\ (dangling \/ rehash))
    /\ UNCHANGED <<sent, wire, buffer, pc, todo, invoked>>

-----------------------------------------------------------------------------
\* The peer and the network

PeerSends ==
    /\ Defined /\ Len(sent) < MaxFrames
    /\ \/ \E msg \in Messages :
            /\ sent' = Append(sent, Unit("body", msg))
            /\ wire' = wire \o <<Unit("length", msg), Unit("body", msg)>>
       \/ \E line \in {"badLength", "tooLong"} :
            /\ sent' = Append(sent, Unit(line, NoMessage))
            /\ wire' = Append(wire, Unit(line, NoMessage))
    /\ UNCHANGED <<buffer, nextId, callbacks, pc, todo, dangling, invoked>>

\* Some of the bytes arrive: onMessage is called, and with it handleMessage.
Arrive ==
    /\ pc = "idle"
    /\ \E n \in 1 .. Len(wire) :
        /\ buffer' = buffer \o SubSeq(wire, 1, n)
        /\ wire' = SubSeq(wire, n + 1, Len(wire))
    /\ pc' = "loop"
    /\ UNCHANGED <<sent, nextId, callbacks, todo, dangling, invoked>>

-----------------------------------------------------------------------------
\* handleMessage

\* No line end yet, or a body that has not arrived: wait for more.
Incomplete == Len(buffer) < 2 /\ (buffer # <<>> => Head(buffer).part = "length")

NeedMore ==
    /\ pc = "loop" /\ Incomplete
    /\ pc' = "idle"
    /\ UNCHANGED <<sent, wire, buffer, nextId, callbacks, todo, dangling, invoked>>

\* An exception ends handleMessage and is caught in onMessage.  A line that is
\* not a length was retrieved before, one that is too great was not.
RejectLength ==
    /\ pc = "loop" /\ buffer # <<>>
    /\ \/ Head(buffer).part = "badLength" /\ buffer' = Tail(buffer)
       \/ Head(buffer).part = "tooLong" /\ UNCHANGED buffer
    /\ pc' = "idle"
    /\ UNCHANGED <<sent, wire, nextId, callbacks, todo, dangling, invoked>>

\* The next message, complete, is taken out of the buffer.  An empty batch is
\* an exception.
Retrieve ==
    /\ pc = "loop" /\ ~Incomplete /\ Head(buffer).part = "length"
    /\ buffer' = SubSeq(buffer, 3, Len(buffer))
    /\ todo' = Head(buffer).msg.items
    /\ pc' = IF todo' = <<>> THEN "idle" ELSE "responses"
    /\ UNCHANGED <<sent, wire, nextId, callbacks, dangling, invoked>>

-----------------------------------------------------------------------------
\* handleResponse and handleSingleResponse

At(response) == pc = "responses" /\ todo # <<>> /\ response = Head(todo)

\* validateResponse wants an id of 32 bits before it looks at anything else.
IdIsRead(response) == response.kind # "garbled" /\ response.id <= Int32Max

\* An exception without an id: the rest of the message is dropped.
RejectGarbled ==
    /\ \E r \in Items : At(r) /\ ~IdIsRead(r)
    /\ pc' = "idle" /\ todo' = <<>>
    /\ UNCHANGED <<sent, wire, buffer, nextId, callbacks, dangling, invoked>>

\* One with an id: the callback of that call is dropped too, and never called.
RejectFlawed ==
    /\ \E r \in Items :
        /\ At(r) /\ r.kind = "flawed" /\ IdIsRead(r)
        /\ callbacks' = callbacks \ {r.id}
    /\ pc' = "idle" /\ todo' = <<>>
    /\ UNCHANGED <<sent, wire, buffer, nextId, dangling, invoked>>

\* "response %d not found in stub"
SkipUnknown ==
    /\ \E r \in Items :
        At(r) /\ r.kind = "answer" /\ IdIsRead(r) /\ r.id \notin callbacks
    /\ todo' = Tail(todo)
    /\ UNCHANGED <<sent, wire, buffer, nextId, callbacks, pc, dangling, invoked>>

Invoke ==
    /\ \E r \in Items :
        /\ At(r) /\ r.kind = "answer" /\ IdIsRead(r) /\ r.id \in callbacks
        /\ invoked' = Append(invoked, r.id)
    /\ pc' = "callback"
    /\ UNCHANGED <<sent, wire, buffer, nextId, callbacks, todo, dangling>>

\* erase(it): the standard promises nothing of an iterator a rehash has invalidated.
\* Where it still leads to the entry, that entry goes; otherwise anything happens.
EraseFound(entries) ==
    /\ pc = "callback"
    /\ dangling' = FALSE
    /\ \/ /\ callbacks' = callbacks \ entries
          /\ todo' = Tail(todo)
          /\ pc' = "responses"
       \/ /\ dangling
          /\ pc' = "undefined"
          /\ UNCHANGED <<callbacks, todo>>
    /\ UNCHANGED <<sent, wire, buffer, nextId, invoked>>

\* Slips: a callback stays registered after it was called; the entry made last is
\* erased, not the one that was looked up.
CallbackReturnsKeeps == EraseFound({})
CallbackReturnsErasesNewest == EraseFound({nextId - 1})

\* The callback returns and its entry is erased.
CallbackReturns == EraseFound({Head(todo).id})

\* Slip: one message per call of onMessage.
ResponseDoneAndOut ==
    /\ pc = "responses" /\ todo = <<>>
    /\ pc' = "idle"
    /\ UNCHANGED <<sent, wire, buffer, nextId, callbacks, todo, dangling, invoked>>

\* Back to the loop of handleMessage.
ResponseDone ==
    /\ pc = "responses" /\ todo = <<>>
    /\ pc' = "loop"
    /\ UNCHANGED <<sent, wire, buffer, nextId, callbacks, todo, dangling, invoked>>

-----------------------------------------------------------------------------

OnMessage ==
    \/ NeedMore \/ RejectLength \/ Retrieve
    \/ RejectGarbled \/ RejectFlawed \/ SkipUnknown
    \/ Invoke \/ CallbackReturns \/ ResponseDone

Next == SendCall \/ PeerSends \/ Arrive \/ OnMessage

Spec == Init /\ [][Next]_vars

\* What was sent arrives, and the loop's thread goes on.  Nobody has to call,
\* and nothing is promised of the peer.
Fairness == WF_vars(Arrive) /\ WF_vars(OnMessage)

FairSpec == Spec /\ Fairness

-----------------------------------------------------------------------------
\* Properties

Responses(frame) == Range(frame.msg.items)

\* The peer has sent a flawed response with this id.
Blamed(id) ==
    \E n \in DOMAIN sent : \E r \in Responses(sent[n]) : r.kind = "flawed" /\ r.id = id

\* A call is never forgotten: its callback waits or was called, unless the peer
\* has sent a flawed response with its id.  Whatever else the peer sends, and
\* whatever calls the callbacks make, nothing drops it, as long as the erasure
\* through an invalid iterator leaves the program defined.
NoCallLost ==
    Defined =>
        \A id \in 0 .. nextId - 1 : id \in callbacks \cup Range(invoked) \/ Blamed(id)

\* A callback is called at most once, after its call was made, however often and
\* early the peer repeats an id: duplicates in one batch, responses to calls that
\* a callback is just making; up to an undefined erasure, where a behaviour ends.
OpenCalls == callbacks \ (IF pc \in {"callback", "undefined"} THEN {Head(todo).id} ELSE {})
Answers == [n \in DOMAIN invoked |-> <<invoked[n]>>]
RC == INSTANCE RemoteCall WITH Calls <- Ids, open <- OpenCalls, answers <- Answers
ImplementsRemoteCall == RC!Spec

\* An answer that is on its way to a call reaches its callback, however the bytes
\* are cut, as long as the peer has sent nothing the client refuses: an exception
\* leaves what follows in the buffer, until something more arrives; and as long as
\* no erasure through an invalid iterator went wrong.
OnItsWay(id) ==
    \E unit \in Range(wire) \cup Range(buffer) :
        unit.part = "body" /\ [kind |-> "answer", id |-> id] \in Responses(unit)
Refused ==
    \E n \in DOMAIN sent :
        \/ sent[n].part # "body" \/ sent[n].msg.items = <<>>
        \/ \E r \in Responses(sent[n]) : r.kind # "answer" \/ ~IdIsRead(r)
AnswersAreDelivered ==
    \A id \in Ids :
        (id \in callbacks /\ OnItsWay(id)) ~> (id \in Range(invoked) \/ Refused \/ ~Defined)
=============================================================================
