--------------------------- MODULE RpcServer_proofs ---------------------------
(***************************************************************************)
(* Theorems about RpcServer, whatever messages the peer sends, however     *)
(* many, with batches of any length, and whenever the services answer.     *)
(***************************************************************************)
EXTENDS RpcServer, SequenceTheorems, FiniteSetTheorems, TLAPS

-----------------------------------------------------------------------------
\* What is sent and taken

LEMMA MessagesAre ==
  /\ MaxItems \in Nat /\ MaxFrames \in Nat
  /\ \A msg \in Messages :
      /\ msg.batch \in BOOLEAN /\ msg.items \in Seq(Items)
      /\ Len(msg.items) \in 0 .. MaxItems
      /\ msg.batch \/ Len(msg.items) = 1
      /\ \A i \in 1 .. Len(msg.items) : msg.items[i] \in Items
<1> SUFFICES ASSUME NEW msg \in Messages
             PROVE  /\ msg.batch \in BOOLEAN /\ msg.items \in Seq(Items)
                    /\ Len(msg.items) \in 0 .. MaxItems
                    /\ msg.batch \/ Len(msg.items) = 1
                    /\ \A i \in 1 .. Len(msg.items) : msg.items[i] \in Items
  BY MessagesAssumption
<1>1. msg \in [batch : BOOLEAN, items : Seq(Items)] /\ Len(msg.items) <= MaxItems
  BY MessagesAssumption
<1>2. Len(msg.items) \in Nat /\ \A i \in 1 .. Len(msg.items) : msg.items[i] \in Items
  BY <1>1, LenProperties, ElementOfSeq
<1> QED
  BY <1>1, <1>2, MessagesAssumption

LEMMA UnitsAre ==
  /\ \A msg \in Messages : Unit("length", msg) \in Units /\ Unit("body", msg) \in Units
  /\ Unit("blank", NoMessage) \in Units /\ Unit("badLength", NoMessage) \in Units
BY DEF Units, Unit

\* The bytes are cut anywhere; nothing is added or lost.
LEMMA Cut ==
  ASSUME NEW s \in Seq(Units), NEW m \in 1 .. Len(s) + 1
  PROVE  SubSeq(s, m, Len(s)) \in Seq(Units) /\ Len(SubSeq(s, m, Len(s))) = Len(s) + 1 - m
<1>1. Len(s) \in Nat /\ m \in Int /\ \A i \in m .. Len(s) : s[i] \in Units
  BY LenProperties, ElementOfSeq
<1> QED
  BY <1>1, SubSeqProperties

LEMMA FirstPart ==
  ASSUME NEW s \in Seq(Units), NEW n \in 1 .. Len(s)
  PROVE  SubSeq(s, 1, n) \in Seq(Units) /\ Len(SubSeq(s, 1, n)) = n
<1>1. Len(s) \in Nat /\ n \in Int /\ 1 \in Int /\ \A i \in 1 .. n : s[i] \in Units
  BY LenProperties, ElementOfSeq
<1> QED
  BY <1>1, SubSeqProperties

-----------------------------------------------------------------------------
\* Type correctness.  A message is two units and comes from one frame: this is why
\* no more than MaxFrames are ever taken.
StreamInv ==
    /\ Len(buffer) + Len(wire) + 2 * Len(taken) <= 2 * sends
    /\ pc = "batch" => /\ taken # <<>> /\ taken[current].batch
                       /\ next \in 1 .. Len(items) + 1

TypeInv == TypeOK /\ StreamInv

LEMMA Lengths ==
  ASSUME TypeInv
  PROVE  /\ Len(buffer) \in Nat /\ Len(wire) \in Nat /\ current \in 0 .. MaxFrames
         /\ \A m \in 1 .. current : m \in Numbers /\ taken[m] \in Messages
         /\ taken \in [1 .. current -> Messages]
<1>1. Len(buffer) \in Nat /\ Len(wire) \in Nat /\ current \in Nat
  BY LenProperties DEF TypeInv, TypeOK, current
<1>2. current <= MaxFrames
  BY <1>1, MessagesAre DEF TypeInv, TypeOK, StreamInv, current
<1>3. taken \in [1 .. current -> Messages]
  BY LenProperties DEF TypeInv, TypeOK, current
<1> QED
  BY <1>1, <1>2, <1>3, MessagesAre DEF Numbers

\* What is retrieved is a message, and its number is a new one.
LEMMA Retrieved ==
  ASSUME TypeInv, NEW msg \in Messages, Retrieve(msg)
  PROVE  /\ buffer' \in Seq(Units) /\ Len(buffer') = Len(buffer) - 2 /\ 2 <= Len(buffer)
         /\ taken' \in Seq(Messages) /\ Len(taken') = current + 1
         /\ \A m \in 1 .. current : taken'[m] = taken[m]
         /\ taken'[current + 1] = msg
         /\ sends' = sends /\ wire' = wire => current + 1 \in Numbers
<1>1. Len(buffer) \in Nat /\ current \in Nat /\ buffer \in Seq(Units) /\ taken \in Seq(Messages)
  BY Lengths DEF TypeInv, TypeOK
<1>2. Head(buffer).part = "length"
  BY DEF Retrieve, Unit
<1>3. 2 <= Len(buffer)
  BY <1>1, <1>2 DEF Retrieve, Incomplete
<1>4. buffer' \in Seq(Units) /\ Len(buffer') = Len(buffer) - 2
  <2>1. 3 \in 1 .. Len(buffer) + 1 /\ Len(buffer) + 1 - 3 = Len(buffer) - 2
    BY <1>1, <1>3
  <2>2. buffer' = SubSeq(buffer, 3, Len(buffer))
    BY DEF Retrieve
  <2> QED
    BY <1>1, <2>1, <2>2, Cut
<1>5. /\ taken' \in Seq(Messages) /\ Len(taken') = current + 1
      /\ \A m \in 1 .. current : taken'[m] = taken[m]
      /\ taken'[current + 1] = msg
  BY <1>1, AppendProperties DEF Retrieve, current
<1>6. current + 1 \in Numbers
  BY <1>1, <1>3, Lengths, MessagesAre DEF TypeInv, TypeOK, StreamInv, Numbers, current
<1> QED
  BY <1>3, <1>4, <1>5, <1>6

LEMMA TypeInit == Init => TypeInv
<1> SUFFICES ASSUME Init PROVE TypeInv
  OBVIOUS
<1>1. \A S : <<>> \in Seq(S) /\ Len(<<>>) = 0
  BY EmptySeq
<1> QED
  BY <1>1, MessagesAre DEF Init, TypeInv, TypeOK, StreamInv, Places

\* A reference goes, and with the last one the reply.
LEMMA DropTypes ==
  ASSUME TypeInv, NEW m \in Numbers, NEW h, Drop(m, h)
  PROVE  /\ holders' \in [Numbers -> SUBSET ({0} \cup Positions)]
         /\ replies' \in Seq([of : Numbers, items : Seq(Positions)])
<1>1. responses[m] \in Seq(Positions)
  BY DEF TypeInv, TypeOK
<1>2. Reply(m, responses[m]) => replies' \in Seq([of : Numbers, items : Seq(Positions)])
  BY <1>1, AppendProperties DEF TypeInv, TypeOK, Reply
<1> QED
  BY <1>2 DEF TypeInv, TypeOK, Drop

LEMMA TypeStep == TypeInv /\ [Next]_vars => TypeInv'
<1> SUFFICES ASSUME TypeInv, [Next]_vars PROVE TypeInv'
  OBVIOUS
<1>0. /\ Len(buffer) \in Nat /\ Len(wire) \in Nat /\ current \in 0 .. MaxFrames
      /\ \A m \in 1 .. current : m \in Numbers /\ taken[m] \in Messages
      /\ MaxItems \in Nat /\ MaxFrames \in Nat
  BY Lengths, MessagesAre
<1>1. CASE Send
  <2>1. ASSUME NEW msg \in Messages, wire' = wire \o <<Unit("length", msg), Unit("body", msg)>>
        PROVE  wire' \in Seq(Units) /\ Len(wire') <= Len(wire) + 2 /\ Len(wire') \in Nat
    <3>1. <<Unit("length", msg), Unit("body", msg)>> \in Seq(Units)
      BY UnitsAre
    <3> QED
      BY <1>0, <2>1, <3>1, ConcatProperties DEF TypeInv, TypeOK
  <2>2. ASSUME NEW line \in {"blank", "badLength"}, wire' = Append(wire, Unit(line, NoMessage))
        PROVE  wire' \in Seq(Units) /\ Len(wire') <= Len(wire) + 2 /\ Len(wire') \in Nat
    BY <1>0, <2>2, UnitsAre, AppendProperties DEF TypeInv, TypeOK
  <2>3. wire' \in Seq(Units) /\ Len(wire') <= Len(wire) + 2 /\ Len(wire') \in Nat
    BY <1>1, <2>1, <2>2 DEF Send
  <2> QED
    BY <1>0, <1>1, <2>3 DEF Send, TypeInv, TypeOK, StreamInv, current, items, batchVars
<1>2. CASE Arrive
  <2>1. PICK n \in 1 .. Len(wire) :
               /\ buffer' = buffer \o SubSeq(wire, 1, n)
               /\ wire' = SubSeq(wire, n + 1, Len(wire))
    BY <1>2 DEF Arrive
  <2>2. /\ SubSeq(wire, 1, n) \in Seq(Units) /\ Len(SubSeq(wire, 1, n)) = n
        /\ wire' \in Seq(Units) /\ Len(wire') = Len(wire) - n
    BY <1>0, <2>1, Cut, FirstPart DEF TypeInv, TypeOK
  <2>3. buffer' \in Seq(Units) /\ Len(buffer') = Len(buffer) + n
    BY <2>1, <2>2, ConcatProperties DEF TypeInv, TypeOK
  <2>4. Len(buffer') + Len(wire') + 2 * Len(taken') <= 2 * sends'
    <3>1. Len(taken') = current /\ sends' = sends /\ n \in Nat /\ sends \in Nat
      BY <1>0, <1>2 DEF Arrive, TypeInv, TypeOK, current
    <3>2. Len(buffer') + Len(wire') = Len(buffer) + Len(wire)
      BY <1>0, <2>2, <2>3, <3>1
    <3> QED
      BY <1>0, <3>1, <3>2 DEF TypeInv, StreamInv, current
  <2>5. pc' = "loop" /\ UNCHANGED <<sends, taken, next, held, called, batchVars, replies>>
    BY <1>2 DEF Arrive
  <2> QED
    BY <2>2, <2>3, <2>4, <2>5 DEF TypeInv, TypeOK, StreamInv, Places, batchVars
<1>3. CASE NeedMore \/ RejectLength
  BY <1>3 DEF NeedMore, RejectLength, TypeInv, TypeOK, StreamInv, Places, streamVars, batchVars,
     current
<1>4. CASE SkipBlank
  <2>1. buffer' \in Seq(Units) /\ Len(buffer') = Len(buffer) - 1
    BY <1>4, HeadTailProperties DEF SkipBlank, TypeInv, TypeOK
  <2> QED
    BY <1>0, <1>4, <2>1 DEF SkipBlank, TypeInv, TypeOK, StreamInv, Places, batchVars, current
<1>5. CASE HandleSingle
  <2>1. PICK msg \in Messages :
               /\ Retrieve(msg) /\ ~msg.batch
               /\ held' = IF msg.items[1] = "call" THEN held \cup {<<current + 1, 1>>} ELSE held
               /\ pc' = IF msg.items[1] \in Throws THEN "terminated" ELSE pc
    BY <1>5 DEF HandleSingle
  <2>2. 1 \in Positions /\ pc = "loop"
    BY <2>1, MessagesAre DEF Positions, Retrieve
  <2>3. held' \subseteq Calls /\ pc' \in Places /\ pc' # "batch"
    BY <1>5, <2>1, <2>2, Retrieved DEF HandleSingle, TypeInv, TypeOK, Calls, Places
  <2> QED
    BY <1>0, <1>5, <2>1, <2>3, Retrieved DEF HandleSingle, TypeInv, TypeOK, StreamInv, batchVars,
       current
<1>6. CASE BeginBatch
  <2>1. PICK msg \in Messages :
               /\ Retrieve(msg) /\ msg.batch
               /\ IF msg.items = <<>>
                  THEN pc' = "terminated" /\ UNCHANGED <<next, holders>>
                  ELSE /\ pc' = "batch" /\ next' = 1
                       /\ holders' = [holders EXCEPT ![current + 1] = {0}]
    BY <1>6 DEF BeginBatch
  <2>2. holders' \in [Numbers -> SUBSET ({0} \cup Positions)] /\ next' \in 0 .. MaxItems + 1
    <3>1. [holders EXCEPT ![current + 1] = {0}] \in [Numbers -> SUBSET ({0} \cup Positions)]
      BY DEF TypeInv, TypeOK
    <3>2. 1 \in 0 .. MaxItems + 1 /\ next \in 0 .. MaxItems + 1
      BY <1>0 DEF TypeInv, TypeOK
    <3>3. holders \in [Numbers -> SUBSET ({0} \cup Positions)]
      BY DEF TypeInv, TypeOK
    <3> QED
      BY <2>1, <3>1, <3>2, <3>3
  <2>3. Len(buffer') + Len(wire') + 2 * Len(taken') <= 2 * sends'
    BY <1>0, <1>6, <2>1, Retrieved DEF BeginBatch, TypeInv, TypeOK, StreamInv, current
  <2>4. pc' = "batch" => taken' # <<>> /\ taken'[current'].batch /\ next' \in 1 .. Len(items') + 1
    <3>1. current' = current + 1 /\ items' = msg.items
      BY <2>1, Retrieved DEF current, items
    <3> QED
      BY <1>0, <2>1, <3>1, Retrieved, MessagesAre DEF current
  <2> QED
    BY <1>6, <2>1, <2>2, <2>3, <2>4, Retrieved DEF BeginBatch, TypeInv, TypeOK, StreamInv, Places
<1>7. ASSUME pc = "batch"
      PROVE  /\ current \in Numbers /\ Len(items) \in 0 .. MaxItems /\ taken[current].batch
             /\ next \in 1 .. Len(items) + 1
             /\ next <= Len(items) => next \in Positions /\ <<current, next>> \in Calls
  <2>1. current \in 1 .. current /\ next \in 1 .. Len(items) + 1
    <3>1. current # 0
      BY <1>7, EmptySeq DEF TypeInv, TypeOK, StreamInv, current
    <3> QED
      BY <1>0, <1>7, <3>1 DEF TypeInv, StreamInv
  <2>2. Len(items) \in 0 .. MaxItems
    BY <1>0, <2>1, MessagesAre DEF items
  <2> QED
    BY <1>0, <1>7, <2>1, <2>2 DEF TypeInv, StreamInv, Positions, Calls
<1>8. CASE BatchCall
  <2>1. pc = "batch" /\ next <= Len(items)
    BY <1>8 DEF BatchCall, BatchGoesOn
  <2>2. held' \subseteq Calls /\ holders' \in [Numbers -> SUBSET ({0} \cup Positions)]
    BY <1>7, <1>8, <2>1 DEF BatchCall, TypeInv, TypeOK
  <2>3. next' \in 1 .. Len(items) + 1 /\ next' \in 0 .. MaxItems + 1
    BY <1>0, <1>7, <1>8, <2>1 DEF BatchCall
  <2> QED
    BY <1>8, <2>1, <2>2, <2>3 DEF BatchCall, TypeInv, TypeOK, StreamInv, streamVars, items,
       current
<1>9. CASE BatchNotify
  <2>1. pc = "batch" /\ next <= Len(items)
    BY <1>9 DEF BatchNotify, BatchGoesOn
  <2>2. next' \in 1 .. Len(items) + 1 /\ next' \in 0 .. MaxItems + 1
    BY <1>0, <1>7, <1>9, <2>1 DEF BatchNotify
  <2> QED
    BY <1>9, <2>1, <2>2 DEF BatchNotify, TypeInv, TypeOK, StreamInv, streamVars, batchVars,
       items, current
<1>10. CASE BatchThrows
  <2>1. pc = "batch" /\ next <= Len(items)
    BY <1>10 DEF BatchThrows, BatchGoesOn
  <2>2. responses' \in [Numbers -> Seq(Positions)]
    <3>1. Append(responses[current], next) \in Seq(Positions)
      BY <1>7, <2>1, AppendProperties DEF TypeInv, TypeOK
    <3> QED
      BY <1>7, <1>10, <2>1, <3>1 DEF BatchThrows, TypeInv, TypeOK
  <2>3. next' \in 1 .. Len(items) + 1 /\ next' \in 0 .. MaxItems + 1
    BY <1>0, <1>7, <1>10, <2>1 DEF BatchThrows
  <2> QED
    BY <1>10, <2>1, <2>2, <2>3 DEF BatchThrows, TypeInv, TypeOK, StreamInv, streamVars, items,
       current
<1>11. CASE EndBatch
  <2>1. pc = "batch" /\ Drop(current, 0)
    BY <1>11 DEF EndBatch
  <2> QED
    BY <1>7, <1>11, <2>1, DropTypes DEF EndBatch, TypeInv, TypeOK, StreamInv, streamVars, Places,
       current
<1>12. ASSUME NEW c \in held \cup called, Answer(c) PROVE TypeInv'
  <2>1. c \in Calls /\ c[1] \in Numbers /\ c[2] \in Positions
    BY DEF TypeInv, TypeOK, Calls
  <2>2. responses[c[1]] \in Seq(Positions) /\ Append(responses[c[1]], c[2]) \in Seq(Positions)
    BY <2>1, AppendProperties DEF TypeInv, TypeOK
  <2>3. [of |-> c[1], items |-> <<c[2]>>] \in [of : Numbers, items : Seq(Positions)]
    BY <2>1
  <2>4. /\ responses' \in [Numbers -> Seq(Positions)]
        /\ replies' \in Seq([of : Numbers, items : Seq(Positions)])
    <3>1. CASE taken[c[1]].batch
      <4>1. responses' = [responses EXCEPT ![c[1]] = Append(responses[c[1]], c[2])] /\ replies' = replies
        BY <1>12, <3>1 DEF Answer
      <4> QED
        BY <2>2, <4>1 DEF TypeInv, TypeOK
    <3>2. CASE ~taken[c[1]].batch
      <4>1. /\ replies' = Append(replies, [of |-> c[1], items |-> <<c[2]>>])
            /\ responses' = responses
        BY <1>12, <3>2 DEF Answer, Reply
      <4> QED
        BY <2>3, <4>1, AppendProperties DEF TypeInv, TypeOK
    <3> QED
      BY <3>1, <3>2
  <2> QED
    BY <1>12, <2>1, <2>4 DEF Answer, TypeInv, TypeOK, StreamInv, streamVars, items, current
<1>13. ASSUME NEW c \in held \cup called, Release(c) PROVE TypeInv'
  <2>1. c \in Calls /\ c[1] \in Numbers
    BY DEF TypeInv, TypeOK, Calls
  <2>2. /\ holders' \in [Numbers -> SUBSET ({0} \cup Positions)]
        /\ replies' \in Seq([of : Numbers, items : Seq(Positions)])
    BY <1>13, <2>1, DropTypes DEF Release, TypeInv, TypeOK
  <2> QED
    BY <1>13, <2>1, <2>2 DEF Release, TypeInv, TypeOK, StreamInv, streamVars, items, current
<1>14. CASE UNCHANGED vars
  BY <1>14 DEF vars, TypeInv, TypeOK, StreamInv, items, current
<1> QED
  BY <1>1, <1>2, <1>3, <1>4, <1>5, <1>6, <1>8, <1>9, <1>10, <1>11, <1>12, <1>13, <1>14
  DEF Next, HandleMessage

LEMMA TypeInvAlways == Spec => []TypeInv
BY TypeInit, TypeStep, PTL DEF Spec

\* The types are right, and never more messages are taken than frames were sent.
THEOREM TypeCorrect == Spec => []TypeOK
<1>1. TypeInv => TypeOK
  BY DEF TypeInv
<1> QED
  BY <1>1, TypeInvAlways, PTL

-----------------------------------------------------------------------------
(***************************************************************************)
(* The reply to a batch is final.  The proof keeps, for every batch, who   *)
(* refers to its data: its handler, as long as it is at it, and every      *)
(* callback that exists.  While there is such a one the batch has not been *)
(* replied to; afterwards nothing touches its responses.                   *)
(***************************************************************************)

\* Message m was taken and is a batch; the handler is at it.
IsBatch(m) == m <= current /\ taken[m].batch
InHandler(m) == pc = "batch" /\ m = current

\* The callbacks of m that exist.
Outstanding(m) == {i \in Positions : <<m, i>> \in held \cup called}

\* A callback belongs to an item the server has been at, and is called once.
CallInv ==
    /\ held \cap called = {}
    /\ \A c \in held \cup called :
        /\ c[1] <= current /\ (taken[c[1]].batch \/ c[2] = 1)
        /\ InHandler(c[1]) => c[2] < next

HolderInv ==
    \A m \in Numbers :
        holders[m] =
            IF IsBatch(m) THEN (IF InHandler(m) THEN {0} ELSE {}) \cup Outstanding(m)
            ELSE {}

\* An item has one response at most, and none while its callback was not called.
ResponseInv ==
    \A m \in Numbers :
        /\ ~IsBatch(m) => responses[m] = <<>>
        /\ IsInjective(responses[m])
        /\ \A k \in DOMAIN responses[m] :
            /\ <<m, responses[m][k]>> \notin held
            /\ InHandler(m) => responses[m][k] < next

\* What was replied to is done with.
ReplyInv ==
    \A n \in DOMAIN replies :
        LET m == replies[n].of IN
        /\ m <= current
        /\ \A c \in held : c[1] # m
        /\ \A k \in DOMAIN replies : replies[k].of = m => k = n
        /\ taken[m].batch => holders[m] = {} /\ replies[n].items = responses[m]

Inv == CallInv /\ HolderInv /\ ResponseInv /\ ReplyInv

LEMMA CallsAre ==
  ASSUME TypeInv, NEW c \in held \cup called
  PROVE  c \in Calls /\ c[1] \in Numbers /\ c[2] \in Positions /\ c = <<c[1], c[2]>>
BY DEF TypeInv, TypeOK, Calls

LEMMA RepliesAre ==
  ASSUME TypeInv, NEW n \in DOMAIN replies
  PROVE  replies[n].of \in Numbers /\ replies[n].items \in Seq(Positions)
<1> DEFINE R == [of : Numbers, items : Seq(Positions)]
<1>1. replies \in Seq(R)
  BY DEF TypeInv, TypeOK
<1>2. n \in 1 .. Len(replies)
  BY <1>1, LenProperties
<1>3. replies[n] \in R
  BY <1>1, <1>2, ElementOfSeq
<1> QED
  BY <1>3

LEMMA ResponsesAre ==
  ASSUME TypeInv, NEW m \in Numbers
  PROVE  /\ responses[m] \in Seq(Positions)
         /\ \A k \in DOMAIN responses[m] : responses[m][k] \in Positions /\ responses[m][k] \in Nat
<1>1. responses[m] \in Seq(Positions)
  BY DEF TypeInv, TypeOK
<1>2. \A k \in DOMAIN responses[m] : responses[m][k] \in Positions
  BY <1>1, ElementOfSeq, LenProperties
<1> QED
  BY <1>1, <1>2 DEF Positions

\* One response more.
LEMMA Appended ==
  ASSUME NEW s \in Seq(Positions), NEW i \in Positions,
         IsInjective(s), \A k \in DOMAIN s : s[k] # i
  PROVE  /\ IsInjective(Append(s, i))
         /\ \A k \in DOMAIN Append(s, i) :
               \/ k \in DOMAIN s /\ Append(s, i)[k] = s[k]
               \/ Append(s, i)[k] = i
<1>1. Len(s) \in Nat /\ DOMAIN s = 1 .. Len(s)
  BY LenProperties
<1>2. /\ DOMAIN Append(s, i) = 1 .. Len(s) + 1
      /\ \A k \in 1 .. Len(s) : Append(s, i)[k] = s[k]
      /\ Append(s, i)[Len(s) + 1] = i
  BY AppendProperties, LenProperties
<1>3. \A k \in 1 .. Len(s) + 1 : k \in 1 .. Len(s) \/ k = Len(s) + 1
  BY <1>1
<1> QED
  BY <1>1, <1>2, <1>3 DEF IsInjective

\* One reply more.
LEMMA ReplyAdded ==
  ASSUME TypeInv, NEW m \in Numbers, NEW its \in Seq(Positions), Reply(m, its)
  PROVE  \E last :
           /\ DOMAIN replies' = DOMAIN replies \cup {last} /\ last \notin DOMAIN replies
           /\ \A n \in DOMAIN replies : replies'[n] = replies[n]
           /\ replies'[last].of = m /\ replies'[last].items = its
<1> DEFINE R == [of : Numbers, items : Seq(Positions)]
           r == [of |-> m, items |-> its]
<1>1. replies \in Seq(R) /\ r \in R
  BY DEF TypeInv, TypeOK
<1>2. Len(replies) \in Nat /\ DOMAIN replies = 1 .. Len(replies)
  BY <1>1, LenProperties
<1>3. replies' = Append(replies, r)
  BY DEF Reply
<1>4. /\ DOMAIN replies' = 1 .. Len(replies) + 1
      /\ \A n \in 1 .. Len(replies) : replies'[n] = replies[n]
      /\ replies'[Len(replies) + 1] = r
  BY <1>1, <1>3, AppendProperties, LenProperties
<1>5. 1 .. Len(replies) + 1 = 1 .. Len(replies) \cup {Len(replies) + 1}
  BY <1>2
<1> WITNESS Len(replies) + 1
<1> QED
  BY <1>2, <1>4, <1>5

\* Nothing of what was replied to changes.
LEMMA ReplyFrame ==
  ASSUME ReplyInv, replies' = replies,
         \A n \in DOMAIN replies :
            LET m == replies[n].of IN
            /\ m <= current'
            /\ \A c \in held' : c[1] # m
            /\ taken'[m] = taken[m] /\ holders'[m] = holders[m] /\ responses'[m] = responses[m]
  PROVE  ReplyInv'
BY DEF ReplyInv

\* A message that was not replied to is.
LEMMA ReplyOnce ==
  ASSUME TypeInv, ReplyInv, NEW m \in Numbers, NEW its \in Seq(Positions), Reply(m, its),
         m <= current, \A n \in DOMAIN replies : replies[n].of # m,
         taken' = taken, held' \subseteq held, \A c \in held' : c[1] # m,
         responses' = responses, \A k \in Numbers \ {m} : holders'[k] = holders[k],
         taken[m].batch => holders'[m] = {} /\ its = responses[m]
  PROVE  ReplyInv'
<1>1. PICK last :
           /\ DOMAIN replies' = DOMAIN replies \cup {last} /\ last \notin DOMAIN replies
           /\ \A n \in DOMAIN replies : replies'[n] = replies[n]
           /\ replies'[last].of = m /\ replies'[last].items = its
  BY ReplyAdded
<1>2. \A n \in DOMAIN replies : replies[n].of \in Numbers \ {m}
  BY RepliesAre
<1>3. current' = current
  BY DEF current
<1> SUFFICES ASSUME NEW n \in DOMAIN replies'
             PROVE  LET k == replies'[n].of IN
                    /\ k <= current'
                    /\ \A c \in held' : c[1] # k
                    /\ \A j \in DOMAIN replies' : replies'[j].of = k => j = n
                    /\ taken'[k].batch => holders'[k] = {} /\ replies'[n].items = responses'[k]
  BY DEF ReplyInv
<1>4. CASE n = last
  BY <1>1, <1>3, <1>4
<1>5. CASE n \in DOMAIN replies
  <2>1. replies'[n] = replies[n] /\ replies[n].of \in Numbers \ {m}
    BY <1>1, <1>2, <1>5
  <2>2. \A j \in DOMAIN replies' : replies'[j].of = replies[n].of => j = n
    BY <1>1, <1>5, <2>1 DEF ReplyInv
  <2> QED
    BY <1>3, <1>5, <2>1, <2>2 DEF ReplyInv
<1> QED
  BY <1>1, <1>4, <1>5

\* What is referred to was not replied to.
LEMMA Unreplied ==
  ASSUME Inv, NEW m, \/ \E c \in held : c[1] = m
                     \/ m \in Numbers /\ taken[m].batch /\ holders[m] # {}
  PROVE  \A n \in DOMAIN replies : replies[n].of # m
BY DEF Inv, ReplyInv

LEMMA InvInit == Init => Inv
<1> SUFFICES ASSUME Init PROVE Inv
  OBVIOUS
<1>1. current = 0 /\ \A m \in Numbers : ~(m <= 0)
  BY EmptySeq, MessagesAre DEF Init, current, Numbers
<1> QED
  BY <1>1 DEF Init, Inv, CallInv, HolderInv, ResponseInv, ReplyInv, IsBatch, IsInjective

\* A message is taken: its number is new.
LEMMA SingleStep == TypeInv /\ Inv /\ HandleSingle => Inv'
<1> SUFFICES ASSUME TypeInv, Inv, HandleSingle PROVE Inv'
  OBVIOUS
<1> DEFINE m0 == current + 1
<1>1. PICK msg \in Messages :
             /\ Retrieve(msg) /\ ~msg.batch
             /\ held' = IF msg.items[1] = "call" THEN held \cup {<<m0, 1>>} ELSE held
             /\ pc' = IF msg.items[1] \in Throws THEN "terminated" ELSE pc
  BY DEF HandleSingle
<1>2. /\ UNCHANGED <<next, called, holders, responses, replies>>
      /\ held \subseteq held' /\ held' \subseteq held \cup {<<m0, 1>>}
      /\ pc # "batch" /\ pc' # "batch"
  BY <1>1 DEF HandleSingle, Retrieve, batchVars
<1>3. /\ current' = m0 /\ current \in Nat /\ \A m \in 1 .. current : taken'[m] = taken[m]
      /\ taken'[m0] = msg
  BY <1>1, Retrieved, Lengths DEF current
<1>4. \A c \in held \cup called : /\ c[1] \in Numbers /\ c[2] \in Positions /\ c = <<c[1], c[2]>>
                                  /\ c[1] <= current /\ c[1] # m0
  BY <1>3, CallsAre DEF Inv, CallInv
<1>5. \A m \in Numbers : /\ m \in Nat \ {0}
                         /\ IsBatch(m)' <=> IsBatch(m)
                         /\ ~InHandler(m) /\ ~InHandler(m)'
                         /\ IsBatch(m) => m # m0
  <2> SUFFICES ASSUME NEW m \in Numbers
               PROVE  m \in Nat \ {0} /\ (IsBatch(m)' <=> IsBatch(m)) /\ (IsBatch(m) => m # m0)
    BY <1>2 DEF InHandler
  <2>1. m \in Nat \ {0}
    BY MessagesAre DEF Numbers
  <2>2. IsBatch(m)' <=> m <= m0 /\ taken'[m].batch
    BY <1>3 DEF IsBatch
  <2> QED
    BY <1>1, <1>3, <2>1, <2>2 DEF IsBatch
<1>6. CallInv'
  <2>1. \A c \in held' \cup called' : c[1] <= m0 /\ (taken'[c[1]].batch \/ c[2] = 1)
    <3> TAKE c \in held' \cup called'
    <3>1. CASE c = <<m0, 1>>
      BY <1>3, <3>1
    <3>2. CASE c \in held \cup called
      <4>1. c[1] \in 1 .. current
        BY <1>3, <1>4, <3>2, MessagesAre DEF Numbers
      <4> QED
        BY <1>3, <3>2, <4>1 DEF Inv, CallInv
    <3> QED
      BY <1>2, <3>1, <3>2
  <2>2. held' \cap called' = {}
    BY <1>2, <1>4 DEF Inv, CallInv
  <2> QED
    BY <1>2, <1>3, <2>1, <2>2 DEF CallInv, InHandler
<1>7. HolderInv'
  <2>1. \A m \in Numbers : m # m0 => Outstanding(m)' = Outstanding(m)
    BY <1>2 DEF Outstanding
  <2> QED
    BY <1>2, <1>5, <2>1 DEF Inv, HolderInv
<1>8. ResponseInv'
  <2>1. \A m \in Numbers : m = m0 => responses[m] = <<>>
    BY <1>5 DEF Inv, ResponseInv
  <2>2. \A m \in Numbers : m # m0 => \A k \in DOMAIN responses[m] : <<m, responses[m][k]>> \notin held'
    BY <1>2 DEF Inv, ResponseInv
  <2> QED
    BY <1>2, <1>5, <2>1, <2>2 DEF Inv, ResponseInv
<1>9. ReplyInv'
  <2> SUFFICES ASSUME NEW n \in DOMAIN replies
               PROVE  /\ replies[n].of <= current'
                      /\ \A c \in held' : c[1] # replies[n].of
                      /\ taken'[replies[n].of] = taken[replies[n].of]
    BY <1>2, ReplyFrame DEF Inv
  <2>1. replies[n].of \in Numbers
    BY RepliesAre
  <2>2. replies[n].of \in 1 .. current
    BY <1>3, <2>1, MessagesAre DEF Inv, ReplyInv, Numbers
  <2> QED
    BY <1>2, <1>3, <2>2 DEF Inv, ReplyInv
<1> QED
  BY <1>6, <1>7, <1>8, <1>9 DEF Inv

LEMMA BeginStep == TypeInv /\ Inv /\ BeginBatch => Inv'
<1> SUFFICES ASSUME TypeInv, Inv, BeginBatch PROVE Inv'
  OBVIOUS
<1> DEFINE m0 == current + 1
<1>1. PICK msg \in Messages :
             /\ Retrieve(msg) /\ msg.batch
             /\ IF msg.items = <<>>
                THEN pc' = "terminated" /\ UNCHANGED <<next, holders>>
                ELSE /\ pc' = "batch" /\ next' = 1
                     /\ holders' = [holders EXCEPT ![m0] = {0}]
  BY DEF BeginBatch
<1>2. UNCHANGED <<held, called, responses, replies>> /\ pc # "batch"
  BY <1>1 DEF BeginBatch, Retrieve
<1>3. /\ current' = m0 /\ current \in Nat /\ \A m \in 1 .. current : taken'[m] = taken[m]
      /\ taken'[m0] = msg /\ m0 \in Numbers
  BY <1>1, Retrieved, Lengths DEF BeginBatch, current
<1>4. \A c \in held \cup called : /\ c[1] \in Numbers /\ c[2] \in Positions /\ c = <<c[1], c[2]>>
                                  /\ c[1] <= current /\ c[1] # m0
  BY <1>3, CallsAre DEF Inv, CallInv
<1>5. \A m \in Numbers : /\ m \in Nat \ {0}
                         /\ m # m0 => (IsBatch(m)' <=> IsBatch(m))
                         /\ ~InHandler(m) /\ (InHandler(m)' <=> pc' = "batch" /\ m = m0)
                         /\ m = m0 => IsBatch(m)' /\ ~IsBatch(m)
  <2> TAKE m \in Numbers
  <2>1. m \in Nat \ {0}
    BY MessagesAre DEF Numbers
  <2>3. m = m0 => IsBatch(m)' /\ ~IsBatch(m)
    BY <1>1, <1>3, <2>1 DEF IsBatch
  <2>4. ~InHandler(m) /\ (InHandler(m)' <=> pc' = "batch" /\ m = m0)
    BY <1>2, <1>3 DEF InHandler
  <2>2. IsBatch(m)' <=> m <= m0 /\ taken'[m].batch
    BY <1>3 DEF IsBatch
  <2> QED
    BY <1>1, <1>3, <2>1, <2>2, <2>3, <2>4 DEF IsBatch
<1>6. CallInv'
  <2>1. \A c \in held' \cup called' :
            c[1] <= m0 /\ c[1] # m0 /\ (taken'[c[1]].batch \/ c[2] = 1)
    <3> TAKE c \in held' \cup called'
    <3>1. c \in held \cup called
      BY <1>2
    <3>2. c[1] \in 1 .. current
      BY <1>3, <1>4, <3>1, MessagesAre DEF Numbers
    <3> QED
      BY <1>3, <3>1, <3>2 DEF Inv, CallInv
  <2> QED
    BY <1>2, <1>3, <2>1 DEF Inv, CallInv, InHandler
<1>7. HolderInv'
  <2>1. \A m \in Numbers : Outstanding(m)' = Outstanding(m)
    BY <1>2 DEF Outstanding
  <2>2. Outstanding(m0) = {} /\ holders[m0] = {}
    <3>1. ~IsBatch(m0)
      BY <1>3, <1>5
    <3>2. ASSUME NEW i, <<m0, i>> \in held \cup called PROVE FALSE
      <4>1. <<m0, i>>[1] # m0
        BY <1>4, <3>2
      <4> QED
        BY <4>1
    <3>3. Outstanding(m0) = {}
      BY <3>2 DEF Outstanding
    <3> HIDE DEF m0
    <3> QED
      BY <1>3, <3>1, <3>3 DEF Inv, HolderInv
  <2>3. \A m \in Numbers : holders'[m] = IF pc' = "batch" /\ m = m0 THEN {0} ELSE holders[m]
    BY <1>1, <1>3 DEF TypeInv, TypeOK
  <2> SUFFICES ASSUME NEW m \in Numbers
               PROVE  holders'[m] = IF IsBatch(m)'
                                    THEN (IF InHandler(m)' THEN {0} ELSE {}) \cup Outstanding(m)'
                                    ELSE {}
    BY DEF HolderInv
  <2>4. CASE m = m0
    <3>1. Outstanding(m) = {} /\ holders[m] = {}
      BY <2>2, <2>4
    <3>2. IsBatch(m)' /\ (InHandler(m)' <=> pc' = "batch")
      BY <1>5, <2>4
    <3>3. holders'[m] = IF pc' = "batch" THEN {0} ELSE {}
      BY <2>3, <2>4, <3>1
    <3> QED
      BY <2>1, <3>1, <3>2, <3>3
  <2>5. CASE m # m0
    BY <1>5, <2>1, <2>3, <2>5 DEF Inv, HolderInv
  <2> QED
    BY <2>4, <2>5
<1>8. ResponseInv'
  <2>1. responses[m0] = <<>>
    BY <1>3, <1>5 DEF Inv, ResponseInv
  <2> SUFFICES ASSUME NEW m \in Numbers
               PROVE  /\ ~IsBatch(m)' => responses[m] = <<>>
                      /\ IsInjective(responses[m])
                      /\ \A k \in DOMAIN responses[m] :
                            /\ <<m, responses[m][k]>> \notin held
                            /\ InHandler(m)' => responses[m][k] < next'
    BY <1>2 DEF ResponseInv
  <2>2. CASE m = m0
    BY <1>5, <2>1, <2>2 DEF IsInjective
  <2>3. CASE m # m0
    BY <1>5, <2>3 DEF Inv, ResponseInv
  <2> QED
    BY <2>2, <2>3
<1>9. ReplyInv'
  <2> SUFFICES ASSUME NEW n \in DOMAIN replies
               PROVE  /\ replies[n].of <= current'
                      /\ taken'[replies[n].of] = taken[replies[n].of]
                      /\ holders'[replies[n].of] = holders[replies[n].of]
    BY <1>2, ReplyFrame DEF Inv, ReplyInv
  <2>1. replies[n].of \in Numbers
    BY RepliesAre
  <2>2. replies[n].of \in 1 .. current
    BY <1>3, <2>1, MessagesAre DEF Inv, ReplyInv, Numbers
  <2>3. replies[n].of # m0 /\ current' = m0
    BY <1>3, <2>2
  <2>4. replies[n].of <= current'
    BY <1>3, <2>2, <2>3
  <2>5. taken'[replies[n].of] = taken[replies[n].of]
    BY <1>3, <2>2
  <2>6. holders' = holders \/ holders' = [holders EXCEPT ![m0] = {0}]
    BY <1>1
  <2>7. holders'[replies[n].of] = holders[replies[n].of]
    <3>1. holders \in [Numbers -> SUBSET ({0} \cup Positions)]
      BY DEF TypeInv, TypeOK
    <3> HIDE DEF m0
    <3> QED
      BY <2>1, <2>3, <2>6, <3>1
  <2> QED
    BY <2>4, <2>5, <2>7
<1> QED
  BY <1>6, <1>7, <1>8, <1>9 DEF Inv

\* A callback of the batch is handed out: the handler still refers to the batch, so
\* it was not replied to.
LEMMA InTheHandler ==
  ASSUME TypeInv, Inv, pc = "batch"
  PROVE  /\ current \in Numbers /\ IsBatch(current) /\ InHandler(current)
         /\ 0 \in holders[current]
         /\ \A n \in DOMAIN replies : replies[n].of # current
         /\ next \in 1 .. Len(items) + 1 /\ Len(items) \in 0 .. MaxItems
         /\ next <= Len(items) => next \in Positions
<1>1. current \in 1 .. current
  BY EmptySeq, Lengths DEF TypeInv, TypeOK, StreamInv, current
<1>2. current \in Numbers /\ IsBatch(current) /\ InHandler(current) /\ Len(items) \in 0 .. MaxItems
  BY <1>1, Lengths, MessagesAre DEF TypeInv, StreamInv, IsBatch, InHandler, items
<1>3. 0 \in holders[current]
  BY <1>2 DEF Inv, HolderInv
<1>4. \A n \in DOMAIN replies : replies[n].of # current
  BY <1>2, <1>3, Unreplied DEF IsBatch
<1>5. next \in 1 .. Len(items) + 1 /\ (next <= Len(items) => next \in Positions)
  BY <1>2, MessagesAre DEF TypeInv, StreamInv, Positions
<1> QED
  BY <1>2, <1>3, <1>4, <1>5

LEMMA CallStep == TypeInv /\ Inv /\ BatchCall => Inv'
<1> SUFFICES ASSUME TypeInv, Inv, BatchCall PROVE Inv'
  OBVIOUS
<1>1. /\ pc = "batch" /\ next <= Len(items)
      /\ held' = held \cup {<<current, next>>}
      /\ holders' = [holders EXCEPT ![current] = @ \cup {next}]
      /\ next' = next + 1
      /\ UNCHANGED <<pc, taken, called, responses, replies>>
  BY DEF BatchCall, BatchGoesOn
<1>2. /\ current \in Numbers /\ IsBatch(current) /\ InHandler(current)
      /\ \A n \in DOMAIN replies : replies[n].of # current
      /\ next \in Positions /\ next \in Nat
  BY <1>1, InTheHandler DEF Positions
<1>3. current' = current /\ current \in Nat
  BY <1>1, Lengths DEF current
<1>4. \A m : (IsBatch(m)' <=> IsBatch(m)) /\ (InHandler(m)' <=> InHandler(m)) /\ (InHandler(m) <=> m = current)
  BY <1>1, <1>3 DEF IsBatch, InHandler
<1>5. \A c \in held \cup called : c \in Calls /\ c[1] <= current /\ (c[1] = current => c[2] < next)
                                 /\ c = <<c[1], c[2]>> /\ c[2] \in Nat
  BY <1>4, CallsAre DEF Inv, CallInv, Positions
<1>6. <<current, next>> \notin held \cup called
  BY <1>2, <1>5
<1>7. CallInv'
  <2> SUFFICES ASSUME NEW c \in held' \cup called'
               PROVE  /\ c[1] <= current' /\ (taken[c[1]].batch \/ c[2] = 1)
                      /\ InHandler(c[1])' => c[2] < next'
    BY <1>1, <1>6 DEF Inv, CallInv
  <2>1. CASE c = <<current, next>>
    BY <1>1, <1>2, <1>3, <2>1 DEF IsBatch
  <2>2. CASE c \in held \cup called
    BY <1>1, <1>2, <1>3, <1>4, <1>5, <2>2 DEF Inv, CallInv
  <2> QED
    BY <1>1, <2>1, <2>2
<1>8. HolderInv'
  <2> SUFFICES ASSUME NEW m \in Numbers
               PROVE  holders'[m] = IF IsBatch(m)'
                                    THEN (IF InHandler(m)' THEN {0} ELSE {}) \cup Outstanding(m)'
                                    ELSE {}
    BY DEF HolderInv
  <2>1. CASE m = current
    <3>1. Outstanding(m)' = Outstanding(m) \cup {next}
      BY <1>1, <1>2, <2>1 DEF Outstanding
    <3>2. holders'[m] = holders[m] \cup {next}
      BY <1>1, <1>2, <2>1 DEF TypeInv, TypeOK
    <3> QED
      BY <1>2, <1>4, <2>1, <3>1, <3>2 DEF Inv, HolderInv
  <2>2. CASE m # current
    <3>1. Outstanding(m)' = Outstanding(m)
      BY <1>1, <2>2 DEF Outstanding
    <3>2. holders'[m] = holders[m]
      BY <1>1, <2>2 DEF TypeInv, TypeOK
    <3> QED
      BY <1>4, <2>2, <3>1, <3>2 DEF Inv, HolderInv
  <2> QED
    BY <2>1, <2>2
<1>9. ResponseInv'
  <2> SUFFICES ASSUME NEW m \in Numbers, NEW k \in DOMAIN responses[m]
               PROVE  <<m, responses[m][k]>> \notin held' /\ (InHandler(m) => responses[m][k] < next')
    BY <1>1, <1>4 DEF Inv, ResponseInv
  <2>1. /\ <<m, responses[m][k]>> \notin held
        /\ InHandler(m) => responses[m][k] < next
    BY DEF Inv, ResponseInv
  <2>2. responses[m][k] \in Nat
    BY ResponsesAre
  <2> QED
    BY <1>1, <1>2, <1>4, <2>1, <2>2
<1>10. ReplyInv'
  <2> SUFFICES ASSUME NEW n \in DOMAIN replies
               PROVE  /\ replies[n].of <= current
                      /\ \A c \in held' : c[1] # replies[n].of
                      /\ holders'[replies[n].of] = holders[replies[n].of]
    BY <1>1, <1>3, ReplyFrame DEF Inv
  <2>1. replies[n].of \in Numbers /\ replies[n].of # current
    BY <1>2, RepliesAre
  <2> QED
    BY <1>1, <2>1 DEF Inv, ReplyInv, TypeInv, TypeOK
<1> QED
  BY <1>7, <1>8, <1>9, <1>10 DEF Inv

LEMMA ThrowStep == TypeInv /\ Inv /\ BatchThrows => Inv'
<1> SUFFICES ASSUME TypeInv, Inv, BatchThrows PROVE Inv'
  OBVIOUS
<1>1. /\ pc = "batch" /\ next <= Len(items)
      /\ \/ responses' = responses
         \/ responses' = [responses EXCEPT ![current] = Append(@, next)]
      /\ next' = Len(items) + 1
      /\ UNCHANGED <<pc, taken, held, called, holders, replies>>
  BY DEF BatchThrows, BatchGoesOn
<1>2. /\ current \in Numbers /\ IsBatch(current) /\ InHandler(current)
      /\ \A n \in DOMAIN replies : replies[n].of # current
      /\ next \in Positions /\ next \in Nat /\ next' \in Nat /\ next < next'
  BY <1>1, InTheHandler DEF Positions
<1>3. current' = current
  BY <1>1 DEF current
<1>4. \A m : (IsBatch(m)' <=> IsBatch(m)) /\ (InHandler(m)' <=> InHandler(m)) /\ (InHandler(m) <=> m = current)
  BY <1>1, <1>3 DEF IsBatch, InHandler
<1>5. \A c \in held \cup called : c[2] \in Nat /\ (InHandler(c[1]) => c[2] < next)
  BY CallsAre DEF Inv, CallInv, Positions
<1>6. CallInv'
  BY <1>1, <1>2, <1>3, <1>4, <1>5 DEF Inv, CallInv
<1>7. HolderInv'
  <2>1. \A m : Outstanding(m)' = Outstanding(m)
    BY <1>1 DEF Outstanding
  <2> QED
    BY <1>1, <1>4, <2>1 DEF Inv, HolderInv
<1>8. ResponseInv'
  <2> SUFFICES ASSUME NEW m \in Numbers
               PROVE  /\ ~IsBatch(m) => responses'[m] = <<>>
                      /\ IsInjective(responses'[m])
                      /\ \A k \in DOMAIN responses'[m] :
                            /\ <<m, responses'[m][k]>> \notin held
                            /\ InHandler(m) => responses'[m][k] < next'
    BY <1>1, <1>4 DEF ResponseInv
  <2>1. responses[m] \in Seq(Positions)
    BY DEF TypeInv, TypeOK
  <2>2. \A k \in DOMAIN responses[m] :
            /\ responses[m][k] \in Nat
            /\ <<m, responses[m][k]>> \notin held
            /\ InHandler(m) => responses[m][k] < next
    BY ResponsesAre DEF Inv, ResponseInv
  <2>3. CASE responses'[m] = responses[m]
    BY <1>2, <2>2, <2>3 DEF Inv, ResponseInv
  <2>4. CASE m = current /\ responses'[m] = Append(responses[m], next)
    <3>1. IsInjective(responses[m]) /\ \A k \in DOMAIN responses[m] : responses[m][k] # next
      <4>1. IsInjective(responses[m]) /\ InHandler(m)
        BY <1>2, <2>4 DEF Inv, ResponseInv
      <4>2. \A k \in DOMAIN responses[m] : responses[m][k] \in Nat /\ responses[m][k] < next
        BY <2>2, <4>1
      <4> QED
        BY <1>2, <4>1, <4>2
    <3>2. /\ IsInjective(responses'[m])
          /\ \A k \in DOMAIN responses'[m] :
                \/ k \in DOMAIN responses[m] /\ responses'[m][k] = responses[m][k]
                \/ responses'[m][k] = next
      BY <1>2, <2>1, <2>4, <3>1, Appended
    <3>3. <<m, next>> \notin held
      BY <1>2, <1>5, <2>4
    <3>4. \A k \in DOMAIN responses'[m] : <<m, responses'[m][k]>> \notin held /\ responses'[m][k] < next'
      <4> TAKE k \in DOMAIN responses'[m]
      <4>1. CASE responses'[m][k] = next
        BY <1>2, <3>3, <4>1
      <4>2. CASE k \in DOMAIN responses[m] /\ responses'[m][k] = responses[m][k]
        <5>1. /\ responses[m][k] \in Nat /\ <<m, responses[m][k]>> \notin held
              /\ responses[m][k] < next
          BY <1>2, <2>2, <2>4, <4>2
        <5>2. responses[m][k] < next'
          BY <1>2, <5>1
        <5> QED
          BY <4>2, <5>1, <5>2
      <4> QED
        BY <3>2, <4>1, <4>2
    <3> QED
      BY <1>2, <2>4, <3>2, <3>4
  <2>5. \/ responses'[m] = responses[m]
        \/ m = current /\ responses'[m] = Append(responses[m], next)
    <3>1. responses \in [Numbers -> Seq(Positions)]
      BY DEF TypeInv, TypeOK
    <3>2. CASE responses' = responses
      BY <3>2
    <3>3. CASE responses' = [responses EXCEPT ![current] = Append(@, next)]
      BY <1>2, <3>1, <3>3
    <3> QED
      BY <1>1, <3>2, <3>3
  <2> QED
    BY <2>3, <2>4, <2>5
<1>9. ReplyInv'
  <2> SUFFICES ASSUME NEW n \in DOMAIN replies
               PROVE  /\ replies[n].of <= current
                      /\ \A c \in held : c[1] # replies[n].of
                      /\ responses'[replies[n].of] = responses[replies[n].of]
    BY <1>1, <1>3, ReplyFrame DEF Inv
  <2>1. replies[n].of \in Numbers /\ replies[n].of # current
    BY <1>2, RepliesAre
  <2> QED
    BY <1>1, <2>1 DEF Inv, ReplyInv, TypeInv, TypeOK
<1> QED
  BY <1>6, <1>7, <1>8, <1>9 DEF Inv

\* A reference to batch m goes, that of a callback which was called or the handler's.
LEMMA DropReplies ==
  ASSUME TypeInv, Inv, NEW m \in Numbers, IsBatch(m), NEW h \in holders[m], Drop(m, h),
         <<m, h>> \notin held, taken' = taken, held' = held, responses' = responses
  PROVE  /\ holders'[m] = holders[m] \ {h}
         /\ \A k \in Numbers \ {m} : holders'[k] = holders[k]
         /\ ReplyInv'
<1>1. /\ holders'[m] = holders[m] \ {h}
      /\ \A k \in Numbers \ {m} : holders'[k] = holders[k]
  BY DEF Drop, TypeInv, TypeOK
<1>2. \A n \in DOMAIN replies : replies[n].of # m
  BY Unreplied DEF IsBatch
<1>3. current' = current /\ m <= current /\ taken[m].batch
  BY DEF current, IsBatch
<1>4. CASE holders[m] = {h}
  <2>1. \A c \in held' : c[1] # m
    <3> SUFFICES ASSUME NEW c \in held, c[1] = m PROVE FALSE
      OBVIOUS
    <3>1. c = <<m, c[2]>> /\ c[2] \in Positions
      BY CallsAre
    <3>2. c[2] \in Outstanding(m)
      BY <3>1 DEF Outstanding
    <3>3. holders[m] = (IF InHandler(m) THEN {0} ELSE {}) \cup Outstanding(m)
      BY DEF Inv, HolderInv
    <3> QED
      BY <1>4, <3>1, <3>2, <3>3
  <2>2. Reply(m, responses[m]) /\ holders'[m] = {}
    BY <1>1, <1>4 DEF Drop
  <2>3. responses[m] \in Seq(Positions)
    BY ResponsesAre
  <2>4. ReplyInv
    BY DEF Inv
  <2>5. ReplyInv'
    BY <1>1, <1>2, <1>3, <2>1, <2>2, <2>3, <2>4, ReplyOnce
  <2> QED
    BY <1>1, <2>5
<1>5. CASE holders[m] # {h}
  <2>1. replies' = replies
    BY <1>5 DEF Drop
  <2>2. \A n \in DOMAIN replies : /\ replies[n].of <= current
                                  /\ \A c \in held' : c[1] # replies[n].of
                                  /\ holders'[replies[n].of] = holders[replies[n].of]
    BY <1>1, <1>2, RepliesAre DEF Inv, ReplyInv
  <2>3. ReplyInv'
    BY <1>3, <2>1, <2>2, ReplyFrame DEF Inv
  <2> QED
    BY <1>1, <2>3
<1> QED
  BY <1>4, <1>5

LEMMA EndStep == TypeInv /\ Inv /\ EndBatch => Inv'
<1> SUFFICES ASSUME TypeInv, Inv, EndBatch PROVE Inv'
  OBVIOUS
<1>1. /\ pc = "batch" /\ pc' = "loop" /\ Drop(current, 0)
      /\ UNCHANGED <<taken, next, held, called, responses>>
  BY DEF EndBatch
<1>2. PICK m0 \in Numbers : m0 = current /\ IsBatch(m0) /\ 0 \in holders[m0]
  BY <1>1, InTheHandler
<1>3. \A c \in held \cup called : c[2] # 0
  BY CallsAre, MessagesAre DEF Positions
<1>4. /\ holders'[m0] = holders[m0] \ {0}
      /\ \A k \in Numbers \ {m0} : holders'[k] = holders[k]
      /\ ReplyInv'
  <2>1. <<m0, 0>> \notin held
    BY <1>3
  <2> QED
    BY <1>1, <1>2, <2>1, DropReplies
<1>5. \A m : /\ IsBatch(m)' <=> IsBatch(m)
             /\ ~InHandler(m)' /\ (InHandler(m) <=> m = m0)
             /\ Outstanding(m)' = Outstanding(m)
  BY <1>1, <1>2 DEF IsBatch, InHandler, Outstanding, current
<1>6. CallInv'
  BY <1>1, <1>5 DEF Inv, CallInv, current
<1>7. HolderInv'
  <2> SUFFICES ASSUME NEW m \in Numbers
               PROVE  holders'[m] = IF IsBatch(m) THEN Outstanding(m) ELSE {}
    BY <1>5 DEF HolderInv
  <2>1. 0 \notin Outstanding(m)
    BY MessagesAre DEF Outstanding, Positions
  <2>2. CASE m = m0
    <3>1. holders[m] = {0} \cup Outstanding(m)
      BY <1>2, <1>5, <2>2 DEF Inv, HolderInv
    <3> QED
      BY <1>2, <1>4, <2>1, <2>2, <3>1
  <2>3. CASE m # m0
    BY <1>4, <1>5, <2>3 DEF Inv, HolderInv
  <2> QED
    BY <2>2, <2>3
<1>8. ResponseInv'
  BY <1>1, <1>5 DEF Inv, ResponseInv
<1> QED
  BY <1>4, <1>6, <1>7, <1>8 DEF Inv

LEMMA AnswerStep ==
  ASSUME TypeInv, Inv, NEW c \in held \cup called, Answer(c)
  PROVE  Inv'
<1>1. /\ c \in held /\ held' = held \ {c} /\ called' = called \cup {c}
      /\ UNCHANGED <<pc, taken, next, holders>>
  BY DEF Answer
<1>2. /\ c[1] \in Numbers /\ c[2] \in Positions /\ c = <<c[1], c[2]>> /\ c[1] <= current
      /\ InHandler(c[1]) => c[2] < next
  BY CallsAre DEF Inv, CallInv
<1>3. \A n \in DOMAIN replies : replies[n].of # c[1]
  BY <1>1, Unreplied
<1>4. /\ current' = current
      /\ \A m : /\ IsBatch(m)' <=> IsBatch(m)
                /\ InHandler(m)' <=> InHandler(m)
                /\ Outstanding(m)' = Outstanding(m)
  BY <1>1 DEF IsBatch, InHandler, Outstanding, current
<1>5. CallInv'
  BY <1>1, <1>4 DEF Inv, CallInv
<1>6. HolderInv'
  BY <1>1, <1>4 DEF Inv, HolderInv
<1>7. CASE taken[c[1]].batch
  <2>1. responses' = [responses EXCEPT ![c[1]] = Append(@, c[2])] /\ replies' = replies
    BY <1>7 DEF Answer
  <2>2. IsBatch(c[1])
    BY <1>2, <1>7 DEF IsBatch
  <2>3. ResponseInv'
    <3> SUFFICES ASSUME NEW m \in Numbers
                 PROVE  /\ ~IsBatch(m) => responses'[m] = <<>>
                        /\ IsInjective(responses'[m])
                        /\ \A k \in DOMAIN responses'[m] :
                              /\ <<m, responses'[m][k]>> \notin held'
                              /\ InHandler(m) => responses'[m][k] < next
      BY <1>1, <1>4 DEF ResponseInv
    <3>1. CASE m # c[1]
      <4>1. responses'[m] = responses[m]
        BY <2>1, <3>1 DEF TypeInv, TypeOK
      <4> QED
        BY <1>1, <4>1 DEF Inv, ResponseInv
    <3>2. CASE m = c[1]
      <4>1. responses'[m] = Append(responses[m], c[2])
        BY <1>2, <2>1, <3>2 DEF TypeInv, TypeOK
      <4>2. \A k \in DOMAIN responses[m] : /\ <<m, responses[m][k]>> \notin held
                                           /\ InHandler(m) => responses[m][k] < next
        BY DEF Inv, ResponseInv
      <4>3. IsInjective(responses[m]) /\ \A k \in DOMAIN responses[m] : responses[m][k] # c[2]
        <5>1. <<m, c[2]>> \in held
          BY <1>1, <1>2, <3>2
        <5> QED
          BY <4>2, <5>1 DEF Inv, ResponseInv
      <4>4. /\ IsInjective(responses'[m])
            /\ \A k \in DOMAIN responses'[m] :
                  \/ k \in DOMAIN responses[m] /\ responses'[m][k] = responses[m][k]
                  \/ responses'[m][k] = c[2]
        BY <1>2, <4>1, <4>3, ResponsesAre, Appended
      <4>5. <<m, c[2]>> \notin held'
        BY <1>1, <1>2, <3>2
      <4>6. \A k \in DOMAIN responses'[m] : /\ <<m, responses'[m][k]>> \notin held'
                                            /\ InHandler(m) => responses'[m][k] < next
        <5> TAKE k \in DOMAIN responses'[m]
        <5>1. CASE responses'[m][k] = c[2]
          BY <1>2, <3>2, <4>5, <5>1
        <5>2. CASE k \in DOMAIN responses[m] /\ responses'[m][k] = responses[m][k]
          BY <1>1, <4>2, <5>2
        <5> QED
          BY <4>4, <5>1, <5>2
      <4> QED
        BY <2>2, <3>2, <4>4, <4>6
    <3> QED
      BY <3>1, <3>2
  <2>4. ReplyInv'
    <3> SUFFICES ASSUME NEW n \in DOMAIN replies
                 PROVE  /\ replies[n].of <= current
                        /\ \A d \in held' : d[1] # replies[n].of
                        /\ responses'[replies[n].of] = responses[replies[n].of]
      BY <1>1, <1>4, <2>1, ReplyFrame DEF Inv
    <3>1. replies[n].of \in Numbers /\ replies[n].of # c[1]
      BY <1>3, RepliesAre
    <3> QED
      BY <1>1, <2>1, <3>1 DEF Inv, ReplyInv, TypeInv, TypeOK
  <2> QED
    BY <1>5, <1>6, <2>3, <2>4 DEF Inv
<1>8. CASE ~taken[c[1]].batch
  <2>1. Reply(c[1], <<c[2]>>) /\ responses' = responses
    BY <1>8 DEF Answer
  <2>2. ResponseInv'
    BY <1>1, <1>4, <2>1 DEF Inv, ResponseInv
  <2>3. \A d \in held' : d[1] # c[1]
    <3> SUFFICES ASSUME NEW d \in held, d[1] = c[1] PROVE d = c
      BY <1>1
    <3>1. d[2] = 1 /\ c[2] = 1
      BY <1>1, <1>8 DEF Inv, CallInv
    <3>2. d = <<d[1], d[2]>>
      BY CallsAre
    <3> QED
      BY <1>2, <3>1, <3>2
  <2>4. <<c[2]>> \in Seq(Positions) /\ ReplyInv
    BY <1>2 DEF Inv
  <2>5. ReplyInv'
    BY <1>1, <1>2, <1>3, <1>8, <2>1, <2>3, <2>4, ReplyOnce
  <2> QED
    BY <1>5, <1>6, <2>2, <2>5 DEF Inv
<1> QED
  BY <1>7, <1>8

LEMMA ReleaseStep ==
  ASSUME TypeInv, Inv, NEW c \in held \cup called, Release(c)
  PROVE  Inv'
<1>1. /\ c \in called /\ called' = called \ {c} /\ c \notin held
      /\ UNCHANGED <<pc, taken, next, held, responses>>
  BY DEF Release, Inv, CallInv
<1>2. /\ c[1] \in Numbers /\ c[2] \in Positions /\ c = <<c[1], c[2]>> /\ c[1] <= current
  BY CallsAre DEF Inv, CallInv
<1>3. /\ current' = current
      /\ \A m : /\ IsBatch(m)' <=> IsBatch(m)
                /\ InHandler(m)' <=> InHandler(m)
                /\ m # c[1] => Outstanding(m)' = Outstanding(m)
  BY <1>1, <1>2 DEF IsBatch, InHandler, Outstanding, current
<1>4. CallInv' /\ ResponseInv'
  BY <1>1, <1>3 DEF Inv, CallInv, ResponseInv
<1>5. CASE taken[c[1]].batch
  <2>1. Drop(c[1], c[2]) /\ IsBatch(c[1])
    BY <1>2, <1>5 DEF Release, IsBatch
  <2>2. /\ c[2] \in Outstanding(c[1]) /\ c[2] \in holders[c[1]]
        /\ holders[c[1]] = (IF InHandler(c[1]) THEN {0} ELSE {}) \cup Outstanding(c[1])
    <3>1. c[2] \in Outstanding(c[1])
      BY <1>1, <1>2 DEF Outstanding
    <3>2. holders[c[1]] = (IF InHandler(c[1]) THEN {0} ELSE {}) \cup Outstanding(c[1])
      BY <1>2, <2>1 DEF Inv, HolderInv
    <3> QED
      BY <3>1, <3>2
  <2>3. /\ holders'[c[1]] = holders[c[1]] \ {c[2]}
        /\ \A k \in Numbers \ {c[1]} : holders'[k] = holders[k]
        /\ ReplyInv'
    BY <1>1, <1>2, <2>1, <2>2, DropReplies
  <2>4. HolderInv'
    <3> SUFFICES ASSUME NEW m \in Numbers
                 PROVE  holders'[m] = IF IsBatch(m)
                                      THEN (IF InHandler(m) THEN {0} ELSE {}) \cup Outstanding(m)'
                                      ELSE {}
      BY <1>3 DEF HolderInv
    <3>1. CASE m # c[1]
      BY <1>3, <2>3, <3>1 DEF Inv, HolderInv
    <3>2. CASE m = c[1]
      <4>1. Outstanding(m)' = Outstanding(m) \ {c[2]}
        BY <1>1, <1>2, <3>2 DEF Outstanding
      <4>2. c[2] # 0
        BY <1>2, MessagesAre DEF Positions
      <4> QED
        BY <2>1, <2>2, <2>3, <3>2, <4>1, <4>2
    <3> QED
      BY <3>1, <3>2
  <2> QED
    BY <1>4, <2>3, <2>4 DEF Inv
<1>6. CASE ~taken[c[1]].batch
  <2>1. UNCHANGED <<holders, replies>>
    BY <1>6 DEF Release
  <2>2. ~IsBatch(c[1])
    BY <1>6 DEF IsBatch
  <2>3. HolderInv'
    BY <1>3, <2>1, <2>2 DEF Inv, HolderInv
  <2>4. ReplyInv'
    BY <1>1, <1>3, <2>1, ReplyFrame DEF Inv, ReplyInv
  <2> QED
    BY <1>4, <2>3, <2>4 DEF Inv
<1> QED
  BY <1>5, <1>6

LEMMA InvStep == TypeInv /\ Inv /\ [Next]_vars => Inv'
<1> SUFFICES ASSUME TypeInv, Inv, [Next]_vars PROVE Inv'
  OBVIOUS
<1>1. CASE Send \/ Arrive \/ NeedMore \/ SkipBlank \/ RejectLength \/ BatchNotify \/ UNCHANGED vars
  <2>1. /\ UNCHANGED <<taken, held, called, holders, responses, replies>>
        /\ pc' = "batch" <=> pc = "batch"
        /\ \/ next' = next
           \/ pc = "batch" /\ next' = next + 1
    BY <1>1 DEF Send, Arrive, NeedMore, SkipBlank, RejectLength, BatchNotify, BatchGoesOn,
                vars, streamVars, batchVars
  <2>2. /\ current' = current
        /\ \A m : /\ IsBatch(m)' <=> IsBatch(m)
                  /\ InHandler(m)' <=> InHandler(m)
                  /\ Outstanding(m)' = Outstanding(m)
    BY <2>1 DEF IsBatch, InHandler, Outstanding, current
  <2>3. \A x \in Nat : x < next => x < next'
    BY <2>1, MessagesAre DEF TypeInv, TypeOK
  <2>4. CallInv'
    <3>1. \A c \in held \cup called : c[2] \in Nat
      BY CallsAre DEF Positions
    <3> QED
      BY <2>1, <2>2, <2>3, <3>1 DEF Inv, CallInv
  <2>5. HolderInv'
    BY <2>1, <2>2 DEF Inv, HolderInv
  <2>6. ResponseInv'
    BY <2>1, <2>2, <2>3, ResponsesAre DEF Inv, ResponseInv
  <2>7. ReplyInv'
    BY <2>1, <2>2 DEF Inv, ReplyInv
  <2> QED
    BY <2>4, <2>5, <2>6, <2>7 DEF Inv
<1> QED
  BY <1>1, SingleStep, BeginStep, CallStep, ThrowStep, EndStep, AnswerStep, ReleaseStep
  DEF Next, HandleMessage

LEMMA InvAlways == Spec => []Inv
BY InvInit, InvStep, TypeInvAlways, PTL DEF Spec

\* The reply to a batch comes last, whenever and on whichever threads the services
\* answer: it is sent once, when the handler is done and no callback of the batch
\* exists any more, and has all the responses there will ever be, one for each item
\* (bearTcpServer.cc:232-264, 322-358).
THEOREM Final == Spec => []BatchRepliesAreFinal
<1>1. TypeInv /\ Inv => BatchRepliesAreFinal
  <2> SUFFICES ASSUME TypeInv, Inv, NEW n \in DOMAIN replies, NEW m, m = replies[n].of
               PROVE  /\ \A k \in DOMAIN replies : replies[k].of = m => k = n
                      /\ taken[m].batch =>
                            /\ \A c \in held \cup called : c[1] # m
                            /\ ~(pc = "batch" /\ m = current)
                            /\ replies[n].items = responses[m] /\ IsInjective(responses[m])
    BY DEF BatchRepliesAreFinal
  <2>1. /\ m \in Numbers /\ m <= current
        /\ \A k \in DOMAIN replies : replies[k].of = m => k = n
        /\ taken[m].batch => holders[m] = {} /\ replies[n].items = responses[m]
    BY RepliesAre DEF Inv, ReplyInv
  <2>2. ASSUME taken[m].batch
        PROVE  (\A c \in held \cup called : c[1] # m) /\ ~(pc = "batch" /\ m = current)
    <3>1. {} = (IF InHandler(m) THEN {0} ELSE {}) \cup Outstanding(m)
      BY <2>1, <2>2 DEF Inv, HolderInv, IsBatch
    <3>2. ASSUME NEW c \in held \cup called, c[1] = m PROVE FALSE
      <4>1. c = <<m, c[2]>> /\ c[2] \in Positions
        BY <3>2, CallsAre
      <4>2. c[2] \in Outstanding(m)
        BY <4>1 DEF Outstanding
      <4> QED
        BY <3>1, <4>2
    <3>3. ~InHandler(m)
      BY <3>1
    <3> QED
      BY <3>2, <3>3 DEF InHandler
  <2>3. IsInjective(responses[m])
    BY <2>1 DEF Inv, ResponseInv
  <2> QED
    BY <2>1, <2>2, <2>3
<1> QED
  BY <1>1, TypeInvAlways, InvAlways, PTL

-----------------------------------------------------------------------------
(***************************************************************************)
(* RpcServer implements RemoteCall.  A call is made when it is handed to   *)
(* its service, a refused request of a batch when its response is added; a *)
(* reply is the answer to all that were made and are in it.                *)
(***************************************************************************)

\* The sequence of a reply's calls, as a set.
LEMMA CallsOfIs ==
  ASSUME NEW m \in Numbers, NEW s \in Seq(Positions)
  PROVE  /\ CallsOf(m, s) \in Seq(Calls) /\ DOMAIN CallsOf(m, s) = 1 .. Len(s)
         /\ Range(CallsOf(m, s)) = {<<m, s[k]>> : k \in DOMAIN s}
<1>1. Len(s) \in Nat /\ DOMAIN s = 1 .. Len(s) /\ \A k \in 1 .. Len(s) : s[k] \in Positions
  BY LenProperties, ElementOfSeq
<1>2. CallsOf(m, s) \in [1 .. Len(s) -> Calls]
  BY <1>1 DEF CallsOf, Calls
<1>3. CallsOf(m, s) \in Seq(Calls)
  BY <1>1, <1>2, SeqDef
<1> QED
  BY <1>1, <1>2, <1>3 DEF CallsOf, Range

LEMMA OpenIs ==
  ASSUME TypeInv
  PROVE  \A x : x \in OpenCalls <=>
             \/ x \in held
             \/ \E m \in Numbers : /\ ~Replied(m)
                                   /\ x \in {<<m, responses[m][k]>> : k \in DOMAIN responses[m]}
<1>1. \A m \in Numbers : Range(CallsOf(m, responses[m])) =
                            {<<m, responses[m][k]>> : k \in DOMAIN responses[m]}
  BY CallsOfIs, ResponsesAre
<1>2. \A x : x \in Collected <=> \E m \in Numbers : ~Replied(m) /\ x \in Range(CallsOf(m, responses[m]))
  BY DEF Collected
<1> QED
  BY <1>1, <1>2 DEF OpenCalls

LEMMA OpenIsNext ==
  ASSUME TypeInv'
  PROVE  \A x : x \in OpenCalls' <=>
             \/ x \in held'
             \/ \E m \in Numbers : /\ ~Replied(m)'
                                   /\ x \in {<<m, responses'[m][k]>> : k \in DOMAIN responses'[m]}
<1>0. \A m \in Numbers : responses'[m] \in Seq(Positions)
  BY DEF TypeInv, TypeOK
<1>1. \A m \in Numbers : Range(CallsOf(m, responses'[m])) =
                            {<<m, responses'[m][k]>> : k \in DOMAIN responses'[m]}
  BY <1>0, CallsOfIs
<1>2. \A x : x \in Collected' <=>
          \E m \in Numbers : ~Replied(m)' /\ x \in Range(CallsOf(m, responses'[m]))
  BY DEF Collected
<1> QED
  BY <1>1, <1>2 DEF OpenCalls

LEMMA AnsweredIs ==
  ASSUME TypeInv, NEW x \in RC!Answered
  PROVE  \E n \in DOMAIN replies : Replied(replies[n].of) /\ x[1] = replies[n].of
<1>1. PICK n \in DOMAIN Answers : x \in RC!Range(Answers[n])
  BY DEF RC!Answered
<1>2. n \in DOMAIN replies /\ Answers[n] = CallsOf(replies[n].of, replies[n].items)
  BY <1>1 DEF Answers
<1>3. PICK k \in DOMAIN Answers[n] : x = Answers[n][k]
  BY <1>1 DEF RC!Range
<1>4. x[1] = replies[n].of
  BY <1>2, <1>3 DEF CallsOf
<1> QED
  BY <1>2, <1>4 DEF Replied

\* Nothing of the abstract state changes.
LEMMA Stutters ==
  ASSUME held' = held, responses' = responses, replies' = replies
  PROVE  [RC!Next]_(RC!vars)
<1>1. \A m : Replied(m)' <=> Replied(m)
  BY DEF Replied
<1>2. Collected' = Collected
  BY <1>1 DEF Collected
<1>3. OpenCalls' = OpenCalls /\ Answers' = Answers
  BY <1>2 DEF OpenCalls, Answers
<1> QED
  BY <1>3 DEF RC!vars

\* A call is made: it is new.
LEMMA Makes ==
  ASSUME TypeInv, TypeInv', NEW m \in Numbers, NEW i \in Positions, ~Replied(m),
         <<m, i>> \notin held, \A k \in DOMAIN responses[m] : responses[m][k] # i,
         replies' = replies, \A x : x \in OpenCalls' <=> x \in OpenCalls \/ x = <<m, i>>
  PROVE  [RC!Next]_(RC!vars)
<1> DEFINE c == <<m, i>>
<1>1. c \notin OpenCalls
  BY OpenIs
<1>2. c \notin RC!Answered
  BY AnsweredIs
<1>3. OpenCalls' = OpenCalls \cup {c} /\ Answers' = Answers
  BY DEF Answers
<1>4. RC!Make({c})
  BY <1>1, <1>2, <1>3 DEF RC!Make
<1>5. c \in Calls
  BY DEF Calls
<1> QED
  BY <1>4, <1>5 DEF RC!Next

\* A reply answers calls that are open.
LEMMA Replies ==
  ASSUME TypeInv, NEW m \in Numbers, NEW its \in Seq(Positions), IsInjective(its), Reply(m, its),
         NEW S, S = {<<m, its[k]>> : k \in DOMAIN its}, S \subseteq OpenCalls,
         \A x : x \in OpenCalls' <=> x \in OpenCalls /\ x \notin S
  PROVE  [RC!Next]_(RC!vars)
<1> DEFINE s == CallsOf(m, its)
           R == [of : Numbers, items : Seq(Positions)]
           r == [of |-> m, items |-> its]
<1>1. Len(its) \in Nat /\ DOMAIN its = 1 .. Len(its)
  BY LenProperties
<1>2. s \in Seq(Calls) /\ s \in [1 .. Len(its) -> S] /\ \A i, j \in 1 .. Len(its) : i # j => s[i] # s[j]
  <2>1. s \in Seq(Calls) /\ DOMAIN s = 1 .. Len(its) /\ Range(s) = S
    BY CallsOfIs
  <2>2. s \in [1 .. Len(its) -> S]
    BY <1>1, <2>1 DEF CallsOf
  <2> QED
    BY <1>1, <2>1, <2>2 DEF CallsOf, IsInjective
<1>3. Cardinality(S) = Len(its)
  <2>1. s \in Bijection(1 .. Len(its), S)
    BY <1>1, <1>2 DEF Bijection, Injection, Surjection, IsInjective, CallsOf
  <2>2. ExistsBijection(1 .. Len(its), S)
    BY <2>1 DEF ExistsBijection
  <2>3. IsFiniteSet(1 .. Len(its)) /\ Cardinality(1 .. Len(its)) = Len(its)
    <3>1. \A n \in Int : /\ IsFiniteSet(1 .. n)
                         /\ Cardinality(1 .. n) = IF 1 > n THEN 0 ELSE n - 1 + 1
      BY FS_Interval
    <3>2. /\ IsFiniteSet(1 .. Len(its))
          /\ Cardinality(1 .. Len(its)) = IF 1 > Len(its) THEN 0 ELSE Len(its) - 1 + 1
      BY <1>1, <3>1
    <3> QED
      BY <1>1, <3>2
  <2> QED
    BY <2>2, <2>3, FS_Bijection
<1>4. s \in RC!SetToSeqs(S)
  <2>1. RC!Cardinality(S) = Cardinality(S)
    BY DEF RC!Cardinality, Cardinality
  <2> QED
    BY <1>2, <1>3, <2>1 DEF RC!SetToSeqs
<1>5. Answers' = Append(Answers, s)
  <2>1. replies \in Seq(R) /\ r \in R /\ replies' = Append(replies, r)
    BY DEF TypeInv, TypeOK, Reply
  <2>2. /\ Len(replies) \in Nat /\ DOMAIN replies = 1 .. Len(replies)
        /\ DOMAIN replies' = 1 .. Len(replies) + 1
        /\ \A n \in 1 .. Len(replies) : replies'[n] = replies[n]
        /\ replies'[Len(replies) + 1] = r
    BY <2>1, AppendProperties, LenProperties
  <2>3. Answers \in Seq(Seq(Calls)) /\ Len(Answers) = Len(replies)
    <3>1. Answers \in [1 .. Len(replies) -> Seq(Calls)]
      BY <2>2, RepliesAre, CallsOfIs DEF Answers
    <3> QED
      BY <2>2, <3>1, SeqDef, LenProperties
  <2>4. /\ Append(Answers, s) \in Seq(Seq(Calls))
        /\ DOMAIN Append(Answers, s) = 1 .. Len(replies) + 1
        /\ \A n \in 1 .. Len(replies) : Append(Answers, s)[n] = Answers[n]
        /\ Append(Answers, s)[Len(replies) + 1] = s
    BY <1>2, <2>3, AppendProperties, LenProperties
  <2>5. Answers' = [n \in 1 .. Len(replies) + 1 |-> CallsOf(replies'[n].of, replies'[n].items)]
    BY <2>2 DEF Answers
  <2>6. \A n \in 1 .. Len(replies) + 1 : Append(Answers, s)[n] = Answers'[n]
    <3> TAKE n \in 1 .. Len(replies) + 1
    <3>1. CASE n = Len(replies) + 1
      BY <2>2, <2>4, <2>5, <3>1
    <3>2. CASE n \in 1 .. Len(replies)
      BY <2>2, <2>4, <2>5, <3>2 DEF Answers
    <3>3. n = Len(replies) + 1 \/ n \in 1 .. Len(replies)
      BY <2>2
    <3> QED
      BY <3>1, <3>2, <3>3
  <2>7. Append(Answers, s) = [n \in 1 .. Len(replies) + 1 |-> Append(Answers, s)[n]]
    BY <2>4, LenProperties
  <2> HIDE DEF s
  <2> QED
    BY <2>5, <2>6, <2>7
<1>6. RC!Answer(S)
  <2>1. OpenCalls' = OpenCalls \ S
    OBVIOUS
  <2> HIDE DEF s
  <2> QED
    BY <1>4, <1>5, <2>1 DEF RC!Answer
<1> QED
  BY <1>6 DEF RC!Next

\* The last reference to batch m goes: its calls are open until then.
LEMMA DropAnswers ==
  ASSUME TypeInv, Inv, TypeInv', Inv', NEW m \in Numbers, IsBatch(m), NEW h \in holders[m],
         Drop(m, h), held' = held, responses' = responses
  PROVE  [RC!Next]_(RC!vars)
<1>1. CASE holders[m] # {h}
  BY <1>1, Stutters DEF Drop
<1>2. CASE holders[m] = {h}
  <2> DEFINE S == {<<m, responses[m][k]>> : k \in DOMAIN responses[m]}
  <2>1. Reply(m, responses[m])
    BY <1>2 DEF Drop
  <2>2. ~Replied(m)
    BY Unreplied DEF IsBatch, Replied
  <2>3. \A k \in Numbers : Replied(k)' <=> Replied(k) \/ k = m
    <3>1. responses[m] \in Seq(Positions)
      BY ResponsesAre
    <3>2. PICK last :
             /\ DOMAIN replies' = DOMAIN replies \cup {last} /\ last \notin DOMAIN replies
             /\ \A n \in DOMAIN replies : replies'[n] = replies[n]
             /\ replies'[last].of = m /\ replies'[last].items = responses[m]
      BY <2>1, <3>1, ReplyAdded
    <3> QED
      BY <3>2 DEF Replied
  <2>4. IsInjective(responses[m]) /\ \A k \in DOMAIN responses[m] : <<m, responses[m][k]>> \notin held
    BY DEF Inv, ResponseInv
  <2>5. S \subseteq OpenCalls
    BY <2>2, OpenIs
  <2>6. \A x : x \in OpenCalls' <=> x \in OpenCalls /\ x \notin S
    <3> TAKE x
    <3>1. x \in S => x[1] = m
      OBVIOUS
    <3>2. \A k \in Numbers : x \in {<<k, responses[k][j]>> : j \in DOMAIN responses[k]} => x[1] = k
      OBVIOUS
    <3>3. x \in OpenCalls' <=> x \in held \/ \E k \in Numbers : /\ ~Replied(k) /\ k # m
                                                                /\ x \in {<<k, responses[k][j]>> : j \in DOMAIN responses[k]}
      BY <2>3, OpenIsNext
    <3>4. x \in OpenCalls <=> x \in held \/ \E k \in Numbers : /\ ~Replied(k)
                                                               /\ x \in {<<k, responses[k][j]>> : j \in DOMAIN responses[k]}
      BY OpenIs
    <3>5. x \in held => x \notin S
      BY <2>4
    <3> HIDE DEF S
    <3> QED
      BY <2>2, <3>1, <3>2, <3>3, <3>4, <3>5 DEF S
  <2>7. responses[m] \in Seq(Positions)
    BY ResponsesAre
  <2> HIDE DEF S
  <2> QED
    BY <2>1, <2>4, <2>5, <2>6, <2>7, Replies DEF S
<1> QED
  BY <1>1, <1>2

\* A response more for item i of m: what is open is the same but for this item.
LEMMA ResponseAdded ==
  ASSUME TypeInv, TypeInv', NEW m \in Numbers, NEW i \in Positions, ~Replied(m),
         responses' = [responses EXCEPT ![m] = Append(@, i)], replies' = replies,
         NEW x
  PROVE  x \in OpenCalls' <=>
           \/ x \in held' \/ x = <<m, i>>
           \/ \E k \in Numbers : /\ ~Replied(k)
                                 /\ x \in {<<k, responses[k][j]>> : j \in DOMAIN responses[k]}
<1>1. \A k \in Numbers : Replied(k)' <=> Replied(k)
  BY DEF Replied
<1>2. \A k \in Numbers \ {m} : responses'[k] = responses[k]
  BY DEF TypeInv, TypeOK
<1>3. {<<m, responses'[m][j]>> : j \in DOMAIN responses'[m]} =
         {<<m, responses[m][j]>> : j \in DOMAIN responses[m]} \cup {<<m, i>>}
  <2>1. responses'[m] = Append(responses[m], i)
    BY DEF TypeInv, TypeOK
  <2>2. Len(responses[m]) \in Nat /\ DOMAIN responses[m] = 1 .. Len(responses[m])
    BY ResponsesAre, LenProperties
  <2>3. /\ DOMAIN responses'[m] = 1 .. Len(responses[m]) + 1
        /\ \A j \in 1 .. Len(responses[m]) : responses'[m][j] = responses[m][j]
        /\ responses'[m][Len(responses[m]) + 1] = i
    BY <2>1, ResponsesAre, AppendProperties, LenProperties
  <2>4. DOMAIN responses'[m] = DOMAIN responses[m] \cup {Len(responses[m]) + 1}
    BY <2>2, <2>3
  <2> QED
    BY <2>2, <2>3, <2>4
<1>4. x \in OpenCalls' <=>
        \/ x \in held'
        \/ \E k \in Numbers : /\ ~Replied(k)
                              /\ x \in {<<k, responses'[k][j]>> : j \in DOMAIN responses'[k]}
  BY <1>1, OpenIsNext
<1>5. \A k \in Numbers \ {m} : x \in {<<k, responses'[k][j]>> : j \in DOMAIN responses'[k]} <=>
                               x \in {<<k, responses[k][j]>> : j \in DOMAIN responses[k]}
  BY <1>2
<1>6. x \in {<<m, responses'[m][j]>> : j \in DOMAIN responses'[m]} <=>
        x \in {<<m, responses[m][j]>> : j \in DOMAIN responses[m]} \/ x = <<m, i>>
  BY <1>3
<1> QED
  BY <1>4, <1>5, <1>6

\* A refused request of a batch.
LEMMA ResponseMakes ==
  ASSUME TypeInv, TypeInv', NEW m \in Numbers, NEW i \in Positions, ~Replied(m),
         responses' = [responses EXCEPT ![m] = Append(@, i)], replies' = replies, held' = held
  PROVE  \A x : x \in OpenCalls' <=> x \in OpenCalls \/ x = <<m, i>>
<1> TAKE x
<1>1. x \in OpenCalls' <=>
        \/ x \in held' \/ x = <<m, i>>
        \/ \E k \in Numbers : ~Replied(k) /\ x \in {<<k, responses[k][j]>> : j \in DOMAIN responses[k]}
  BY ResponseAdded
<1>2. x \in OpenCalls <=>
        \/ x \in held
        \/ \E k \in Numbers : ~Replied(k) /\ x \in {<<k, responses[k][j]>> : j \in DOMAIN responses[k]}
  BY OpenIs
<1> QED
  BY <1>1, <1>2

\* A call of a batch stays open when its service has answered.
LEMMA AddedStaysOpen ==
  ASSUME TypeInv, TypeInv', NEW m \in Numbers, NEW i \in Positions, ~Replied(m),
         responses' = [responses EXCEPT ![m] = Append(@, i)], replies' = replies,
         <<m, i>> \in held, held' = held \ {<<m, i>>}
  PROVE  \A x : x \in OpenCalls' <=> x \in OpenCalls
<1> TAKE x
<1>1. x \in OpenCalls' <=>
        \/ x \in held' \/ x = <<m, i>>
        \/ \E k \in Numbers : ~Replied(k) /\ x \in {<<k, responses[k][j]>> : j \in DOMAIN responses[k]}
  BY ResponseAdded
<1>2. x \in OpenCalls <=>
        \/ x \in held
        \/ \E k \in Numbers : ~Replied(k) /\ x \in {<<k, responses[k][j]>> : j \in DOMAIN responses[k]}
  BY OpenIs
<1> QED
  BY <1>1, <1>2

\* The answer to a call that was alone in its message.
LEMMA SingleAnswers ==
  ASSUME TypeInv, TypeInv', Inv, NEW c \in held, c[1] \in Numbers, c[2] \in Positions,
         c = <<c[1], c[2]>>, ~taken[c[1]].batch, held' = held \ {c}, responses' = responses,
         Reply(c[1], <<c[2]>>)
  PROVE  [RC!Next]_(RC!vars)
<1> DEFINE its == <<c[2]>>
<1>1. its \in Seq(Positions) /\ IsInjective(its) /\ DOMAIN its = {1} /\ its[1] = c[2]
  BY DEF IsInjective
<1>2. {c} = {<<c[1], its[k]>> : k \in DOMAIN its}
  BY <1>1
<1>3. {c} \subseteq OpenCalls
  BY OpenIs
<1>4. DOMAIN responses[c[1]] = {}
  BY DEF Inv, ResponseInv, IsBatch
<1>5. \A k \in Numbers : k # c[1] => (Replied(k)' <=> Replied(k))
  <2> HIDE DEF its
  <2>1. PICK last :
           /\ DOMAIN replies' = DOMAIN replies \cup {last} /\ last \notin DOMAIN replies
           /\ \A n \in DOMAIN replies : replies'[n] = replies[n]
           /\ replies'[last].of = c[1] /\ replies'[last].items = its
    BY <1>1, ReplyAdded DEF its
  <2> QED
    BY <2>1 DEF Replied
<1>6. \A x : x \in OpenCalls' <=> x \in OpenCalls /\ x \notin {c}
  <2> TAKE x
  <2>1. \A k \in Numbers : x \in {<<k, responses[k][j]>> : j \in DOMAIN responses[k]} =>
                             k # c[1] /\ x[1] = k
    BY <1>4
  <2>2. x \in OpenCalls' <=>
          \/ x \in held'
          \/ \E k \in Numbers : ~Replied(k) /\ x \in {<<k, responses[k][j]>> : j \in DOMAIN responses[k]}
    BY <1>5, <2>1, OpenIsNext
  <2> QED
    BY <2>1, <2>2, OpenIs
<1> HIDE DEF its
<1> QED
  BY <1>1, <1>2, <1>3, <1>6, Replies DEF its

\* What a peer may expect of the server is RemoteCall: every response answers a request
\* that was made, and none is answered twice, whatever shares a batch with it, however
\* the services answer, and whatever brings the server down in between
\* (bearTcpServer.cc:232-264, 297-358).
THEOREM Implements == Spec => ImplementsRemoteCall
<1>1. Init => RC!Init
  <2> SUFFICES ASSUME Init PROVE RC!Init
    OBVIOUS
  <2>1. DOMAIN replies = {} /\ \A m \in Numbers : DOMAIN responses[m] = {}
    BY EmptySeq DEF Init
  <2>2. \A x : x \notin OpenCalls
    BY <2>1, OpenIs, TypeInit DEF Init
  <2>3. Answers = <<>>
    BY <2>1 DEF Answers
  <2> QED
    BY <2>2, <2>3 DEF RC!Init
<1>2. TypeInv /\ TypeInv' /\ Inv /\ Inv' /\ [Next]_vars => [RC!Next]_(RC!vars)
  <2> SUFFICES ASSUME TypeInv, TypeInv', Inv, Inv', [Next]_vars
               PROVE  [RC!Next]_(RC!vars)
    OBVIOUS
  <2>1. CASE Send \/ Arrive \/ NeedMore \/ SkipBlank \/ RejectLength \/ BeginBatch \/ BatchNotify
             \/ UNCHANGED vars
    <3>1. held' = held /\ responses' = responses /\ replies' = replies
      BY <2>1 DEF Send, Arrive, NeedMore, SkipBlank, RejectLength, BeginBatch, BatchNotify, vars,
         batchVars
    <3> QED
      BY <3>1, Stutters
  <2>2. CASE HandleSingle
    <3>1. PICK msg \in Messages :
                 /\ Retrieve(msg) /\ ~msg.batch
                 /\ held' = IF msg.items[1] = "call" THEN held \cup {<<current + 1, 1>>} ELSE held
      BY <2>2 DEF HandleSingle
    <3>2. responses' = responses /\ replies' = replies
      BY <2>2 DEF HandleSingle, batchVars
    <3>3. CASE held' = held
      BY <3>2, <3>3, Stutters
    <3>4. CASE held' = held \cup {<<current + 1, 1>>}
      <4> DEFINE m0 == current + 1
      <4>1. m0 \in Numbers /\ 1 \in Positions /\ current \in Nat
        BY <2>2, <3>1, Retrieved, Lengths, MessagesAre DEF HandleSingle, Positions
      <4>2. ~Replied(m0)
        BY <4>1, RepliesAre, MessagesAre DEF Replied, Inv, ReplyInv, Numbers
      <4>3. <<m0, 1>> \notin held
        BY <4>1 DEF Inv, CallInv
      <4>4. \A k \in DOMAIN responses[m0] : responses[m0][k] # 1
        <5>1. ~IsBatch(m0)
          BY <4>1 DEF IsBatch
        <5> QED
          BY <4>1, <5>1 DEF Inv, ResponseInv
      <4>5. \A x : x \in OpenCalls' <=> x \in OpenCalls \/ x = <<m0, 1>>
        <5>1. \A k \in Numbers : Replied(k)' <=> Replied(k)
          BY <3>2 DEF Replied
        <5> HIDE DEF m0
        <5> QED
          BY <3>2, <3>4, <5>1, OpenIs, OpenIsNext DEF m0
      <4> HIDE DEF m0
      <4> QED
        BY <3>2, <4>1, <4>2, <4>3, <4>4, <4>5, Makes
    <3> QED
      BY <3>1, <3>3, <3>4
  <2>3. ASSUME pc = "batch", next <= Len(items)
        PROVE  /\ current \in Numbers /\ next \in Positions /\ ~Replied(current)
               /\ <<current, next>> \notin held
               /\ \A k \in DOMAIN responses[current] : responses[current][k] # next
    <3>1. /\ current \in Numbers /\ next \in Positions /\ ~Replied(current) /\ InHandler(current)
          /\ next \in Nat
      BY <2>3, InTheHandler DEF Replied, Positions
    <3>2. <<current, next>> \notin held
      BY <3>1 DEF Inv, CallInv
    <3>3. \A k \in DOMAIN responses[current] : responses[current][k] # next
      <4>1. \A k \in DOMAIN responses[current] : /\ responses[current][k] \in Nat
                                                /\ responses[current][k] < next
        BY <3>1, ResponsesAre DEF Inv, ResponseInv
      <4> QED
        BY <3>1, <4>1
    <3> QED
      BY <3>1, <3>2, <3>3
  <2>4. CASE BatchCall
    <3>1. /\ pc = "batch" /\ next <= Len(items) /\ held' = held \cup {<<current, next>>}
          /\ responses' = responses /\ replies' = replies
      BY <2>4 DEF BatchCall, BatchGoesOn
    <3>2. \A x : x \in OpenCalls' <=> x \in OpenCalls \/ x = <<current, next>>
      <4>1. \A k \in Numbers : Replied(k)' <=> Replied(k)
        BY <3>1 DEF Replied
      <4> QED
        BY <3>1, <4>1, OpenIs, OpenIsNext
    <3> QED
      BY <2>3, <3>1, <3>2, Makes
  <2>5. CASE BatchThrows
    <3>1. /\ pc = "batch" /\ next <= Len(items) /\ held' = held /\ replies' = replies
          /\ \/ responses' = responses
             \/ responses' = [responses EXCEPT ![current] = Append(@, next)]
      BY <2>5 DEF BatchThrows, BatchGoesOn
    <3>2. CASE responses' = responses
      BY <3>1, <3>2, Stutters
    <3>3. CASE responses' = [responses EXCEPT ![current] = Append(@, next)]
      <4>1. \A x : x \in OpenCalls' <=> x \in OpenCalls \/ x = <<current, next>>
        BY <2>3, <3>1, <3>3, ResponseMakes
      <4> QED
        BY <2>3, <3>1, <4>1, Makes
    <3> QED
      BY <3>1, <3>2, <3>3
  <2>6. CASE EndBatch
    <3>1. /\ pc = "batch" /\ Drop(current, 0) /\ held' = held /\ responses' = responses
      BY <2>6 DEF EndBatch
    <3> QED
      BY <3>1, InTheHandler, DropAnswers
  <2>7. ASSUME NEW c \in held \cup called, Answer(c) PROVE [RC!Next]_(RC!vars)
    <3>1. /\ c \in held /\ held' = held \ {c}
          /\ c[1] \in Numbers /\ c[2] \in Positions /\ c = <<c[1], c[2]>>
      BY <2>7, CallsAre DEF Answer
    <3>2. ~Replied(c[1])
      BY <3>1, Unreplied DEF Replied
    <3>3. CASE taken[c[1]].batch
      <4>1. responses' = [responses EXCEPT ![c[1]] = Append(@, c[2])] /\ replies' = replies
        BY <2>7, <3>3 DEF Answer
      <4>2. \A x : x \in OpenCalls' <=> x \in OpenCalls
        BY <3>1, <3>2, <4>1, AddedStaysOpen
      <4>3. OpenCalls' = OpenCalls /\ Answers' = Answers
        BY <4>1, <4>2 DEF Answers
      <4> QED
        BY <4>3 DEF RC!vars
    <3>4. CASE ~taken[c[1]].batch
      <4>1. Reply(c[1], <<c[2]>>) /\ responses' = responses
        BY <2>7, <3>4 DEF Answer
      <4> QED
        BY <3>1, <3>2, <3>4, <4>1, SingleAnswers
    <3> QED
      BY <3>3, <3>4
  <2>8. ASSUME NEW c \in held \cup called, Release(c) PROVE [RC!Next]_(RC!vars)
    <3>1. /\ c \in called /\ held' = held /\ responses' = responses
          /\ c[1] \in Numbers /\ c[2] \in Positions /\ c = <<c[1], c[2]>> /\ c[1] <= current
      BY <2>8, CallsAre DEF Release, Inv, CallInv
    <3>2. CASE taken[c[1]].batch
      <4>1. Drop(c[1], c[2]) /\ IsBatch(c[1])
        BY <2>8, <3>1, <3>2 DEF Release, IsBatch
      <4>2. c[2] \in Outstanding(c[1])
        BY <3>1 DEF Outstanding
      <4>3. holders[c[1]] = (IF InHandler(c[1]) THEN {0} ELSE {}) \cup Outstanding(c[1])
        BY <3>1, <4>1 DEF Inv, HolderInv
      <4>4. c[2] \in holders[c[1]]
        BY <4>2, <4>3
      <4> QED
        BY <3>1, <4>1, <4>4, DropAnswers
    <3>3. CASE ~taken[c[1]].batch
      BY <2>8, <3>1, <3>3, Stutters DEF Release
    <3> QED
      BY <3>2, <3>3
  <2> QED
    BY <2>1, <2>2, <2>4, <2>5, <2>6, <2>7, <2>8 DEF Next, HandleMessage
<1> QED
  BY <1>1, <1>2, TypeInvAlways, InvAlways, PTL DEF Spec, ImplementsRemoteCall, RC!Spec

-----------------------------------------------------------------------------
(***************************************************************************)
(* The input buffer of a connection.  RpcServer's `buffer' is a sequence   *)
(* of units; Buffer, the class that holds their bytes, shares nothing with *)
(* the rest and is instantiated beside it: it is a queue of bytes, for     *)
(* data of any length and for any initial size.                            *)
(***************************************************************************)

VARIABLE buf

B == INSTANCE Buffer

\* All that the proofs use of the sizes.
LEMMA BufferAssumption ==
  /\ B!Zero \in B!Byte /\ B!Data \subseteq Seq(B!Byte)
  /\ B!kCheapPrepend \in Nat /\ B!extraSize \in Nat
BY DEF B!Zero, B!Byte, B!Data, B!kCheapPrepend, B!extraSize

\* The vector as a function: what SMT can reason about.
LEMMA Vectors ==
  ASSUME NEW b, B!WellFormed(b)
  PROVE  /\ b.data \in Seq(B!Byte) /\ Len(b.data) \in Nat
         /\ b.readerIndex \in Nat /\ b.writerIndex \in Nat
         /\ b.readerIndex <= b.writerIndex /\ b.writerIndex <= Len(b.data)
         /\ \A i \in 1 .. Len(b.data) : b.data[i] \in B!Byte
         /\ B!readableBytes(b) \in Nat /\ B!writableBytes(b) \in Nat /\ B!prependableBytes(b) \in Nat
<1>1. b.data \in Seq(B!Byte) /\ b.readerIndex \in Nat /\ b.writerIndex \in Nat
  BY DEF B!WellFormed, B!Buffers
<1>2. Len(b.data) \in Nat /\ \A i \in 1 .. Len(b.data) : b.data[i] \in B!Byte
  BY <1>1, LenProperties, ElementOfSeq
<1> QED
  BY <1>1, <1>2 DEF B!WellFormed, B!readableBytes, B!writableBytes, B!prependableBytes

LEMMA ContentsAre ==
  ASSUME NEW b, B!WellFormed(b)
  PROVE  /\ B!Contents(b) \in Seq(B!Byte)
         /\ Len(B!Contents(b)) = B!readableBytes(b)
         /\ \A i \in 1 .. B!readableBytes(b) : B!Contents(b)[i] = b.data[b.readerIndex + i]
<1> DEFINE m == b.readerIndex + 1
           n == b.writerIndex
<1>1. m \in Int /\ n \in Int /\ \A i \in m .. n : b.data[i] \in B!Byte
  BY Vectors
<1>2. /\ B!Contents(b) \in Seq(B!Byte)
      /\ Len(B!Contents(b)) = IF m <= n THEN n - m + 1 ELSE 0
      /\ \A i \in 1 .. n - m + 1 : B!Contents(b)[i] = b.data[m + i - 1]
  BY <1>1, SubSeqProperties DEF B!Contents
<1>3. /\ (IF m <= n THEN n - m + 1 ELSE 0) = B!readableBytes(b)
      /\ n - m + 1 = B!readableBytes(b)
  BY Vectors DEF B!readableBytes
<1>4. \A i \in 1 .. B!readableBytes(b) : m + i - 1 = b.readerIndex + i
  BY Vectors
<1> QED
  BY <1>2, <1>3, <1>4

\* Two buffers with the same bytes between their indices hold the same.
LEMMA SameContents ==
  ASSUME NEW b, NEW c, B!WellFormed(b), B!WellFormed(c),
         B!readableBytes(c) = B!readableBytes(b),
         \A i \in 1 .. B!readableBytes(b) : c.data[c.readerIndex + i] = b.data[b.readerIndex + i]
  PROVE  B!Contents(c) = B!Contents(b)
<1>1. B!Contents(b) \in Seq(B!Byte) /\ B!Contents(c) \in Seq(B!Byte) /\ Len(B!Contents(c)) = Len(B!Contents(b))
  BY ContentsAre
<1>2. \A i \in 1 .. Len(B!Contents(c)) : B!Contents(c)[i] = B!Contents(b)[i]
  BY ContentsAre
<1> QED
  BY <1>1, <1>2, SeqEqual

LEMMA CopyIs ==
  ASSUME NEW v \in Seq(B!Byte), NEW from \in Nat, NEW d \in Seq(B!Byte), from + Len(d) <= Len(v)
  PROVE  /\ B!CopyTo(v, from, d) \in Seq(B!Byte)
         /\ Len(B!CopyTo(v, from, d)) = Len(v)
         /\ \A i \in 1 .. Len(v) : B!CopyTo(v, from, d)[i] =
                IF i \in from + 1 .. from + Len(d) THEN d[i - from] ELSE v[i]
<1>1. Len(v) \in Nat /\ Len(d) \in Nat
  BY LenProperties
<1>2. \A i \in 1 .. Len(v) : v[i] \in B!Byte
  BY ElementOfSeq
<1>3. \A i \in 1 .. Len(d) : d[i] \in B!Byte
  BY ElementOfSeq
<1> DEFINE c == B!CopyTo(v, from, d)
<1>4. c = [i \in 1 .. Len(v) |-> IF i \in from + 1 .. from + Len(d) THEN d[i - from] ELSE v[i]]
  BY DEF B!CopyTo
<1>5. \A i \in 1 .. Len(v) : i \in from + 1 .. from + Len(d) => d[i - from] \in B!Byte
  BY <1>1, <1>3
<1>6. c \in [1 .. Len(v) -> B!Byte]
  BY <1>2, <1>4, <1>5
<1>7. c \in Seq(B!Byte) /\ Len(c) = Len(v)
  BY <1>1, <1>6, SeqDef
<1> QED
  BY <1>4, <1>7

-----------------------------------------------------------------------------
\* Room is made without a change to what is readable.
LEMMA MovedIs ==
  ASSUME NEW b, B!WellFormed(b), NEW len \in Nat, B!MovesFor(b, len)
  PROVE  /\ B!WellFormed(B!Moved(b)) /\ B!Contents(B!Moved(b)) = B!Contents(b)
         /\ Len(B!Moved(b).data) = Len(b.data)
         /\ B!writableBytes(B!Moved(b)) >= len
<1> DEFINE c == B!Moved(b)
<1>0. B!kCheapPrepend \in Nat
  BY BufferAssumption
<1>1. B!kCheapPrepend + Len(B!Contents(b)) <= Len(b.data)
  BY <1>0, Vectors, ContentsAre DEF B!MovesFor, B!writableBytes, B!prependableBytes,
     B!readableBytes
<1>2. /\ c.data = B!CopyTo(b.data, B!kCheapPrepend, B!Contents(b))
      /\ c.readerIndex = B!kCheapPrepend
      /\ c.writerIndex = B!kCheapPrepend + B!readableBytes(b)
      /\ c = [data |-> c.data, readerIndex |-> c.readerIndex, writerIndex |-> c.writerIndex]
  BY DEF B!Moved
<1>3. /\ c.data \in Seq(B!Byte) /\ Len(c.data) = Len(b.data)
      /\ \A i \in 1 .. Len(b.data) : c.data[i] =
            IF i \in B!kCheapPrepend + 1 .. B!kCheapPrepend + Len(B!Contents(b))
            THEN B!Contents(b)[i - B!kCheapPrepend] ELSE b.data[i]
  BY <1>0, <1>1, <1>2, CopyIs, ContentsAre, Vectors
<1>4. B!WellFormed(c) /\ B!readableBytes(c) = B!readableBytes(b)
  <2>1. c \in B!Buffers
    BY <1>0, <1>2, <1>3, Vectors DEF B!Buffers
  <2> QED
    BY <2>1, <1>0, <1>1, <1>2, <1>3, Vectors, ContentsAre DEF B!WellFormed, B!readableBytes
<1>5. \A i \in 1 .. B!readableBytes(b) : c.data[c.readerIndex + i] = b.data[b.readerIndex + i]
  <2> TAKE i \in 1 .. B!readableBytes(b)
  <2>1. /\ B!kCheapPrepend + i \in 1 .. Len(b.data)
        /\ B!kCheapPrepend + i \in B!kCheapPrepend + 1 .. B!kCheapPrepend + Len(B!Contents(b))
        /\ (B!kCheapPrepend + i) - B!kCheapPrepend = i
    BY <1>0, <1>1, ContentsAre, Vectors
  <2>2. c.data[B!kCheapPrepend + i] = B!Contents(b)[i]
    BY <1>3, <2>1
  <2> QED
    BY <1>2, <2>2, ContentsAre
<1>6. B!Contents(c) = B!Contents(b)
  BY <1>4, <1>5, SameContents
<1>7. B!writableBytes(c) >= len
  BY <1>0, <1>2, <1>3, Vectors, SMTT(30)
  DEF B!MovesFor, B!writableBytes, B!prependableBytes,
     B!readableBytes
<1> QED
  BY <1>3, <1>4, <1>6, <1>7

LEMMA ResizedIs ==
  ASSUME NEW b, B!WellFormed(b), NEW len \in Nat, B!writableBytes(b) < len
  PROVE  /\ B!WellFormed(B!Resized(b, len)) /\ B!Contents(B!Resized(b, len)) = B!Contents(b)
         /\ Len(B!Resized(b, len).data) = b.writerIndex + len
         /\ B!writableBytes(B!Resized(b, len)) = len
<1> DEFINE c == B!Resized(b, len)
           size == b.writerIndex + len
<1>0. B!Zero \in B!Byte
  BY BufferAssumption
<1>1. /\ c.data = [i \in 1 .. size |-> IF i <= Len(b.data) THEN b.data[i] ELSE B!Zero]
      /\ c.readerIndex = b.readerIndex /\ c.writerIndex = b.writerIndex
  <2>1. b \in B!Buffers
    BY DEF B!WellFormed
  <2> QED
    BY <2>1 DEF B!Resized, B!Buffers
<1>2. size \in Nat /\ size > Len(b.data)
  BY Vectors DEF B!writableBytes
<1>3. c.data \in [1 .. size -> B!Byte]
  BY <1>0, <1>1, <1>2, Vectors
<1>4. c.data \in Seq(B!Byte) /\ Len(c.data) = size
  BY <1>2, <1>3, SeqDef
<1>5. B!WellFormed(c) /\ B!readableBytes(c) = B!readableBytes(b)
  <2>1. b \in B!Buffers
    BY DEF B!WellFormed
  <2>2. c \in B!Buffers
    BY <1>4, <2>1 DEF B!Resized, B!Buffers
  <2> QED
    BY <2>2, <1>1, <1>2, <1>4, Vectors DEF B!WellFormed, B!readableBytes
<1>6. \A i \in 1 .. B!readableBytes(b) : c.data[c.readerIndex + i] = b.data[b.readerIndex + i]
  <2> TAKE i \in 1 .. B!readableBytes(b)
  <2>1. b.readerIndex + i \in 1 .. size /\ b.readerIndex + i <= Len(b.data)
    BY <1>2, Vectors DEF B!readableBytes
  <2>2. c.data[b.readerIndex + i] = b.data[b.readerIndex + i]
    BY <1>1, <2>1
  <2> QED
    BY <1>1, <2>2
<1>7. B!Contents(c) = B!Contents(b)
  BY <1>5, <1>6, SameContents
<1> QED
  BY <1>1, <1>4, <1>5, <1>7, Vectors, SMTT(30) DEF B!writableBytes

LEMMA RoomIsMade ==
  ASSUME NEW b, B!WellFormed(b), NEW len \in Nat
  PROVE  LET c == B!ensureWritableBytes(b, len)
         IN  /\ B!WellFormed(c) /\ B!Contents(c) = B!Contents(b)
             /\ B!writableBytes(c) >= len /\ Len(c.data) >= Len(b.data)
             /\ Len(c.data) > Len(b.data) =>
                    /\ Len(c.data) = b.writerIndex + len
                    /\ ~B!MovesFor(b, len)
<1>1. CASE B!writableBytes(b) >= len
  BY <1>1, Vectors DEF B!ensureWritableBytes
<1>2. CASE B!writableBytes(b) < len /\ B!MovesFor(b, len)
  BY <1>2, MovedIs, Vectors DEF B!ensureWritableBytes, B!makeSpace
<1>3. CASE B!writableBytes(b) < len /\ ~B!MovesFor(b, len)
  BY <1>3, ResizedIs, Vectors DEF B!ensureWritableBytes, B!makeSpace, B!writableBytes
<1> QED
  BY <1>1, <1>2, <1>3, Vectors

-----------------------------------------------------------------------------
\* What the operations do to the contents.
LEMMA WrittenIs ==
  ASSUME NEW b, B!WellFormed(b), NEW d \in Seq(B!Byte), Len(d) <= B!writableBytes(b)
  PROVE  /\ B!WellFormed(B!Written(b, d))
         /\ B!Contents(B!Written(b, d)) = B!Contents(b) \o d
         /\ Len(B!Written(b, d).data) = Len(b.data)
<1> DEFINE c == B!Written(b, d)
           n == B!readableBytes(b)
<1>0. Len(d) \in Nat /\ b \in B!Buffers /\ b.writerIndex + Len(d) <= Len(b.data)
  BY LenProperties, Vectors DEF B!WellFormed, B!writableBytes
<1>1. /\ c.data = B!CopyTo(b.data, b.writerIndex, d)
      /\ c.readerIndex = b.readerIndex /\ c.writerIndex = b.writerIndex + Len(d)
  BY <1>0 DEF B!Written, B!Buffers
<1>2. /\ c.data \in Seq(B!Byte) /\ Len(c.data) = Len(b.data)
      /\ \A i \in 1 .. Len(b.data) : c.data[i] =
            IF i \in b.writerIndex + 1 .. b.writerIndex + Len(d)
            THEN d[i - b.writerIndex] ELSE b.data[i]
  <2>1. b.data \in Seq(B!Byte) /\ b.writerIndex \in Nat
    BY Vectors
  <2> HIDE DEF c
  <2> QED
    BY <1>0, <1>1, <2>1, CopyIs
<1>3. B!WellFormed(c)
  <2>1. c.writerIndex \in Nat
    BY <1>0, <1>1, Vectors
  <2>2. c \in B!Buffers
    BY <1>0, <1>1, <1>2, <2>1 DEF B!Written, B!Buffers
  <2> QED
    BY <2>2, <1>0, <1>1, <1>2, Vectors DEF B!WellFormed
<1>4. n \in Nat /\ b.writerIndex = b.readerIndex + n
  BY Vectors DEF B!readableBytes
<1>5. B!readableBytes(c) = n + Len(d)
  BY <1>0, <1>1, Vectors DEF B!readableBytes
<1>6. /\ B!Contents(b) \o d \in Seq(B!Byte)
      /\ Len(B!Contents(b) \o d) = n + Len(d)
      /\ \A i \in 1 .. n + Len(d) : (B!Contents(b) \o d)[i] =
            IF i <= n THEN B!Contents(b)[i] ELSE d[i - n]
  <2>1. B!Contents(b) \in Seq(B!Byte) /\ Len(B!Contents(b)) = n
    BY ContentsAre
  <2> HIDE DEF n
  <2> QED
    BY <2>1, ConcatProperties
<1>7. ASSUME NEW i \in 1 .. n + Len(d)
      PROVE  B!Contents(c)[i] = (B!Contents(b) \o d)[i]
  <2>1. B!Contents(c)[i] = c.data[b.readerIndex + i]
    BY <1>1, <1>3, <1>5, ContentsAre
  <2>2. b.readerIndex + i \in 1 .. Len(b.data)
    BY <1>0, Vectors, SMTT(30) DEF B!readableBytes
  <2>3. CASE i <= n
    <3>1. b.readerIndex + i \notin b.writerIndex + 1 .. b.writerIndex + Len(d)
      BY <2>3, <1>0, Vectors, SMTT(30) DEF B!readableBytes
    <3>2. i \in 1 .. n
      BY <2>3, <1>0, Vectors
    <3>3. c.data[b.readerIndex + i] = B!Contents(b)[i]
      BY <1>2, <2>2, <3>1, <3>2, ContentsAre
    <3> QED
      BY <2>1, <2>3, <3>3, <1>6
  <2>4. CASE i > n
    <3>1. /\ b.readerIndex + i \in b.writerIndex + 1 .. b.writerIndex + Len(d)
          /\ (b.readerIndex + i) - b.writerIndex = i - n
      <4> HIDE DEF n
      <4>1. b.readerIndex \in Nat /\ b.writerIndex \in Nat
        BY Vectors
      <4> QED
        BY <2>4, <1>0, <1>4, <4>1, SMTT(30)
    <3>2. c.data[b.readerIndex + i] = d[i - n]
      BY <1>2, <2>2, <3>1
    <3>3. ~(i <= n)
      BY <2>4, <1>0, Vectors
    <3> QED
      BY <2>1, <3>2, <3>3, <1>6
  <2>5. i <= n \/ i > n
    BY <1>0, <1>4
  <2> QED
    BY <2>3, <2>4, <2>5
<1>8. B!Contents(c) \in Seq(B!Byte) /\ Len(B!Contents(c)) = n + Len(d)
  BY <1>3, <1>5, ContentsAre
<1>9. B!Contents(c) = B!Contents(b) \o d
  BY <1>6, <1>7, <1>8, SeqEqual
<1> QED
  BY <1>2, <1>3, <1>9

LEMMA appendIs ==
  ASSUME NEW b, B!WellFormed(b), NEW d \in Seq(B!Byte)
  PROVE  /\ B!WellFormed(B!append(b, d)) /\ B!Contents(B!append(b, d)) = B!Contents(b) \o d
         /\ Len(B!append(b, d).data) >= Len(b.data)
         /\ Len(B!append(b, d).data) > Len(b.data) =>
                B!kCheapPrepend + B!readableBytes(B!append(b, d)) > Len(b.data)
<1> DEFINE r == B!ensureWritableBytes(b, Len(d))
<1>0. Len(d) \in Nat /\ B!kCheapPrepend \in Nat
  BY LenProperties, BufferAssumption
<1>1. /\ B!WellFormed(r) /\ B!Contents(r) = B!Contents(b)
      /\ B!writableBytes(r) >= Len(d) /\ Len(r.data) >= Len(b.data)
      /\ Len(r.data) > Len(b.data) =>
            Len(r.data) = b.writerIndex + Len(d) /\ ~B!MovesFor(b, Len(d))
  BY <1>0, RoomIsMade
<1>2. Len(d) <= B!writableBytes(r)
  BY <1>0, <1>1, Vectors
<1>3. /\ B!WellFormed(B!append(b, d)) /\ B!Contents(B!append(b, d)) = B!Contents(r) \o d
      /\ Len(B!append(b, d).data) = Len(r.data)
  BY <1>1, <1>2, WrittenIs DEF B!append
<1>4. B!readableBytes(B!append(b, d)) = B!readableBytes(b) + Len(d)
  <2>1. Len(B!Contents(b) \o d) = Len(B!Contents(b)) + Len(d)
    BY ContentsAre, ConcatProperties
  <2> QED
    BY <2>1, <1>1, <1>3, ContentsAre
<1>5. ~B!MovesFor(b, Len(d)) => B!kCheapPrepend + B!readableBytes(b) + Len(d) > Len(b.data)
  BY <1>0, Vectors, SMTT(30) DEF B!MovesFor, B!writableBytes, B!prependableBytes, B!readableBytes
<1> QED
  BY <1>0, <1>1, <1>3, <1>4, <1>5, Vectors

LEMMA readFdIs ==
  ASSUME NEW b, B!WellFormed(b), NEW d \in Seq(B!Byte)
  PROVE  /\ B!WellFormed(B!readFd(b, d)) /\ B!Contents(B!readFd(b, d)) = B!Contents(b) \o d
         /\ Len(B!readFd(b, d).data) >= Len(b.data)
         /\ Len(B!readFd(b, d).data) > Len(b.data) =>
                B!kCheapPrepend + B!readableBytes(B!readFd(b, d)) > Len(b.data)
<1> DEFINE w == B!writableBytes(b)
<1>0. w \in Nat /\ Len(d) \in Nat /\ B!Contents(b) \in Seq(B!Byte)
  BY Vectors, LenProperties, ContentsAre
<1>1. CASE Len(d) <= w
  <2>1. B!readFd(b, d) = B!Written(b, d)
    BY <1>1 DEF B!readFd
  <2>2. /\ B!WellFormed(B!Written(b, d)) /\ B!Contents(B!Written(b, d)) = B!Contents(b) \o d
        /\ Len(B!Written(b, d).data) = Len(b.data)
    BY <1>1, WrittenIs
  <2>3. Len(b.data) \in Nat
    BY Vectors
  <2> QED
    BY <2>1, <2>2, <2>3
<1>2. CASE Len(d) > w
  <2> DEFINE d1 == SubSeq(d, 1, w)
             d2 == SubSeq(d, w + 1, Len(d))
             c  == B!Written(b, d1)
  <2>1. d1 \in Seq(B!Byte) /\ d2 \in Seq(B!Byte) /\ Len(d1) = w /\ d1 \o d2 = d
    <3>1. \A i \in 1 .. Len(d) : d[i] \in B!Byte
      BY ElementOfSeq
    <3>2. 1 \in Int /\ w \in Int /\ \A i \in 1 .. w : d[i] \in B!Byte
      BY <1>0, <1>2, <3>1
    <3>3. w + 1 \in Int /\ Len(d) \in Int /\ \A i \in w + 1 .. Len(d) : d[i] \in B!Byte
      BY <1>0, <3>1
    <3>4. d1 \in Seq(B!Byte) /\ Len(d1) = IF 1 <= w THEN w - 1 + 1 ELSE 0
      BY <3>2, SubSeqProperties
    <3>5. d2 \in Seq(B!Byte)
      BY <3>3, SubSeqProperties
    <3>6. Len(d1) = w
      BY <1>0, <3>4
    <3>7. 1 \in 1 .. Len(d) + 1 /\ w \in 1 - 1 .. Len(d) /\ Len(d) \in w .. Len(d)
      BY <1>0, <1>2
    <3>8. d1 \o d2 = SubSeq(d, 1, Len(d))
      BY <3>7, ConcatAdjacentSubSeq
    <3>9. d1 \o d2 = d
      BY <3>8, SubSeqFull
    <3> QED
      BY <3>4, <3>5, <3>6, <3>9
  <2>2. B!WellFormed(c) /\ B!Contents(c) = B!Contents(b) \o d1 /\ Len(c.data) = Len(b.data)
    <3>1. Len(d1) <= B!writableBytes(b)
      BY <1>0, <2>1
    <3> HIDE DEF d1
    <3> QED
      BY <2>1, <3>1, WrittenIs
  <2>3. B!readFd(b, d) = B!append(c, d2)
    BY <1>0, <1>2 DEF B!readFd
  <2>4. (B!Contents(b) \o d1) \o d2 = B!Contents(b) \o d
    <3> HIDE DEF d1, d2
    <3>1. \A t, u \in Seq(B!Byte) : (B!Contents(b) \o t) \o u = B!Contents(b) \o (t \o u)
      <4>1. \A z, t, u \in Seq(B!Byte) : (z \o t) \o u = z \o (t \o u)
        BY ConcatAssociative
      <4> QED
        BY <1>0, <4>1
    <3> QED
      BY <2>1, <3>1
  <2> QED
    BY <2>1, <2>2, <2>3, <2>4, appendIs
<1> QED
  BY <1>0, <1>1, <1>2

LEMMA retrieveIs ==
  ASSUME NEW b, B!WellFormed(b), B!kCheapPrepend <= Len(b.data),
         NEW len \in 0 .. B!readableBytes(b)
  PROVE  /\ B!WellFormed(B!retrieve(b, len)) /\ B!retrieve(b, len).data = b.data
         /\ B!Contents(B!retrieve(b, len)) = SubSeq(B!Contents(b), len + 1, B!readableBytes(b))
<1> DEFINE c == B!retrieve(b, len)
           n == B!readableBytes(b)
           s == SubSeq(B!Contents(b), len + 1, n)
<1>1. /\ b \in B!Buffers /\ n \in Nat /\ len \in Nat /\ len <= n
      /\ b.readerIndex \in Nat /\ b.writerIndex = b.readerIndex + n
      /\ b.writerIndex \in Nat /\ b.writerIndex <= Len(b.data) /\ Len(b.data) \in Nat
      /\ b.data \in Seq(B!Byte) /\ B!kCheapPrepend \in Nat
  BY Vectors, BufferAssumption DEF B!readableBytes, B!WellFormed
<1>2. CASE len < n
  <2>1. c = [b EXCEPT !.readerIndex = @ + len]
    BY <1>2 DEF B!retrieve
  <2>2. /\ B!WellFormed(c) /\ c.data = b.data
        /\ c.readerIndex = b.readerIndex + len /\ c.writerIndex = b.writerIndex
    <3> HIDE DEF n, c
    <3> QED
      BY <1>1, <1>2, <2>1 DEF B!WellFormed, B!Buffers
  <2>3. B!readableBytes(c) = n - len
    BY <1>1, <2>2 DEF B!readableBytes
  <2>4. /\ B!Contents(c) \in Seq(B!Byte) /\ Len(B!Contents(c)) = n - len
        /\ \A i \in 1 .. n - len : B!Contents(c)[i] = b.data[b.readerIndex + len + i]
    BY <2>2, <2>3, ContentsAre
  <2>5. /\ s \in Seq(B!Byte) /\ Len(s) = n - len
        /\ \A i \in 1 .. n - len : s[i] = b.data[b.readerIndex + len + i]
    <3>1. B!Contents(b) \in Seq(B!Byte) /\ Len(B!Contents(b)) = n
      BY ContentsAre
    <3>2. \A i \in 1 .. n : B!Contents(b)[i] = b.data[b.readerIndex + i]
      BY ContentsAre
    <3> HIDE DEF n
    <3>3. \A i \in len + 1 .. n : B!Contents(b)[i] \in B!Byte
      BY <1>1, <3>1, ElementOfSeq
    <3>4. len + 1 \in Int /\ n \in Int
      BY <1>1
    <3>5. /\ s \in Seq(B!Byte) /\ Len(s) = IF len + 1 <= n THEN n - (len + 1) + 1 ELSE 0
          /\ \A i \in 1 .. n - (len + 1) + 1 : s[i] = B!Contents(b)[len + 1 + i - 1]
      BY <3>3, <3>4, SubSeqProperties
    <3>6. \A i \in 1 .. n - len : s[i] = b.data[b.readerIndex + len + i]
      <4> TAKE i \in 1 .. n - len
      <4>1. /\ i \in 1 .. n - (len + 1) + 1 /\ len + 1 + i - 1 = len + i
            /\ len + i \in 1 .. n /\ b.readerIndex + (len + i) = b.readerIndex + len + i
        BY <1>1
      <4> QED
        BY <3>2, <3>5, <4>1
    <3> QED
      BY <1>1, <1>2, <3>5, <3>6, SMTT(30)
  <2>6. B!Contents(c) = s
    <3> HIDE DEF c, s, n
    <3> QED
      BY <2>4, <2>5, SeqEqual
  <2> QED
    BY <2>2, <2>6
<1>3. CASE ~(len < n)
  <2>1. c = [b EXCEPT !.readerIndex = B!kCheapPrepend, !.writerIndex = B!kCheapPrepend]
    BY <1>3 DEF B!retrieve
  <2>2. /\ B!WellFormed(c) /\ c.data = b.data
        /\ c.readerIndex = B!kCheapPrepend /\ c.writerIndex = B!kCheapPrepend
    <3> HIDE DEF n, c
    <3>1. c = [data |-> b.data, readerIndex |-> B!kCheapPrepend, writerIndex |-> B!kCheapPrepend]
      BY <1>1, <2>1 DEF B!Buffers
    <3>2. c \in B!Buffers
      BY <1>1, <3>1 DEF B!Buffers
    <3> QED
      BY <1>1, <3>1, <3>2 DEF B!WellFormed
  <2>3. B!Contents(c) = << >>
    BY <1>1, <2>2, SubSeqEmpty DEF B!Contents
  <2>4. n < len + 1
    BY <1>1, <1>3
  <2>5. s = << >>
    BY <1>1, <2>4, SubSeqEmpty
  <2> QED
    BY <2>2, <2>3, <2>5
<1> QED
  BY <1>2, <1>3

LEMMA prependIs ==
  ASSUME NEW b, B!WellFormed(b), NEW d \in Seq(B!Byte), Len(d) <= B!prependableBytes(b)
  PROVE  /\ B!WellFormed(B!prepend(b, d)) /\ B!Contents(B!prepend(b, d)) = d \o B!Contents(b)
         /\ Len(B!prepend(b, d).data) = Len(b.data)
<1> DEFINE c == B!prepend(b, d)
           n == B!readableBytes(b)
           from == b.readerIndex - Len(d)
<1>1. /\ b \in B!Buffers /\ n \in Nat /\ Len(d) \in Nat /\ from \in Nat
      /\ b.readerIndex = from + Len(d) /\ b.writerIndex = b.readerIndex + n
      /\ b.readerIndex \in Nat /\ b.writerIndex \in Nat
      /\ b.writerIndex <= Len(b.data) /\ Len(b.data) \in Nat /\ b.data \in Seq(B!Byte)
  BY LenProperties, Vectors DEF B!readableBytes, B!prependableBytes, B!WellFormed
<1>2. /\ c.data = B!CopyTo(b.data, from, d)
      /\ c.readerIndex = from /\ c.writerIndex = b.writerIndex
  BY <1>1 DEF B!prepend, B!Buffers
<1>3. /\ c.data \in Seq(B!Byte) /\ Len(c.data) = Len(b.data)
      /\ \A i \in 1 .. Len(b.data) : c.data[i] =
            IF i \in from + 1 .. from + Len(d) THEN d[i - from] ELSE b.data[i]
  <2> HIDE DEF c, from
  <2> QED
    BY <1>1, <1>2, CopyIs
<1>4. B!WellFormed(c)
  <2>1. c \in B!Buffers
    BY <1>1, <1>2, <1>3 DEF B!prepend, B!Buffers
  <2> QED
    BY <2>1, <1>1, <1>2, <1>3 DEF B!WellFormed
<1>5. B!readableBytes(c) = Len(d) + n
  BY <1>1, <1>2 DEF B!readableBytes
<1>6. /\ d \o B!Contents(b) \in Seq(B!Byte)
      /\ Len(d \o B!Contents(b)) = Len(d) + n
      /\ \A i \in 1 .. Len(d) + n : (d \o B!Contents(b))[i] =
            IF i <= Len(d) THEN d[i] ELSE B!Contents(b)[i - Len(d)]
  <2>1. B!Contents(b) \in Seq(B!Byte) /\ Len(B!Contents(b)) = n
    BY ContentsAre
  <2> HIDE DEF n
  <2> QED
    BY <2>1, ConcatProperties
<1>7. ASSUME NEW i \in 1 .. Len(d) + n
      PROVE  B!Contents(c)[i] = (d \o B!Contents(b))[i]
  <2>1. B!Contents(c)[i] = c.data[from + i]
    BY <1>2, <1>4, <1>5, ContentsAre
  <2>2. from + i \in 1 .. Len(b.data)
    <3> HIDE DEF n, from
    <3> QED
      BY <1>1
  <2>3. CASE i <= Len(d)
    <3>1. from + i \in from + 1 .. from + Len(d) /\ (from + i) - from = i
      <4> HIDE DEF n, from
      <4> QED
        BY <2>3, <1>1
    <3> QED
      BY <2>1, <2>2, <2>3, <3>1, <1>3, <1>6
  <2>4. CASE ~(i <= Len(d))
    <3>1. /\ from + i \notin from + 1 .. from + Len(d)
          /\ i - Len(d) \in 1 .. n /\ from + i = b.readerIndex + (i - Len(d))
      <4> HIDE DEF n, from
      <4> QED
        BY <2>4, <1>1
    <3>2. c.data[from + i] = B!Contents(b)[i - Len(d)]
      BY <2>2, <3>1, <1>3, ContentsAre
    <3> QED
      BY <2>1, <2>4, <3>2, <1>6
  <2> QED
    BY <2>3, <2>4
<1>8. B!Contents(c) \in Seq(B!Byte) /\ Len(B!Contents(c)) = Len(d) + n
  BY <1>4, <1>5, ContentsAre
<1>9. B!Contents(c) = d \o B!Contents(b)
  BY <1>6, <1>7, <1>8, SeqEqual
<1> QED
  BY <1>3, <1>4, <1>9

-----------------------------------------------------------------------------
\* The inductive invariant.  The vector never gets too small for the room at its
\* front: an emptied buffer goes back there.
BufferInv == B!WellFormed(buf) /\ B!kCheapPrepend <= Len(buf.data)

LEMMA BufferInvInit == B!Init => BufferInv
<1> SUFFICES ASSUME B!Init PROVE BufferInv
  OBVIOUS
<1>0. PICK initialSize \in Nat :
        buf = [data |-> [i \in 1 .. B!kCheapPrepend + initialSize |-> B!Zero],
               readerIndex |-> B!kCheapPrepend, writerIndex |-> B!kCheapPrepend]
  BY DEF B!Init
<1> DEFINE size == B!kCheapPrepend + initialSize
           v == [i \in 1 .. size |-> B!Zero]
<1>1. size \in Nat /\ B!kCheapPrepend \in Nat /\ initialSize \in Nat /\ B!Zero \in B!Byte
  BY BufferAssumption
<1>2. v \in [1 .. size -> B!Byte]
  BY <1>1
<1>3. v \in Seq(B!Byte) /\ Len(v) = size
  BY <1>1, <1>2, SeqDef
<1>4. buf = [data |-> v, readerIndex |-> B!kCheapPrepend, writerIndex |-> B!kCheapPrepend]
  BY <1>0
<1> HIDE DEF v
<1> QED
  BY <1>1, <1>3, <1>4 DEF BufferInv, B!WellFormed, B!Buffers

LEMMA BufferInvNext == BufferInv /\ [B!Next]_(B!vars) => BufferInv'
<1> SUFFICES ASSUME BufferInv, [B!Next]_(B!vars) PROVE BufferInv'
  OBVIOUS
<1>0. B!WellFormed(buf) /\ Len(buf.data) \in Nat /\ B!kCheapPrepend \in Nat
  BY Vectors, BufferAssumption DEF BufferInv
<1>1. ASSUME NEW d \in B!Data, B!AppendData(d) PROVE BufferInv'
  <2>1. d \in Seq(B!Byte)
    BY BufferAssumption
  <2>2. B!WellFormed(buf') /\ Len(buf'.data) >= Len(buf.data)
    BY <1>0, <1>1, <2>1, appendIs DEF B!AppendData
  <2>3. Len(buf'.data) \in Nat
    BY <2>2, Vectors
  <2> QED
    BY <1>0, <2>2, <2>3 DEF BufferInv, B!WellFormed
<1>2. ASSUME NEW d \in B!Data, B!ReadData(d) PROVE BufferInv'
  <2>1. d \in Seq(B!Byte)
    BY BufferAssumption
  <2>2. B!WellFormed(buf') /\ Len(buf'.data) >= Len(buf.data)
    BY <1>0, <1>2, <2>1, readFdIs DEF B!ReadData
  <2>3. Len(buf'.data) \in Nat
    BY <2>2, Vectors
  <2> QED
    BY <1>0, <2>2, <2>3 DEF BufferInv, B!WellFormed
<1>3. ASSUME NEW d \in B!Data, B!PrependData(d) PROVE BufferInv'
  <2>1. d \in Seq(B!Byte)
    BY BufferAssumption
  <2>2. B!WellFormed(buf') /\ Len(buf'.data) = Len(buf.data)
    BY <1>0, <1>3, <2>1, prependIs DEF B!PrependData
  <2> QED
    BY <2>2 DEF BufferInv, B!WellFormed
<1>4. ASSUME NEW len \in 0 .. B!readableBytes(buf), B!RetrieveBytes(len) PROVE BufferInv'
  <2>1. B!WellFormed(buf') /\ buf'.data = buf.data
    BY <1>4, retrieveIs DEF B!RetrieveBytes, BufferInv
  <2> QED
    BY <2>1 DEF BufferInv, B!WellFormed
<1>5. CASE UNCHANGED B!vars
  BY <1>5 DEF BufferInv, B!vars, B!WellFormed
<1> QED
  BY <1>1, <1>2, <1>3, <1>4, <1>5 DEF B!Next

\* The indices stay in order, whatever is appended, read, retrieved and prepended.
THEOREM BufferTypeCorrect == B!Spec => []B!TypeOK
<1>1. BufferInv => B!TypeOK
  BY DEF BufferInv, B!TypeOK
<1> QED
  BY <1>1, BufferInvInit, BufferInvNext, PTL DEF B!Spec

\* The buffer is a queue of bytes: what is retrieved is what was put in, in order,
\* for data of any length and however often it is moved or the vector grows.
THEOREM BufferIsExact == B!Spec => []B!ContentsExact
<1>1. BufferInv => B!ContentsExact
  <2> SUFFICES ASSUME BufferInv PROVE B!ContentsExact
    OBVIOUS
  <2>1. ASSUME NEW d \in B!Data
        PROVE  /\ B!Contents(B!append(buf, d)) = B!Contents(buf) \o d
               /\ B!Contents(B!readFd(buf, d)) = B!Contents(buf) \o d
               /\ Len(d) <= B!prependableBytes(buf) =>
                     B!Contents(B!prepend(buf, d)) = d \o B!Contents(buf)
    BY appendIs, readFdIs, prependIs, BufferAssumption DEF BufferInv
  <2>2. ASSUME NEW len \in 0 .. B!readableBytes(buf)
        PROVE  B!Contents(B!retrieve(buf, len)) =
                  SubSeq(B!Contents(buf), len + 1, B!readableBytes(buf))
    BY retrieveIs DEF BufferInv
  <2> QED
    BY <2>1, <2>2 DEF B!ContentsExact
<1> QED
  BY <1>1, BufferInvInit, BufferInvNext, PTL DEF B!Spec

\* makeSpace always finds or makes the room, and moves only towards the front.
THEOREM BufferAsserted == B!Spec => []B!AssertionsHold
<1>1. ASSUME NEW b, B!WellFormed(b), NEW len \in Nat
      PROVE  B!MakesRoom(b, len)
  <2>1. B!writableBytes(B!ensureWritableBytes(b, len)) >= len
    BY <1>1, RoomIsMade
  <2>2. B!writableBytes(b) < len /\ B!MovesFor(b, len) => B!kCheapPrepend < b.readerIndex
    BY <1>1, Vectors, BufferAssumption DEF B!MovesFor, B!writableBytes, B!prependableBytes
  <2> QED
    BY <2>1, <2>2 DEF B!MakesRoom
<1>2. BufferInv => B!AssertionsHold
  <2> SUFFICES ASSUME BufferInv, NEW d \in B!Data
               PROVE  /\ B!MakesRoom(buf, Len(d))
                      /\ B!MakesRoom([buf EXCEPT !.writerIndex = Len(buf.data)], Len(d))
    BY DEF B!AssertionsHold
  <2>1. Len(d) \in Nat /\ B!WellFormed(buf)
    BY LenProperties, BufferAssumption DEF BufferInv
  <2>2. B!WellFormed([buf EXCEPT !.writerIndex = Len(buf.data)])
    BY <2>1, Vectors DEF B!WellFormed, B!Buffers
  <2> QED
    BY <1>1, <2>1, <2>2
<1> QED
  BY <1>2, BufferInvInit, BufferInvNext, PTL DEF B!Spec

\* The vector grows only when moving would not make the room.
THEOREM BufferGrowthNeeded == B!Spec => B!GrowsOnlyWhenNeeded
<1>1. BufferInv /\ [B!Next]_(B!vars) =>
        [Len(buf'.data) > Len(buf.data) =>
            B!kCheapPrepend + B!readableBytes(buf') > Len(buf.data)]_(B!vars)
  <2> SUFFICES ASSUME BufferInv, B!Next, Len(buf'.data) > Len(buf.data)
               PROVE  B!kCheapPrepend + B!readableBytes(buf') > Len(buf.data)
    BY DEF B!vars
  <2>0. B!WellFormed(buf) /\ Len(buf.data) \in Nat
    BY Vectors DEF BufferInv
  <2>1. ASSUME NEW d \in B!Data, B!AppendData(d)
        PROVE  B!kCheapPrepend + B!readableBytes(buf') > Len(buf.data)
    BY <2>0, <2>1, appendIs, BufferAssumption DEF B!AppendData
  <2>2. ASSUME NEW d \in B!Data, B!ReadData(d)
        PROVE  B!kCheapPrepend + B!readableBytes(buf') > Len(buf.data)
    BY <2>0, <2>2, readFdIs, BufferAssumption DEF B!ReadData
  <2>3. ASSUME NEW d \in B!Data, B!PrependData(d) PROVE FALSE
    BY <2>0, <2>3, prependIs, BufferAssumption DEF B!PrependData
  <2>4. ASSUME NEW len \in 0 .. B!readableBytes(buf), B!RetrieveBytes(len) PROVE FALSE
    BY <2>0, <2>4, retrieveIs DEF B!RetrieveBytes, BufferInv
  <2> QED
    BY <2>1, <2>2, <2>3, <2>4 DEF B!Next
<1> QED
  BY <1>1, BufferInvInit, BufferInvNext, PTL DEF B!Spec, B!GrowsOnlyWhenNeeded
=============================================================================
