--------------------------- MODULE RpcClient_proofs ---------------------------
(***************************************************************************)
(* Theorems about RpcClient, whatever messages the peer sends, however     *)
(* many, and however many calls are made.                                  *)
(***************************************************************************)
EXTENDS RpcClient, SequenceTheorems, FiniteSetTheorems, TLAPS

-----------------------------------------------------------------------------
\* Sequences

LEMMA AppendRange ==
  ASSUME NEW S, NEW s \in Seq(S), NEW e \in S
  PROVE  Append(s, e) \in Seq(S) /\ Range(Append(s, e)) = Range(s) \cup {e}
<1>1. <<e>> \in Seq(S) /\ Range(<<e>>) = {e}
  BY DEF Range
<1>2. Append(s, e) = s \o <<e>>
  BY AppendIsConcat
<1>3. Range(s \o <<e>>) = Range(s) \cup Range(<<e>>)
  BY <1>1, RangeConcatenation, ZenonT(30)
<1> QED
  BY <1>1, <1>2, <1>3

LEMMA PieceRange ==
  ASSUME NEW S, NEW s \in Seq(S), NEW m \in Nat \ {0}, NEW n \in Nat, n <= Len(s)
  PROVE  SubSeq(s, m, n) \in Seq(S) /\ Range(SubSeq(s, m, n)) \subseteq Range(s)
<1>1. Len(s) \in Nat /\ DOMAIN s = 1 .. Len(s) /\ \A i \in 1 .. Len(s) : s[i] \in S
  BY LenProperties, ElementOfSeq
<1>2. \A i \in m .. n : s[i] \in S
  BY <1>1
<1>3. /\ SubSeq(s, m, n) \in Seq(S)
      /\ Len(SubSeq(s, m, n)) = IF m <= n THEN n - m + 1 ELSE 0
      /\ \A i \in 1 .. n - m + 1 : SubSeq(s, m, n)[i] = s[m + i - 1]
  BY <1>2, SubSeqProperties
<1> QED
  BY <1>1, <1>3, LenProperties DEF Range

LEMMA HeadTailRange ==
  ASSUME NEW S, NEW s \in Seq(S), s # <<>>
  PROVE  /\ Head(s) \in S /\ Head(s) \in Range(s)
         /\ Tail(s) \in Seq(S) /\ Range(Tail(s)) \subseteq Range(s)
<1>1. Len(s) \in Nat \ {0} /\ DOMAIN s = 1 .. Len(s) /\ Head(s) = s[1]
  BY EmptySeq, LenProperties
<1>2. /\ Head(s) \in S /\ Tail(s) \in Seq(S)
      /\ DOMAIN Tail(s) = 1 .. (Len(s) - 1)
      /\ \A i \in 1 .. (Len(s) - 1) : Tail(s)[i] = s[i+1]
  BY HeadTailProperties, LenProperties
<1> QED
  BY <1>1, <1>2 DEF Range

-----------------------------------------------------------------------------
\* Type correctness

\* In the callback of a response, its call is the one invoked last, and its entry
\* is still there.
Handling ==
    pc \in {"callback", "undefined"} =>
        todo # <<>> /\ Head(todo).id \in callbacks /\ Head(todo).id \in Range(invoked)

TypeInv == TypeOK /\ Handling

LEMMA UnitsAndMessages ==
  /\ NoMessage.items = <<>>
  /\ \A u \in Units : u.msg \in Messages \cup {NoMessage} /\ u.msg.items \in Seq(Items)
  /\ \A msg \in Messages \cup {NoMessage} : Unit("length", msg) \in Units /\ Unit("body", msg) \in Units
  /\ Unit("badLength", NoMessage) \in Units /\ Unit("tooLong", NoMessage) \in Units
<1>1. NoMessage.items = <<>> /\ <<>> \in Seq(Items)
  BY EmptySeq DEF NoMessage
<1>2. \A msg \in Messages : msg.items \in Seq(Items)
  BY MessagesAssumption
<1> QED
  BY <1>1, <1>2 DEF Units, Unit

LEMMA TypeInit == Init => TypeInv
<1> SUFFICES ASSUME Init PROVE TypeInv
  OBVIOUS
<1>1. /\ sent \in Seq(Units) /\ wire \in Seq(Units) /\ buffer \in Seq(Units)
      /\ todo \in Seq(Items) /\ invoked \in Seq(0 .. nextId - 1)
  BY EmptySeq DEF Init
<1>2. Len(sent) <= MaxFrames /\ nextId \in 0 .. MaxCalls /\ callbacks \subseteq 0 .. nextId - 1
  BY MessagesAssumption DEF Init
<1>3. /\ pc \in Places /\ todo = <<>> /\ dangling \in BOOLEAN
      /\ pc \notin {"callback", "undefined"}
  BY DEF Init, Places
<1> QED
  BY <1>1, <1>2, <1>3 DEF TypeInv, TypeOK, Handling

LEMMA TypeStep == TypeInv /\ [Next]_vars => TypeInv'
<1> SUFFICES ASSUME TypeInv, [Next]_vars PROVE TypeInv'
  OBVIOUS
<1> USE MessagesAssumption DEF TypeInv, TypeOK, Handling, Places
<1>1. CASE SendCall
  <2>1. nextId' \in 0 .. MaxCalls /\ callbacks' \subseteq 0 .. nextId' - 1
    BY <1>1 DEF SendCall
  <2>2. invoked' \in Seq(0 .. nextId' - 1)
    <3>1. 0 .. nextId - 1 \subseteq 0 .. nextId' - 1
      BY <1>1 DEF SendCall
    <3> QED
      BY <1>1, <3>1, SeqMonotonic DEF SendCall
  <2> QED
    BY <1>1, <2>1, <2>2 DEF SendCall
<1>2. CASE PeerSends
  <2>1. ASSUME NEW msg \in Messages,
               sent' = Append(sent, Unit("body", msg)),
               wire' = wire \o <<Unit("length", msg), Unit("body", msg)>>
        PROVE  sent' \in Seq(Units) /\ wire' \in Seq(Units)
    BY <2>1, UnitsAndMessages
  <2>2. ASSUME NEW line \in {"badLength", "tooLong"},
               sent' = Append(sent, Unit(line, NoMessage)),
               wire' = Append(wire, Unit(line, NoMessage))
        PROVE  sent' \in Seq(Units) /\ wire' \in Seq(Units)
    BY <2>2, UnitsAndMessages
  <2>3. sent' \in Seq(Units) /\ wire' \in Seq(Units)
    BY <1>2, <2>1, <2>2 DEF PeerSends
  <2>4. \E u : sent' = Append(sent, u)
    BY <1>2 DEF PeerSends
  <2>5. Len(sent') <= MaxFrames
    BY <1>2, <2>4 DEF PeerSends
  <2> QED
    BY <1>2, <2>3, <2>5 DEF PeerSends
<1>3. CASE Arrive
  <2>1. PICK n \in 1 .. Len(wire) :
               /\ buffer' = buffer \o SubSeq(wire, 1, n)
               /\ wire' = SubSeq(wire, n + 1, Len(wire))
    BY <1>3 DEF Arrive
  <2>2. SubSeq(wire, 1, n) \in Seq(Units) /\ wire' \in Seq(Units)
    BY <2>1, PieceRange, LenProperties, SMTT(30)
  <2>3. buffer' \in Seq(Units)
    BY <2>1, <2>2, ConcatProperties
  <2> QED
    BY <1>3, <2>2, <2>3 DEF Arrive
<1>4. CASE NeedMore
  BY <1>4 DEF NeedMore
<1>5. CASE RejectLength
  <2>1. buffer \in Seq(Units) /\ buffer # <<>> /\ buffer' \in {buffer, Tail(buffer)}
    BY <1>5 DEF RejectLength
  <2>2. buffer' \in Seq(Units)
    BY ONLY <2>1, HeadTailRange
  <2> QED
    BY <1>5, <2>2 DEF RejectLength
<1>6. CASE Retrieve
  <2>1. buffer # <<>>
    BY <1>6, EmptySeq DEF Retrieve, Incomplete
  <2>2. Head(buffer) \in Units /\ Len(buffer) \in Nat /\ Len(buffer) >= 2
    BY <1>6, <2>1, HeadTailRange, LenProperties DEF Retrieve, Incomplete
  <2>3. buffer' \in Seq(Units)
    BY <1>6, <2>2, PieceRange DEF Retrieve
  <2>4. todo' \in Seq(Items)
    BY <1>6, <2>2, UnitsAndMessages DEF Retrieve
  <2> QED
    BY <1>6, <2>3, <2>4 DEF Retrieve
<1>7. CASE RejectGarbled
  BY <1>7, EmptySeq DEF RejectGarbled
<1>8. CASE RejectFlawed
  BY <1>8, EmptySeq DEF RejectFlawed
<1>9. CASE SkipUnknown
  <2>1. todo # <<>> /\ pc = "responses"
    BY <1>9 DEF SkipUnknown, At
  <2> QED
    BY <1>9, <2>1, HeadTailRange DEF SkipUnknown
<1>10. CASE Invoke
  <2>1. /\ todo # <<>> /\ pc = "responses" /\ Head(todo).id \in callbacks
        /\ invoked' = Append(invoked, Head(todo).id)
    BY <1>10 DEF Invoke, At
  <2> DEFINE issued == 0 .. nextId - 1
             id == Head(todo).id
  <2>2. invoked \in Seq(issued) /\ id \in issued
    BY <2>1
  <2> HIDE DEF issued, id
  <2>3. Append(invoked, id) \in Seq(issued) /\ id \in Range(Append(invoked, id))
    BY <2>2, AppendRange
  <2> QED
    BY <1>10, <2>1, <2>3 DEF Invoke, issued, id
<1>11. CASE CallbackReturns
  <2>1. /\ pc = "callback" /\ todo # <<>> /\ todo \in Seq(Items)
        /\ UNCHANGED <<sent, wire, buffer, nextId, invoked>> /\ dangling' = FALSE
    BY <1>11 DEF CallbackReturns, EraseFound
  <2>2. CASE /\ callbacks' = callbacks \ {Head(todo).id}
             /\ todo' = Tail(todo) /\ pc' = "responses"
    <3>1. todo' \in Seq(Items)
      BY <2>1, <2>2, HeadTailRange
    <3> QED
      BY <2>1, <2>2, <3>1
  <2>3. CASE pc' = "undefined" /\ UNCHANGED <<callbacks, todo>>
    BY <2>1, <2>3
  <2> QED
    BY <1>11, <2>2, <2>3 DEF CallbackReturns, EraseFound
<1>12. CASE ResponseDone
  BY <1>12 DEF ResponseDone
<1>13. CASE UNCHANGED vars
  BY <1>13 DEF vars
<1> QED
  BY <1>1, <1>2, <1>3, <1>4, <1>5, <1>6, <1>7, <1>8, <1>9, <1>10, <1>11,
     <1>12, <1>13 DEF Next, OnMessage

LEMMA TypeInvAlways == Spec => []TypeInv
<1> QED
  BY TypeInit, TypeStep, PTL DEF Spec

\* The client's variables keep their types; todo is empty outside handleResponse,
\* and only ids that were given out are waited for or called (clinet.h 33-157).
THEOREM TypeCorrect == Spec => []TypeOK
<1>1. TypeInv => TypeOK
  BY DEF TypeInv
<1> QED
  BY <1>1, TypeInvAlways, PTL

-----------------------------------------------------------------------------
(***************************************************************************)
(* No call is lost.  A callback is dropped for a flawed response only, and *)
(* that came from the peer: every response on its way to the client, or    *)
(* being handled, is one the peer has sent.                                *)
(***************************************************************************)

FromPeer(r) == \E n \in DOMAIN sent : r \in Responses(sent[n])

Sourced ==
    /\ \A u \in Range(wire) \cup Range(buffer) : \A r \in Responses(u) : FromPeer(r)
    /\ \A r \in Range(todo) : FromPeer(r)

LEMMA FromPeerForever ==
  ASSUME TypeInv, [Next]_vars, NEW r, FromPeer(r)
  PROVE  FromPeer(r)'
<1>1. \/ sent' = sent
      \/ \E u \in Units : sent' = Append(sent, u)
  BY UnitsAndMessages
  DEF Next, OnMessage, vars, SendCall, PeerSends, Arrive, NeedMore, RejectLength,
      Retrieve, RejectGarbled, RejectFlawed, SkipUnknown, Invoke, CallbackReturns,
      EraseFound, ResponseDone
<1>2. CASE sent' = sent
  BY <1>2 DEF FromPeer
<1>3. ASSUME NEW u \in Units, sent' = Append(sent, u)
      PROVE  FromPeer(r)'
  <2>1. PICK n \in DOMAIN sent : r \in Responses(sent[n])
    BY DEF FromPeer
  <2>2. sent \in Seq(Units) /\ DOMAIN sent = 1 .. Len(sent)
    BY LenProperties DEF TypeInv, TypeOK
  <2>3. n \in DOMAIN sent' /\ sent'[n] = sent[n]
    BY <1>3, <2>1, <2>2
  <2> QED
    BY <2>1, <2>3 DEF FromPeer
<1> QED
  BY <1>1, <1>2, <1>3

LEMMA SourcedInit == Init => Sourced
  BY DEF Init, Sourced, Range

LEMMA SourcedStep == TypeInv /\ Sourced /\ [Next]_vars => Sourced'
<1> SUFFICES ASSUME TypeInv, Sourced, [Next]_vars PROVE Sourced'
  OBVIOUS
<1>0. /\ wire \in Seq(Units) /\ buffer \in Seq(Units) /\ sent \in Seq(Units)
      /\ todo \in Seq(Items)
  BY DEF TypeInv, TypeOK
\* It is enough that everything on its way was, or has just been sent.
<1> DEFINE Old(r) == \/ \E u \in Range(wire) \cup Range(buffer) : r \in Responses(u)
                     \/ r \in Range(todo)
<1>a. \A r : Old(r) => FromPeer(r)'
  BY FromPeerForever DEF Sourced
<1> HIDE DEF Old
<1>1. CASE PeerSends
  <2>1. ASSUME NEW msg \in Messages,
               sent' = Append(sent, Unit("body", msg)),
               wire' = wire \o <<Unit("length", msg), Unit("body", msg)>>
        PROVE  \A u \in Range(wire') : u \in Range(wire) \/ \A r \in Responses(u) : FromPeer(r)'
    <3>1. Unit("body", msg) \in Units /\ Unit("length", msg) \in Units
      BY UnitsAndMessages
    <3> DEFINE two == <<Unit("length", msg), Unit("body", msg)>>
    <3>2. two \in Seq(Units) /\ Range(two) = {Unit("length", msg), Unit("body", msg)}
      BY <3>1 DEF Range
    <3> HIDE DEF two
    <3>3. Range(wire \o two) = Range(wire) \cup Range(two)
      BY <1>0, <3>2, RangeConcatenation
    <3>4. /\ Len(sent) + 1 \in DOMAIN sent'
          /\ sent'[Len(sent) + 1] = Unit("body", msg)
      BY <1>0, <2>1, <3>1
    <3>5. \A r \in Range(msg.items) : FromPeer(r)'
      BY <3>4 DEF FromPeer, Responses, Unit
    <3>6. Range(wire') = Range(wire) \cup Range(two)
      BY <2>1, <3>3 DEF two
    <3>7. \A u \in Range(two) : Responses(u) = Range(msg.items)
      BY <3>2 DEF Responses, Unit
    <3> QED
      BY <3>5, <3>6, <3>7
  <2>2. ASSUME NEW line \in {"badLength", "tooLong"},
               wire' = Append(wire, Unit(line, NoMessage))
        PROVE  \A u \in Range(wire') : u \in Range(wire) \/ \A r \in Responses(u) : FromPeer(r)'
    <3>1. Unit(line, NoMessage) \in Units
      BY UnitsAndMessages
    <3>2. Range(wire') = Range(wire) \cup {Unit(line, NoMessage)}
      BY <1>0, <2>2, <3>1, AppendRange
    <3>3. Responses(Unit(line, NoMessage)) = {}
      BY DEF Responses, Unit, NoMessage, Range
    <3> QED
      BY <3>2, <3>3
  <2>3. \A u \in Range(wire') : u \in Range(wire) \/ \A r \in Responses(u) : FromPeer(r)'
    BY <1>1, <2>1, <2>2 DEF PeerSends
  <2>4. buffer' = buffer /\ todo' = todo
    BY <1>1 DEF PeerSends
  <2> QED
    BY <1>a, <2>3, <2>4 DEF Sourced, Old, Responses
<1>2. CASE Arrive
  <2>1. PICK n \in 1 .. Len(wire) :
               /\ buffer' = buffer \o SubSeq(wire, 1, n)
               /\ wire' = SubSeq(wire, n + 1, Len(wire))
    BY <1>2 DEF Arrive
  <2>2. /\ SubSeq(wire, 1, n) \in Seq(Units)
        /\ Range(SubSeq(wire, 1, n)) \subseteq Range(wire)
        /\ Range(SubSeq(wire, n + 1, Len(wire))) \subseteq Range(wire)
    <3>1. Len(wire) \in Nat /\ n \in Nat \ {0} /\ n + 1 \in Nat \ {0} /\ n <= Len(wire)
      BY <1>0, LenProperties
    <3> QED
      BY <1>0, <3>1, PieceRange
  <2>3. Range(buffer \o SubSeq(wire, 1, n)) = Range(buffer) \cup Range(SubSeq(wire, 1, n))
    BY <1>0, <2>2, RangeConcatenation, ZenonT(30)
  <2>4. todo' = todo
    BY <1>2 DEF Arrive
  <2> QED
    BY <1>a, <2>1, <2>2, <2>3, <2>4 DEF Sourced, Old, Responses
<1>3. CASE RejectLength
  <2>1. buffer # <<>> /\ buffer' \in {buffer, Tail(buffer)} /\ wire' = wire /\ todo' = todo
    BY <1>3 DEF RejectLength
  <2>2. Range(buffer') \subseteq Range(buffer)
    BY <1>0, <2>1, HeadTailRange
  <2> QED
    BY <1>a, <2>1, <2>2 DEF Sourced, Old, Responses
<1>4. CASE Retrieve
  <2>1. /\ buffer # <<>> /\ Len(buffer) \in Nat
        /\ Head(buffer) \in Range(buffer)
    BY <1>0, <1>4, HeadTailRange, LenProperties DEF Retrieve, Incomplete
  <2>2. Range(buffer') \subseteq Range(buffer)
    <3>1. Range(SubSeq(buffer, 3, Len(buffer))) \subseteq Range(buffer)
      BY <1>0, <2>1, PieceRange
    <3> QED
      BY <1>4, <3>1 DEF Retrieve
  <2>3. wire' = wire /\ Range(todo') = Responses(Head(buffer))
    BY <1>4 DEF Retrieve, Responses
  <2> QED
    BY <1>a, <2>1, <2>2, <2>3 DEF Sourced, Old, Responses
<1>5. CASE RejectGarbled \/ RejectFlawed
  <2>1. wire' = wire /\ buffer' = buffer /\ Range(todo') = {}
    BY <1>5 DEF RejectGarbled, RejectFlawed, Range
  <2> QED
    BY <1>a, <2>1 DEF Sourced, Old, Responses
<1>6. CASE SkipUnknown \/ CallbackReturns
  <2>1. todo # <<>> /\ todo' \in {todo, Tail(todo)} /\ wire' = wire /\ buffer' = buffer
    BY <1>6 DEF SkipUnknown, At, CallbackReturns, EraseFound, TypeInv, Handling
  <2>2. Range(todo') \subseteq Range(todo)
    BY <1>0, <2>1, HeadTailRange
  <2> QED
    BY <1>a, <2>1, <2>2 DEF Sourced, Old, Responses
<1>7. CASE SendCall \/ NeedMore \/ Invoke \/ ResponseDone \/ UNCHANGED vars
  <2>1. wire' = wire /\ buffer' = buffer /\ todo' = todo
    BY <1>7 DEF SendCall, NeedMore, Invoke, ResponseDone, vars
  <2> QED
    BY <1>a, <2>1 DEF Sourced, Old, Responses
<1> QED
  BY <1>1, <1>2, <1>3, <1>4, <1>5, <1>6, <1>7 DEF Next, OnMessage

LEMMA NoCallLostStep ==
  TypeInv /\ Sourced /\ NoCallLost /\ [Next]_vars => NoCallLost'
<1> SUFFICES ASSUME TypeInv, Sourced, NoCallLost, [Next]_vars,
                    Defined', NEW id \in 0 .. nextId' - 1
             PROVE  id \in callbacks' \cup Range(invoked') \/ Blamed(id)'
  BY DEF NoCallLost
<1>0. /\ nextId \in Nat /\ todo \in Seq(Items) /\ callbacks \subseteq 0 .. nextId - 1
      /\ invoked \in Seq(0 .. nextId - 1)
  BY MessagesAssumption DEF TypeInv, TypeOK
<1>a. ASSUME NEW r, FromPeer(r), r.kind = "flawed", r.id = id
      PROVE  Blamed(id)'
  BY <1>a, FromPeerForever DEF FromPeer, Blamed
<1>b. Blamed(id) => Blamed(id)'
  <2> SUFFICES ASSUME Blamed(id) PROVE Blamed(id)'
    OBVIOUS
  <2>1. PICK r : FromPeer(r) /\ r.kind = "flawed" /\ r.id = id
    BY DEF Blamed, FromPeer
  <2> QED
    BY <2>1, <1>a
<1>c. id \in 0 .. nextId - 1 => id \in callbacks \cup Range(invoked) \/ Blamed(id)'
  <2>1. Defined
    BY DEF Defined, Next, OnMessage, vars, SendCall, PeerSends, Arrive, NeedMore,
       RejectLength, Retrieve, RejectGarbled, RejectFlawed, SkipUnknown, Invoke, At,
       CallbackReturns, EraseFound, ResponseDone
  <2> QED
    BY <1>b, <2>1 DEF NoCallLost
<1>1. CASE SendCall
  <2>1. callbacks' = callbacks \cup {nextId} /\ nextId' = nextId + 1 /\ invoked' = invoked
    BY <1>1 DEF SendCall
  <2>2. id = nextId \/ id \in 0 .. nextId - 1
    BY <1>0, <2>1
  <2> QED
    BY <1>c, <2>1, <2>2
<1>2. CASE RejectFlawed
  <2>1. PICK r \in Items : At(r) /\ r.kind = "flawed" /\ callbacks' = callbacks \ {r.id}
    BY <1>2 DEF RejectFlawed
  <2>2. FromPeer(r)
    BY <1>0, <2>1, HeadTailRange DEF At, Sourced
  <2>3. nextId' = nextId /\ invoked' = invoked
    BY <1>2 DEF RejectFlawed
  <2> QED
    BY <1>a, <1>c, <2>1, <2>2, <2>3
<1>3. CASE Invoke
  <2> DEFINE issued == 0 .. nextId - 1
  <2>1. PICK r \in Items : r.id \in callbacks /\ invoked' = Append(invoked, r.id)
    BY <1>3 DEF Invoke
  <2>2. invoked \in Seq(issued) /\ r.id \in issued
    BY <1>0, <2>1
  <2> HIDE DEF issued
  <2>3. Range(invoked') = Range(invoked) \cup {r.id}
    BY <2>1, <2>2, AppendRange
  <2>4. nextId' = nextId /\ callbacks' = callbacks
    BY <1>3 DEF Invoke
  <2> QED
    BY <1>c, <2>3, <2>4
<1>4. CASE CallbackReturns
  <2>1. /\ callbacks' = callbacks \ {Head(todo).id}
        /\ nextId' = nextId /\ invoked' = invoked
        /\ Head(todo).id \in Range(invoked)
    BY <1>4 DEF CallbackReturns, EraseFound, Defined, TypeInv, Handling
  <2> QED
    BY <1>c, <2>1
<1>5. CASE \/ PeerSends \/ Arrive \/ NeedMore \/ RejectLength \/ Retrieve
           \/ RejectGarbled \/ SkipUnknown \/ ResponseDone \/ UNCHANGED vars
  <2>1. nextId' = nextId /\ callbacks' = callbacks /\ invoked' = invoked
    BY <1>5 DEF PeerSends, Arrive, NeedMore, RejectLength, Retrieve, RejectGarbled,
                SkipUnknown, ResponseDone, vars
  <2> QED
    BY <1>c, <2>1
<1> QED
  BY <1>1, <1>2, <1>3, <1>4, <1>5 DEF Next, OnMessage

\* Whatever the peer sends, and whatever calls callbacks make, a callback waits until it
\* is called, unless the peer has sent a flawed response with its id or an erasure
\* through an invalidated iterator was undefined (bearTcpClinet.h 38, 63-75, 136-157).
THEOREM NeverLost == Spec => []NoCallLost
<1>1. Init => NoCallLost
  BY DEF Init, NoCallLost
<1> QED
  BY <1>1, SourcedInit, SourcedStep, NoCallLostStep, TypeInvAlways, PTL DEF Spec

-----------------------------------------------------------------------------
(***************************************************************************)
(* RpcClient implements RemoteCall.                                        *)
(***************************************************************************)

\* Calling one callback is an answer to one open call.
LEMMA InvokeIsAnswer ==
  ASSUME NEW id, id \in OpenCalls, OpenCalls' = OpenCalls \ {id},
         NEW S, invoked \in Seq(S), id \in S, invoked' = Append(invoked, id)
  PROVE  RC!Next
<1>1. RC!Cardinality({id}) = 1
  <2>1. RC!Cardinality({id}) = Cardinality({id})
    BY DEF RC!Cardinality, Cardinality
  <2> QED
    BY <2>1, FS_Singleton
<1>2. <<id>> \in RC!SetToSeqs({id})
  <2>1. <<id>> \in [1 .. 1 -> {id}]
    OBVIOUS
  <2>2. \A i, j \in 1 .. 1 : i = j
    OBVIOUS
  <2> QED
    BY <1>1, <2>1, <2>2 DEF RC!SetToSeqs
<1>3. Answers' = Append(Answers, <<id>>)
  <2>1. Len(invoked) \in Nat /\ DOMAIN invoked = 1 .. Len(invoked)
    BY LenProperties
  <2>2. /\ DOMAIN invoked' = 1 .. Len(invoked) + 1
        /\ \A n \in 1 .. Len(invoked) : invoked'[n] = invoked[n]
        /\ invoked'[Len(invoked) + 1] = id
    BY <2>1, AppendProperties, LenProperties
  <2>3. /\ \A n \in 1 .. Len(invoked) : invoked[n] \in S
        /\ Answers = [n \in 1 .. Len(invoked) |-> <<invoked[n]>>]
    BY <2>1, ElementOfSeq DEF Answers
  <2>4. Answers \in Seq(Seq(S)) /\ Len(Answers) = Len(invoked)
    BY <2>1, <2>3
  <2>5. Append(Answers, <<id>>) =
            [n \in 1 .. Len(invoked) + 1 |-> IF n = Len(invoked) + 1 THEN <<id>> ELSE Answers[n]]
    BY <2>1, <2>4
  <2> QED
    BY <2>1, <2>2, <2>3, <2>5 DEF Answers
<1>4. RC!Answer({id})
  BY <1>2, <1>3 DEF RC!Answer
<1> QED
  BY <1>4 DEF RC!Next

\* What the client's users see is RemoteCall: a callback answers a call that was
\* made, and no call is answered twice, whatever the peer repeats and whether or not
\* a call made in a callback invalidates the iterator that is erased; what happens
\* after an undefined erasure is no part of it (bearTcpClinet.h 38-49, 91-157).
THEOREM Implements == Spec => ImplementsRemoteCall
<1>1. Init => RC!Init
  BY DEF Init, RC!Init, OpenCalls, Answers
<1>2. TypeInv /\ [Next]_vars => [RC!Next]_RC!vars
  <2> SUFFICES ASSUME TypeInv, [Next]_vars PROVE [RC!Next]_RC!vars
    OBVIOUS
  <2>0. invoked' = invoked => Answers' = Answers
    BY DEF Answers
  <2> USE MessagesAssumption DEF TypeInv, TypeOK, Handling
  <2>1. CASE SendCall
    <3>1. nextId \notin OpenCalls
      BY DEF OpenCalls
    <3>2. nextId \notin RC!Answered
      <4>1. \A n \in DOMAIN invoked : invoked[n] \in 0 .. nextId - 1
        BY ElementOfSeq, LenProperties
      <4>2. \A n \in DOMAIN Answers : RC!Range(Answers[n]) = {invoked[n]}
        BY DEF Answers, RC!Range
      <4>3. DOMAIN Answers = DOMAIN invoked
        BY DEF Answers
      <4> QED
        BY <4>1, <4>2, <4>3 DEF RC!Answered
    <3>3. OpenCalls' = OpenCalls \cup {nextId} /\ Answers' = Answers
      BY <2>0, <2>1 DEF SendCall, OpenCalls
    <3>4. RC!Make({nextId}) /\ nextId \in Ids
      BY <2>1, <3>1, <3>2, <3>3 DEF SendCall, RC!Make, Ids
    <3> QED
      BY <3>4 DEF RC!Next
  <2>2. CASE Invoke
    <3>1. /\ Head(todo).id \in OpenCalls /\ OpenCalls' = OpenCalls \ {Head(todo).id}
          /\ invoked' = Append(invoked, Head(todo).id)
      BY <2>2 DEF Invoke, At, OpenCalls
    <3>2. Head(todo).id \in 0 .. nextId - 1
      BY <3>1 DEF OpenCalls
    <3> QED
      BY <3>1, <3>2, InvokeIsAnswer
  <2>3. CASE RejectFlawed
    <3>1. PICK r \in Items : At(r) /\ callbacks' = callbacks \ {r.id}
      BY <2>3 DEF RejectFlawed
    <3>2. OpenCalls' = OpenCalls \ (OpenCalls \cap {r.id}) /\ Answers' = Answers
      BY <2>0, <2>3, <3>1 DEF RejectFlawed, At, OpenCalls
    <3>3. RC!GiveUp(OpenCalls \cap {r.id})
      BY <3>2 DEF RC!GiveUp
    <3> QED
      BY <3>3 DEF RC!Next
  <2>4. CASE CallbackReturns
    <3>1. OpenCalls' = OpenCalls /\ Answers' = Answers
      BY <2>0, <2>4 DEF CallbackReturns, EraseFound, OpenCalls
    <3> QED
      BY <3>1 DEF RC!vars
  <2>5. CASE \/ PeerSends \/ Arrive \/ NeedMore \/ RejectLength \/ Retrieve
             \/ RejectGarbled \/ SkipUnknown \/ ResponseDone \/ UNCHANGED vars
    <3>1. OpenCalls' = OpenCalls /\ invoked' = invoked
      BY <2>5 DEF PeerSends, Arrive, NeedMore, RejectLength, Retrieve, RejectGarbled,
                  SkipUnknown, ResponseDone, At, OpenCalls, vars
    <3> QED
      BY <2>0, <3>1 DEF RC!vars
  <2> QED
    BY <2>1, <2>2, <2>3, <2>4, <2>5 DEF Next, OnMessage
<1> QED
  BY <1>1, <1>2, TypeInvAlways, PTL DEF Spec, ImplementsRemoteCall, RC!Spec
=============================================================================
