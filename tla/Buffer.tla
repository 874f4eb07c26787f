-------------------------------- MODULE Buffer --------------------------------
(***************************************************************************)
(* Buffer.h and Buffer.cc: a queue of bytes in a vector.  What is readable *)
(* lies between readerIndex_ and writerIndex_; room is made by moving it   *)
(* to the front or by growing the vector, and a few bytes may be put       *)
(* before it.                                                              *)
(*                                                                         *)
(* A buffer is a record: its vector and the two indices.  Each operation   *)
(* of the class is a function from buffers to buffers.                     *)
(***************************************************************************)
EXTENDS Naturals, Sequences

Byte == 0 .. 255
Zero == 0                 \* what resize() fills with
kCheapPrepend == 8
extraSize == 65536        \* sizeof extrabuf
Data == Seq(Byte)         \* what is appended, prepended or read at once

VARIABLE buf
vars == buf

Buffers == [data : Seq(Byte), readerIndex : Nat, writerIndex : Nat]

\* The indices are in order.
WellFormed(b) ==
    b \in Buffers /\ b.readerIndex <= b.writerIndex /\ b.writerIndex <= Len(b.data)

TypeOK == WellFormed(buf)

readableBytes(b)    == b.writerIndex - b.readerIndex
writableBytes(b)    == Len(b.data) - b.writerIndex
prependableBytes(b) == b.readerIndex

Contents(b) == SubSeq(b.data, b.readerIndex + 1, b.writerIndex)

\* The user may choose the size.
Init ==
    \E initialSize \in Nat :
        buf = [data |-> [i \in 1 .. kCheapPrepend + initialSize |-> Zero],
               readerIndex |-> kCheapPrepend, writerIndex |-> kCheapPrepend]

-----------------------------------------------------------------------------
\* Room

\* std::copy(d, d + len, begin() + from)
CopyTo(v, from, d) ==
    [i \in 1 .. Len(v) |-> IF i \in from + 1 .. from + Len(d) THEN d[i - from] ELSE v[i]]

\* makeSpace moves what is readable to the front if that is enough ...
MovesFor(b, len) ==
    writableBytes(b) + prependableBytes(b) >= len + kCheapPrepend

Moved(b) ==
    [data |-> CopyTo(b.data, kCheapPrepend, Contents(b)),
     readerIndex |-> kCheapPrepend,
     writerIndex |-> kCheapPrepend + readableBytes(b)]

\* ... and has the vector grow, to just the size needed, if it is not.
Resized(b, len) ==
    [b EXCEPT !.data = [i \in 1 .. b.writerIndex + len |->
                            IF i <= Len(b.data) THEN b.data[i] ELSE Zero]]

makeSpace(b, len) == IF MovesFor(b, len) THEN Moved(b) ELSE Resized(b, len)

ensureWritableBytes(b, len) ==
    IF writableBytes(b) < len THEN makeSpace(b, len) ELSE b

-----------------------------------------------------------------------------
\* Operations

Written(b, d) ==
    [b EXCEPT !.data = CopyTo(@, b.writerIndex, d),
              !.writerIndex = @ + Len(d)]

append(b, d) == Written(ensureWritableBytes(b, Len(d)), d)

\* readv fills what is writable and then extrabuf, which is appended.
readFd(b, d) ==
    LET w == writableBytes(b)
    IN  IF Len(d) <= w THEN Written(b, d)
        ELSE append(Written(b, SubSeq(d, 1, w)), SubSeq(d, w + 1, Len(d)))

\* readv gets no more than there is room for; a large vector is read into alone.
MayRead(b, d) ==
    Len(d) <= writableBytes(b) + (IF writableBytes(b) < extraSize THEN extraSize ELSE 0)

\* An emptied buffer starts again at the front.
retrieve(b, len) ==
    IF len < readableBytes(b)
    THEN [b EXCEPT !.readerIndex = @ + len]
    ELSE [b EXCEPT !.readerIndex = kCheapPrepend, !.writerIndex = kCheapPrepend]

prepend(b, d) ==
    [b EXCEPT !.readerIndex = @ - Len(d),
              !.data = CopyTo(@, b.readerIndex - Len(d), d)]

-----------------------------------------------------------------------------
\* What a user may do: the preconditions are the assertions on arguments.

AppendData(d) == buf' = append(buf, d)

ReadData(d) == MayRead(buf, d) /\ buf' = readFd(buf, d)

RetrieveBytes(len) == len <= readableBytes(buf) /\ buf' = retrieve(buf, len)

PrependData(d) ==
    Len(d) <= prependableBytes(buf) /\ buf' = prepend(buf, d)

Next ==
    \/ \E d \in Data : AppendData(d) \/ ReadData(d) \/ PrependData(d)
    \/ \E len \in 0 .. readableBytes(buf) : RetrieveBytes(len)

Spec == Init /\ [][Next]_vars

-----------------------------------------------------------------------------
\* Properties

\* Bytes come out as they were put in: every operation does to the contents what
\* it would do to a queue, wherever they lie and whether they are moved or not.
ContentsExact ==
    /\ \A d \in Data :
        /\ Contents(append(buf, d)) = Contents(buf) \o d
        /\ MayRead(buf, d) => Contents(readFd(buf, d)) = Contents(buf) \o d
        /\ Len(d) <= prependableBytes(buf) => Contents(prepend(buf, d)) = d \o Contents(buf)
    /\ \A len \in 0 .. readableBytes(buf) :
        Contents(retrieve(buf, len)) = SubSeq(Contents(buf), len + 1, readableBytes(buf))

\* The assertions inside makeSpace and ensureWritableBytes hold, whatever was
\* prepended, and also when readFd has just filled the vector.
MakesRoom(b, len) ==
    /\ writableBytes(b) < len /\ MovesFor(b, len) => kCheapPrepend < b.readerIndex
    /\ writableBytes(ensureWritableBytes(b, len)) >= len
AssertionsHold ==
    \A d \in Data :
        /\ MakesRoom(buf, Len(d))
        /\ MakesRoom([buf EXCEPT !.writerIndex = Len(buf.data)], Len(d))

\* The vector grows only for what would not fit if it were moved to the front.
GrowsOnlyWhenNeeded ==
    [][Len(buf'.data) > Len(buf.data) =>
        kCheapPrepend + readableBytes(buf') > Len(buf.data)]_vars
=============================================================================
