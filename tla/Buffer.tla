------------------------------- MODULE Buffer -------------------------------
(***************************************************************************)
(* Buffer (include/Buffer.h, src/Buffer.cc): the vector of bytes under     *)
(* every connection, with its three regions                                *)
(*                                                                         *)
(*     prependable | readable | writable                                   *)
(*     0     readerIndex_  writerIndex_  buffer_.size()                    *)
(*                                                                         *)
(* A buffer is a record of the class's three members; position i of the    *)
(* C++ vector is element i + 1 of the sequence.  One loop thread uses it,  *)
(* so each method is one step.                                             *)
(***************************************************************************)
EXTENDS Naturals, Sequences

CONSTANTS Bytes,
          Zero,           \* what resize() fills new elements with
          kCheapPrepend,
          kInitialSize,
          ExtraSize,      \* sizeof extrabuf in readFd
          MaxSize,        \* bound on buffer_.size()
          MaxLen          \* bound on the bytes of one append or read

ASSUME ZeroAssumption == Zero \in Bytes
ASSUME SizesAssumption ==
    /\ kCheapPrepend \in Nat /\ kInitialSize \in Nat /\ ExtraSize \in Nat
    /\ MaxSize \in Nat /\ MaxLen \in Nat

VARIABLES b,     \* the Buffer
          moved  \* the bytes that append or readFd put in last, or that
                 \* retrieveAsString returned or writeFd wrote

vars == <<b, moved>>

Init ==
    /\ b = [buffer_ |-> [i \in 1..(kCheapPrepend + kInitialSize) |-> Zero],
            readerIndex_ |-> kCheapPrepend,
            writerIndex_ |-> kCheapPrepend]
    /\ moved = <<>>

ReadableBytes(x) == x.writerIndex_ - x.readerIndex_
WritableBytes(x) == Len(x.buffer_) - x.writerIndex_
PrependableBytes(x) == x.readerIndex_

\* The n bytes from peek() on.
Peek(x, n) == [i \in 1..n |-> x.buffer_[x.readerIndex_ + i]]

\* The readable bytes.
Content(x) == Peek(x, ReadableBytes(x))

\* std::copy of data to position pos on.
Copy(bytes, data, pos) ==
    [i \in 1..Len(bytes) |->
        IF pos < i /\ i <= pos + Len(data) THEN data[i - pos] ELSE bytes[i]]

-----------------------------------------------------------------------------
(* Writing.                                                                *)

\* buffer_.resize(n), for n >= buffer_.size()
Resize(x, n) ==
    [buffer_ |-> [i \in 1..n |->
                    IF i <= Len(x.buffer_) THEN x.buffer_[i] ELSE Zero],
     readerIndex_ |-> x.readerIndex_,
     writerIndex_ |-> x.writerIndex_]

\* The readable bytes move down to kCheapPrepend.
MoveDown(x) ==
    [buffer_ |-> Copy(x.buffer_, Content(x), kCheapPrepend),
     readerIndex_ |-> kCheapPrepend,
     writerIndex_ |-> kCheapPrepend + ReadableBytes(x)]

\* Slips: the prepend area is counted as free; nothing is ever moved.
TooLittleRoomOverlap(x, len) ==
    WritableBytes(x) + PrependableBytes(x) < len
TooLittleRoomAtEnd(x, len) == WritableBytes(x) < len

\* Would len more bytes not fit even if the readable ones moved down?
TooLittleRoom(x, len) ==
    WritableBytes(x) + PrependableBytes(x) < len + kCheapPrepend

MakeSpace(x, len) ==
    IF TooLittleRoom(x, len) THEN Resize(x, x.writerIndex_ + len)
    ELSE MoveDown(x)

EnsureWritableBytes(x, len) ==
    IF WritableBytes(x) < len THEN MakeSpace(x, len) ELSE x

\* Copy to beginWrite() and advance the index; there is room.
Written(x, data) ==
    [buffer_ |-> Copy(x.buffer_, data, x.writerIndex_),
     readerIndex_ |-> x.readerIndex_,
     writerIndex_ |-> x.writerIndex_ + Len(data)]

Appended(x, data) == Written(EnsureWritableBytes(x, Len(data)), data)

\* Data of up to MaxLen bytes that does not take the vector beyond MaxSize.
Data(n) == UNION {[1..k -> Bytes] : k \in 0..n}
Fits(x) == Len(x.buffer_) <= MaxSize

AppendData ==
    \E data \in Data(MaxLen) :
        /\ b' = Appended(b, data) /\ moved' = data
        /\ Fits(b')

\* A slip: the part in extrabuf goes in, the part before it is forgotten.
ReadKeepsIndex(x, data) ==
    LET n == Len(data)
        w == WritableBytes(x)
        head == Written(x, SubSeq(data, 1, IF n < w THEN n ELSE w))
    IN  IF n <= w THEN head ELSE Appended(x, SubSeq(data, w + 1, n))

\* readv scattered data over the writable region and extrabuf.
ReadScattered(x, data) ==
    LET n == Len(data)
        w == WritableBytes(x)
        head == Written(x, SubSeq(data, 1, IF n < w THEN n ELSE w))
    IN  IF n <= w THEN head ELSE Appended(head, SubSeq(data, w + 1, n))

\* How much readFd offers the kernel: extrabuf is used if the region is smaller.
Offered(x) ==
    WritableBytes(x) + (IF WritableBytes(x) < ExtraSize THEN ExtraSize ELSE 0)

\* readFd; when read fails or finds the end, nothing changes.
ReadFd ==
    \E data \in Data(MaxLen) :
        /\ 0 < Len(data) /\ Len(data) <= Offered(b)
        /\ b' = ReadScattered(b, data) /\ moved' = data
        /\ Fits(b')

-----------------------------------------------------------------------------
(* Reading.                                                                *)

\* A slip: the indices stay at the end when the last byte is retrieved.
RetrievedNoReset(x, len) ==
    [x EXCEPT !.readerIndex_ =
        IF len < ReadableBytes(x) THEN x.readerIndex_ + len ELSE x.writerIndex_]

\* retrieve, with retrieveAll when nothing is left.
Retrieved(x, len) ==
    LET part == len < ReadableBytes(x) IN
    [buffer_ |-> x.buffer_,
     readerIndex_ |-> IF part THEN x.readerIndex_ + len ELSE kCheapPrepend,
     writerIndex_ |-> IF part THEN x.writerIndex_ ELSE kCheapPrepend]

\* Any len: more than there is retrieves what there is.
Retrieve ==
    \E len \in 0..(ReadableBytes(b) + 1) :
        b' = Retrieved(b, len) /\ UNCHANGED moved

\* retrieveAsString, and retrieveAllAsString when len is all; asking for more
\* than is readable is outside its contract.
RetrieveAsString ==
    \E len \in 0..ReadableBytes(b) :
        moved' = Peek(b, len) /\ b' = Retrieved(b, len)

\* writeFd: the kernel takes n of the bytes it is shown; the caller retrieves.
WriteFd ==
    \E n \in 0..ReadableBytes(b) :
        moved' = Peek(b, n) /\ UNCHANGED b

Next == AppendData \/ ReadFd \/ Retrieve \/ RetrieveAsString \/ WriteFd

Spec == Init /\ [][Next]_vars

-----------------------------------------------------------------------------
(* What must hold.                                                         *)

\* Types, and the order of the indices: 0 <= readerIndex_ <= writerIndex_ <=
\* size (Buffer.h:13) and, stronger, the kCheapPrepend bytes in front are
\* never given to data.
TypeOK ==
    /\ b \in [buffer_ : Seq(Bytes), readerIndex_ : Nat, writerIndex_ : Nat]
    /\ kCheapPrepend <= b.readerIndex_
    /\ b.readerIndex_ <= b.writerIndex_
    /\ b.writerIndex_ <= Len(b.buffer_)
    /\ moved \in Seq(Bytes)

\* An empty buffer is back at the start: the indices do not creep towards the
\* end however reads, appends and partial retrieves alternate.
EmptyIsReset ==
    b.readerIndex_ = b.writerIndex_ => b.readerIndex_ = kCheapPrepend

\* The buffer is the abstract queue: growing, moving down, reading into two
\* regions and retrieving lose, repeat and reorder no byte.
BQ == INSTANCE ByteQueue WITH queue <- Content(b)

ByteQueueSpec == BQ!Spec

\* The vector grows only when its content, the new bytes and the prepend area
\* are more than it can hold, and it never shrinks: space freed in front is
\* used again before memory is.
GrowsOnlyWhenFull ==
    [][/\ Len(b'.buffer_) >= Len(b.buffer_)
       /\ Len(b'.buffer_) > Len(b.buffer_) =>
              Len(b.buffer_) < kCheapPrepend + ReadableBytes(b')]_vars
=============================================================================
