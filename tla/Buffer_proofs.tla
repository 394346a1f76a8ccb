---------------------------- MODULE Buffer_proofs ----------------------------
(***************************************************************************)
(* Buffer keeps its indices in order and implements the queue of bytes,    *)
(* for every size of the prepend area, of the vector and of extrabuf.      *)
(*                                                                         *)
(* Each method is a function of the buffer; a lemma says of each of them   *)
(* what it does to a well-formed buffer: the indices stay in order and the *)
(* content is what a queue would hold.  The steps then follow.             *)
(***************************************************************************)
EXTENDS Buffer, SequenceTheorems, TLAPS

\* The part of TypeOK about the buffer itself.
Ok(x) ==
    /\ x \in [buffer_ : Seq(Bytes), readerIndex_ : Nat, writerIndex_ : Nat]
    /\ kCheapPrepend <= x.readerIndex_
    /\ x.readerIndex_ <= x.writerIndex_
    /\ x.writerIndex_ <= Len(x.buffer_)

USE SizesAssumption, ZeroAssumption

\* A function on 1..n with values in S is a sequence of length n.
LEMMA SeqOfFun ==
    ASSUME NEW S, NEW n \in Nat, NEW f \in [1..n -> S]
    PROVE  f \in Seq(S) /\ Len(f) = n /\ DOMAIN f = 1..n
OBVIOUS

\* The arithmetic of the three regions.
LEMMA Regions ==
    ASSUME NEW x, Ok(x)
    PROVE  /\ ReadableBytes(x) \in Nat /\ WritableBytes(x) \in Nat
           /\ PrependableBytes(x) \in Nat
           /\ Len(x.buffer_) =
                  PrependableBytes(x) + ReadableBytes(x) + WritableBytes(x)
BY DEF Ok, ReadableBytes, WritableBytes, PrependableBytes

\* What peek() points at.
LEMMA PeekType ==
    ASSUME NEW x, Ok(x), NEW n \in 0..ReadableBytes(x)
    PROVE  /\ Peek(x, n) \in Seq(Bytes) /\ Len(Peek(x, n)) = n
           /\ \A i \in 1..n : Peek(x, n)[i] = x.buffer_[x.readerIndex_ + i]
<1>1. n \in Nat /\ n <= ReadableBytes(x)
  BY Regions
<1>2. \A i \in 1..n : x.readerIndex_ + i \in 1..Len(x.buffer_)
  BY <1>1 DEF Ok, ReadableBytes
<1>3. Peek(x, n) \in [1..n -> Bytes]
  BY <1>2 DEF Ok, Peek
<1> QED
  BY <1>1, <1>3, SeqOfFun DEF Peek

LEMMA CopyType ==
    ASSUME NEW bytes \in Seq(Bytes), NEW data \in Seq(Bytes), NEW pos \in Nat
    PROVE  /\ Copy(bytes, data, pos) \in Seq(Bytes)
           /\ Len(Copy(bytes, data, pos)) = Len(bytes)
           /\ \A i \in 1..Len(bytes) : Copy(bytes, data, pos)[i] =
                  IF pos < i /\ i <= pos + Len(data) THEN data[i - pos]
                  ELSE bytes[i]
<1>1. \A i \in 1..Len(bytes) :
          pos < i /\ i <= pos + Len(data) => i - pos \in 1..Len(data)
  OBVIOUS
<1>2. Copy(bytes, data, pos) \in [1..Len(bytes) -> Bytes]
  BY <1>1 DEF Copy
<1> QED
  BY <1>2, SeqOfFun DEF Copy

\* Two buffers with the same readable bytes have the same content.
LEMMA SameContent ==
    ASSUME NEW x, NEW y, Ok(x), Ok(y), ReadableBytes(y) = ReadableBytes(x),
           \A i \in 1..ReadableBytes(x) :
               y.buffer_[y.readerIndex_ + i] = x.buffer_[x.readerIndex_ + i]
    PROVE  Content(y) = Content(x)
BY DEF Content, Peek

LEMMA ResizeOk ==
    ASSUME NEW x, Ok(x), NEW n \in Nat, n >= Len(x.buffer_)
    PROVE  /\ Ok(Resize(x, n)) /\ Content(Resize(x, n)) = Content(x)
           /\ Len(Resize(x, n).buffer_) = n
           /\ Resize(x, n).readerIndex_ = x.readerIndex_
           /\ Resize(x, n).writerIndex_ = x.writerIndex_
<1> DEFINE B == [i \in 1..n |->
                    IF i <= Len(x.buffer_) THEN x.buffer_[i] ELSE Zero]
<1>1. B \in [1..n -> Bytes]
  BY DEF Ok
<1>2. B \in Seq(Bytes) /\ Len(B) = n /\
      \A i \in 1..Len(x.buffer_) : B[i] = x.buffer_[i]
  BY <1>1, SeqOfFun DEF Ok
<1>3. Resize(x, n) = [buffer_ |-> B, readerIndex_ |-> x.readerIndex_,
                      writerIndex_ |-> x.writerIndex_]
  BY DEF Resize
<1> HIDE DEF B
<1>4. Ok(Resize(x, n))
  BY <1>2, <1>3 DEF Ok
<1>5. ReadableBytes(Resize(x, n)) = ReadableBytes(x)
  BY <1>3 DEF ReadableBytes
<1>6. \A i \in 1..ReadableBytes(x) :
          x.readerIndex_ + i \in 1..Len(x.buffer_)
  BY DEF Ok, ReadableBytes
<1> QED
  BY <1>2, <1>3, <1>4, <1>5, <1>6, SameContent

LEMMA MoveDownOk ==
    ASSUME NEW x, Ok(x)
    PROVE  /\ Ok(MoveDown(x)) /\ Content(MoveDown(x)) = Content(x)
           /\ Len(MoveDown(x).buffer_) = Len(x.buffer_)
           /\ MoveDown(x).readerIndex_ = kCheapPrepend
<1> DEFINE R == ReadableBytes(x)
           D == Peek(x, R)
           B == Copy(x.buffer_, D, kCheapPrepend)
<1>1. R \in Nat /\ kCheapPrepend + R <= Len(x.buffer_)
  BY DEF Ok, ReadableBytes
<1>2. D \in Seq(Bytes) /\ Len(D) = R /\
      \A i \in 1..R : D[i] = x.buffer_[x.readerIndex_ + i]
  BY <1>1, PeekType
<1>3. /\ B \in Seq(Bytes) /\ Len(B) = Len(x.buffer_)
      /\ \A i \in 1..Len(x.buffer_) : B[i] =
             IF kCheapPrepend < i /\ i <= kCheapPrepend + Len(D)
             THEN D[i - kCheapPrepend] ELSE x.buffer_[i]
  BY <1>2, CopyType DEF Ok
<1>4. MoveDown(x) = [buffer_ |-> B, readerIndex_ |-> kCheapPrepend,
                     writerIndex_ |-> kCheapPrepend + R]
  BY DEF MoveDown, Content
<1> HIDE DEF B, D, R
<1>5. Ok(MoveDown(x))
  BY <1>1, <1>3, <1>4 DEF Ok
<1>6. ReadableBytes(MoveDown(x)) = R
  BY <1>1, <1>4 DEF ReadableBytes
<1>7. \A i \in 1..R : B[kCheapPrepend + i] = x.buffer_[x.readerIndex_ + i]
  BY <1>1, <1>2, <1>3
<1> QED
  BY <1>3, <1>4, <1>5, <1>6, <1>7, SameContent DEF R

-----------------------------------------------------------------------------
\* After ensureWritableBytes(len) there is room for len bytes, the content is
\* the same, and the vector grew only if it had to.
LEMMA EnsureOk ==
    ASSUME NEW x, Ok(x), NEW len \in Nat
    PROVE  LET y == EnsureWritableBytes(x, len) IN
           /\ Ok(y) /\ Content(y) = Content(x)
           /\ ReadableBytes(y) = ReadableBytes(x)
           /\ len <= WritableBytes(y)
           /\ y.readerIndex_ \in {x.readerIndex_, kCheapPrepend}
           /\ Len(y.buffer_) >= Len(x.buffer_)
           /\ Len(y.buffer_) > Len(x.buffer_) =>
                  Len(x.buffer_) < kCheapPrepend + ReadableBytes(x) + len
<1> DEFINE y == EnsureWritableBytes(x, len)
           n == x.writerIndex_ + len
<1>1. CASE len <= WritableBytes(x)
  <2>1. y = x
    BY <1>1, Regions DEF EnsureWritableBytes
  <2> QED
    BY <1>1, <2>1
<1>2. CASE len > WritableBytes(x) /\ TooLittleRoom(x, len)
  <2>1. y = Resize(x, n)
    BY <1>2, Regions DEF EnsureWritableBytes, MakeSpace
  <2>2. n \in Nat /\ n >= Len(x.buffer_)
    BY <1>2 DEF Ok, WritableBytes
  <2>3. /\ Ok(y) /\ Content(y) = Content(x) /\ Len(y.buffer_) = n
        /\ y.readerIndex_ = x.readerIndex_ /\ y.writerIndex_ = x.writerIndex_
    BY <2>1, <2>2, ResizeOk
  <2>4. ReadableBytes(y) = ReadableBytes(x) /\ len <= WritableBytes(y)
    BY <2>3 DEF Ok, ReadableBytes, WritableBytes
  <2>5. Len(x.buffer_) < kCheapPrepend + ReadableBytes(x) + len
    BY <1>2, Regions DEF TooLittleRoom
  <2> QED
    BY <2>2, <2>3, <2>4, <2>5
<1>3. CASE len > WritableBytes(x) /\ ~TooLittleRoom(x, len)
  <2>1. y = MoveDown(x)
    BY <1>3, Regions DEF EnsureWritableBytes, MakeSpace
  <2>2. /\ Ok(y) /\ Content(y) = Content(x)
        /\ Len(y.buffer_) = Len(x.buffer_) /\ y.readerIndex_ = kCheapPrepend
    BY <2>1, MoveDownOk
  <2>3. y.writerIndex_ = kCheapPrepend + ReadableBytes(x)
    BY <2>1 DEF MoveDown
  <2>4. ReadableBytes(y) = ReadableBytes(x)
    BY <2>2, <2>3, Regions DEF ReadableBytes
  <2>5. len <= WritableBytes(y)
    BY <1>3, <2>2, <2>3, Regions DEF TooLittleRoom, WritableBytes
  <2> QED
    BY <2>2, <2>4, <2>5, Regions DEF Ok
<1>4. len <= WritableBytes(x) \/ len > WritableBytes(x)
  BY Regions
<1> HIDE DEF y
<1> QED
  BY <1>1, <1>2, <1>3, <1>4 DEF y

\* Writing into the room there is appends to the content.
LEMMA WrittenOk ==
    ASSUME NEW x, Ok(x), NEW data \in Seq(Bytes),
           Len(data) <= WritableBytes(x)
    PROVE  LET y == Written(x, data) IN
           /\ Ok(y) /\ Content(y) = Content(x) \o data
           /\ ReadableBytes(y) = ReadableBytes(x) + Len(data)
           /\ WritableBytes(y) = WritableBytes(x) - Len(data)
           /\ Len(y.buffer_) = Len(x.buffer_)
           /\ y.readerIndex_ = x.readerIndex_
<1> DEFINE y == Written(x, data)
           R == ReadableBytes(x)
           B == Copy(x.buffer_, data, x.writerIndex_)
<1>1. /\ R \in Nat /\ x.writerIndex_ = x.readerIndex_ + R
      /\ x.writerIndex_ + Len(data) <= Len(x.buffer_)
  BY DEF Ok, ReadableBytes, WritableBytes
<1>2. /\ B \in Seq(Bytes) /\ Len(B) = Len(x.buffer_)
      /\ \A i \in 1..Len(x.buffer_) : B[i] =
             IF x.writerIndex_ < i /\ i <= x.writerIndex_ + Len(data)
             THEN data[i - x.writerIndex_] ELSE x.buffer_[i]
  BY CopyType DEF Ok
<1>3. y = [buffer_ |-> B, readerIndex_ |-> x.readerIndex_,
           writerIndex_ |-> x.writerIndex_ + Len(data)]
  BY DEF Written
<1> HIDE DEF y, B, R
<1>4. Ok(y)
  BY <1>1, <1>2, <1>3 DEF Ok
<1>5. ReadableBytes(y) = R + Len(data)
  BY <1>1, <1>3 DEF ReadableBytes, Ok
<1>6. WritableBytes(y) = WritableBytes(x) - Len(data)
  BY <1>1, <1>2, <1>3 DEF WritableBytes, Ok
<1>7. /\ Content(x) \in Seq(Bytes) /\ Len(Content(x)) = R
      /\ \A i \in 1..R : Content(x)[i] = x.buffer_[x.readerIndex_ + i]
  BY <1>1, PeekType DEF Content, R
<1>8. /\ Content(y) \in Seq(Bytes) /\ Len(Content(y)) = R + Len(data)
      /\ \A i \in 1..(R + Len(data)) :
             Content(y)[i] = B[x.readerIndex_ + i]
  <2>1. R + Len(data) \in 0..ReadableBytes(y)
    BY <1>1, <1>5
  <2> QED
    BY <1>3, <1>4, <1>5, <2>1, PeekType DEF Content
<1>9. x.readerIndex_ \in Nat /\ Len(x.buffer_) \in Nat /\ Len(data) \in Nat
  BY DEF Ok
<1>10. \A i \in 1..R : B[x.readerIndex_ + i] = x.buffer_[x.readerIndex_ + i]
  <2> SUFFICES ASSUME NEW i \in 1..R
               PROVE  B[x.readerIndex_ + i] = x.buffer_[x.readerIndex_ + i]
    OBVIOUS
  <2>1. /\ x.readerIndex_ + i \in 1..Len(x.buffer_)
        /\ ~(x.writerIndex_ < x.readerIndex_ + i)
    BY <1>1, <1>9
  <2> QED
    BY <1>2, <2>1
<1>11. \A i \in 1..Len(data) : B[x.readerIndex_ + R + i] = data[i]
  <2> SUFFICES ASSUME NEW i \in 1..Len(data)
               PROVE  B[x.readerIndex_ + R + i] = data[i]
    OBVIOUS
  <2> DEFINE j == x.readerIndex_ + R + i
  <2>1. /\ j \in 1..Len(x.buffer_) /\ x.writerIndex_ < j
        /\ j <= x.writerIndex_ + Len(data) /\ j - x.writerIndex_ = i
    BY <1>1, <1>9
  <2> HIDE DEF j
  <2>2. B[j] = data[j - x.writerIndex_]
    BY <1>2, <2>1
  <2> QED
    BY <2>1, <2>2 DEF j
<1>12. \A i \in 1..(R + Len(data)) : Content(y)[i] = (Content(x) \o data)[i]
  <2> SUFFICES ASSUME NEW i \in 1..(R + Len(data))
               PROVE  Content(y)[i] = (Content(x) \o data)[i]
    OBVIOUS
  <2>1. CASE i <= R
    BY <1>1, <1>7, <1>8, <1>10, <2>1
  <2>2. CASE i > R
    <3>1. i - R \in 1..Len(data) /\ R + (i - R) = i
      BY <1>1, <2>2
    <3>2. B[x.readerIndex_ + i] = data[i - R]
      <4>1. x.readerIndex_ + R + (i - R) = x.readerIndex_ + i
        BY <1>1, <1>9
      <4>2. B[x.readerIndex_ + R + (i - R)] = data[i - R]
        BY <1>11, <3>1
      <4> QED
        BY <4>1, <4>2
    <3>3. (Content(x) \o data)[i] = data[i - R]
      BY <1>1, <1>7, <2>2
    <3> QED
      BY <1>8, <3>2, <3>3
  <2>3. i <= R \/ i > R
    BY <1>1
  <2> QED
    BY <2>1, <2>2, <2>3
<1>13. Content(y) = Content(x) \o data
  <2>1. /\ Content(x) \o data \in Seq(Bytes)
        /\ Len(Content(x) \o data) = R + Len(data)
    BY <1>1, <1>7
  <2> QED
    BY <1>8, <1>12, <2>1
<1> QED
  BY <1>2, <1>3, <1>4, <1>5, <1>6, <1>13 DEF y, R

\* append
LEMMA AppendedOk ==
    ASSUME NEW x, Ok(x), NEW data \in Seq(Bytes)
    PROVE  LET y == Appended(x, data) IN
           /\ Ok(y) /\ Content(y) = Content(x) \o data
           /\ ReadableBytes(y) = ReadableBytes(x) + Len(data)
           /\ y.readerIndex_ \in {x.readerIndex_, kCheapPrepend}
           /\ Len(y.buffer_) >= Len(x.buffer_)
           /\ Len(y.buffer_) > Len(x.buffer_) =>
                  Len(x.buffer_) < kCheapPrepend + ReadableBytes(y)
<1> DEFINE z == EnsureWritableBytes(x, Len(data))
           y == Written(z, data)
<1>1. /\ Ok(z) /\ Content(z) = Content(x)
      /\ ReadableBytes(z) = ReadableBytes(x)
      /\ Len(data) <= WritableBytes(z)
      /\ z.readerIndex_ \in {x.readerIndex_, kCheapPrepend}
      /\ Len(z.buffer_) >= Len(x.buffer_)
      /\ Len(z.buffer_) > Len(x.buffer_) =>
             Len(x.buffer_) < kCheapPrepend + ReadableBytes(x) + Len(data)
  BY EnsureOk
<1> HIDE DEF z
<1>2. /\ Ok(y) /\ Content(y) = Content(z) \o data
      /\ ReadableBytes(y) = ReadableBytes(z) + Len(data)
      /\ Len(y.buffer_) = Len(z.buffer_) /\ y.readerIndex_ = z.readerIndex_
  BY <1>1, WrittenOk
<1>3. Appended(x, data) = y
  BY DEF Appended, z
<1> HIDE DEF y
<1>4. ReadableBytes(x) \in Nat
  BY Regions
<1> QED
  BY <1>1, <1>2, <1>3, <1>4

\* A sequence cut in two and put together again.
LEMMA Pieces ==
    ASSUME NEW data \in Seq(Bytes), NEW first \in Seq(Bytes),
           NEW rest \in Seq(Bytes), Len(first) + Len(rest) = Len(data),
           \A i \in 1..Len(first) : first[i] = data[i],
           \A i \in 1..Len(rest) : rest[i] = data[Len(first) + i]
    PROVE  first \o rest = data
<1>1. \A i \in 1..Len(data) : (first \o rest)[i] = data[i]
  <2> SUFFICES ASSUME NEW i \in 1..Len(data)
               PROVE  (first \o rest)[i] = data[i]
    OBVIOUS
  <2>1. CASE i <= Len(first)
    BY <2>1
  <2>2. CASE i > Len(first)
    <3>1. /\ i - Len(first) \in 1..Len(rest)
          /\ Len(first) + (i - Len(first)) = i
      BY <2>2
    <3>2. (first \o rest)[i] = rest[i - Len(first)]
      BY <2>2
    <3> QED
      BY <3>1, <3>2
  <2> QED
    BY <2>1, <2>2
<1> DEFINE both == first \o rest
<1>2. both \in Seq(Bytes) /\ Len(both) = Len(data)
  OBVIOUS
<1>3. \A i \in 1..Len(data) : both[i] = data[i]
  BY <1>1
<1> HIDE DEF both
<1>4. both = data
  BY <1>2, <1>3, SeqEqual
<1> QED
  BY <1>4 DEF both

LEMMA Cut ==
    ASSUME NEW data \in Seq(Bytes), NEW w \in 0..Len(data)
    PROVE  /\ SubSeq(data, 1, w) \in Seq(Bytes)
           /\ SubSeq(data, w + 1, Len(data)) \in Seq(Bytes)
           /\ Len(SubSeq(data, 1, w)) = w
           /\ Len(SubSeq(data, w + 1, Len(data))) = Len(data) - w
           /\ SubSeq(data, 1, w) \o SubSeq(data, w + 1, Len(data)) = data
<1> DEFINE first == SubSeq(data, 1, w)
           rest == SubSeq(data, w + 1, Len(data))
<1>1. /\ first \in Seq(Bytes) /\ Len(first) = w
      /\ \A i \in 1..w : first[i] = data[i]
  OBVIOUS
<1>2. /\ rest \in Seq(Bytes) /\ Len(rest) = Len(data) - w
      /\ \A i \in 1..(Len(data) - w) : rest[i] = data[w + i]
  OBVIOUS
<1> HIDE DEF first, rest
<1>3. /\ Len(first) + Len(rest) = Len(data)
      /\ \A i \in 1..Len(first) : first[i] = data[i]
      /\ \A i \in 1..Len(rest) : rest[i] = data[Len(first) + i]
  BY <1>1, <1>2
<1>4. first \o rest = data
  BY <1>1, <1>2, <1>3, Pieces
<1> QED
  BY <1>1, <1>2, <1>4 DEF first, rest

LEMMA Associative ==
    ASSUME NEW s \in Seq(Bytes), NEW t \in Seq(Bytes), NEW u \in Seq(Bytes)
    PROVE  (s \o t) \o u = s \o (t \o u)
BY ConcatAssociative

\* readFd
LEMMA ReadOk ==
    ASSUME NEW x, Ok(x), NEW data \in Seq(Bytes),
           NEW y, y = ReadScattered(x, data)
    PROVE  /\ Ok(y) /\ Content(y) = Content(x) \o data
           /\ ReadableBytes(y) = ReadableBytes(x) + Len(data)
           /\ y.readerIndex_ \in {x.readerIndex_, kCheapPrepend}
           /\ Len(y.buffer_) >= Len(x.buffer_)
           /\ Len(y.buffer_) > Len(x.buffer_) =>
                  Len(x.buffer_) < kCheapPrepend + ReadableBytes(y)
<1> DEFINE w == WritableBytes(x)
<1>1. w \in Nat /\ ReadableBytes(x) \in Nat /\ Content(x) \in Seq(Bytes)
  BY Regions, PeekType DEF Content
<1>2. w = WritableBytes(x)
  OBVIOUS
<1> HIDE DEF w
<1>3. CASE Len(data) <= w
  <2>1. /\ SubSeq(data, 1, Len(data)) = data
        /\ (IF Len(data) < w THEN Len(data) ELSE w) = Len(data)
    BY <1>1, <1>3, SubSeqFull
  <2>2. y = Written(x, data)
    BY <1>1, <1>2, <1>3, <2>1 DEF ReadScattered
  <2>3. /\ Ok(y) /\ Content(y) = Content(x) \o data
        /\ ReadableBytes(y) = ReadableBytes(x) + Len(data)
        /\ Len(y.buffer_) = Len(x.buffer_) /\ y.readerIndex_ = x.readerIndex_
    BY <1>2, <1>3, <2>2, WrittenOk
  <2> QED
    BY <2>3 DEF Ok
<1>4. CASE Len(data) > w
  <2> DEFINE first == SubSeq(data, 1, w)
             rest == SubSeq(data, w + 1, Len(data))
             head == Written(x, first)
  <2>1. y = Appended(head, rest)
    BY <1>1, <1>2, <1>4 DEF ReadScattered
  <2>2. /\ first \in Seq(Bytes) /\ rest \in Seq(Bytes)
        /\ Len(first) = w /\ Len(rest) = Len(data) - w
        /\ first \o rest = data
    <3>1. w \in 0..Len(data)
      BY <1>1, <1>4
    <3> QED
      BY <3>1, Cut
  <2> HIDE DEF first, rest
  <2>3. Len(first) <= WritableBytes(x)
    BY <1>1, <1>2, <2>2
  <2>4. /\ Ok(head) /\ Content(head) = Content(x) \o first
        /\ ReadableBytes(head) = ReadableBytes(x) + w
        /\ Len(head.buffer_) = Len(x.buffer_)
        /\ head.readerIndex_ = x.readerIndex_
    BY <1>2, <2>2, <2>3, WrittenOk
  <2> HIDE DEF head
  <2>5. /\ Ok(y) /\ Content(y) = Content(head) \o rest
        /\ ReadableBytes(y) = ReadableBytes(head) + Len(rest)
        /\ y.readerIndex_ \in {head.readerIndex_, kCheapPrepend}
        /\ Len(y.buffer_) >= Len(head.buffer_)
        /\ Len(y.buffer_) > Len(head.buffer_) =>
               Len(head.buffer_) < kCheapPrepend + ReadableBytes(y)
    BY <2>1, <2>2, <2>4, AppendedOk
  <2>6. (Content(x) \o first) \o rest = Content(x) \o (first \o rest)
    BY <1>1, <2>2, Associative
  <2>7. ReadableBytes(y) = ReadableBytes(x) + Len(data)
    BY <1>1, <2>2, <2>4, <2>5
  <2> QED
    BY <2>2, <2>4, <2>5, <2>6, <2>7
<1> QED
  BY <1>1, <1>3, <1>4

\* retrieve
LEMMA RetrievedOk ==
    ASSUME NEW x, Ok(x), NEW len \in Nat, NEW y, y = Retrieved(x, len), NEW n,
           n = IF len < ReadableBytes(x) THEN len ELSE ReadableBytes(x)
    PROVE  /\ Ok(y) /\ y.buffer_ = x.buffer_
           /\ n \in 0..Len(Content(x))
           /\ Content(y) = SubSeq(Content(x), n + 1, Len(Content(x)))
           /\ y.readerIndex_ = y.writerIndex_ => y.readerIndex_ = kCheapPrepend
<1> DEFINE R == ReadableBytes(x)
           C == Content(x)
<1>1. /\ R \in Nat /\ x.writerIndex_ = x.readerIndex_ + R
      /\ x.readerIndex_ \in Nat /\ x.writerIndex_ \in Nat
  BY DEF Ok, ReadableBytes
<1>2. n \in 0..R
  BY <1>1
<1>3. /\ C \in Seq(Bytes) /\ Len(C) = R
      /\ \A i \in 1..R : C[i] = x.buffer_[x.readerIndex_ + i]
  BY <1>1, PeekType DEF Content
<1>4. /\ y \in [buffer_ : Seq(Bytes), readerIndex_ : Nat, writerIndex_ : Nat]
      /\ y.buffer_ = x.buffer_
      /\ y.readerIndex_ = IF len < R THEN x.readerIndex_ + len
                                     ELSE kCheapPrepend
      /\ y.writerIndex_ = IF len < R THEN x.writerIndex_ ELSE kCheapPrepend
  BY <1>1 DEF Ok, Retrieved
<1>5. n = IF len < R THEN len ELSE R
  OBVIOUS
<1> HIDE DEF R, C
<1>6. Ok(y)
  BY <1>1, <1>4 DEF Ok
<1>7. ReadableBytes(y) = R - n
  BY <1>1, <1>4, <1>5 DEF ReadableBytes
<1>8. /\ Content(y) \in Seq(Bytes) /\ Len(Content(y)) = R - n
      /\ \A i \in 1..(R - n) :
             Content(y)[i] = x.buffer_[y.readerIndex_ + i]
  <2>1. R - n \in 0..ReadableBytes(y)
    BY <1>1, <1>2, <1>7
  <2> QED
    BY <1>4, <1>6, <1>7, <2>1, PeekType DEF Content
<1>9. \A i \in 1..(R - n) : Content(y)[i] = C[n + i]
  <2> SUFFICES ASSUME NEW i \in 1..(R - n) PROVE Content(y)[i] = C[n + i]
    OBVIOUS
  <2>1. n = len /\ len < R /\ n + i \in 1..R
    BY <1>1, <1>5
  <2>2. y.readerIndex_ + i = x.readerIndex_ + (n + i)
    BY <1>1, <1>4, <2>1
  <2> QED
    BY <1>3, <1>8, <2>1, <2>2
<1>10. Content(y) = SubSeq(C, n + 1, R)
  <2> DEFINE T == SubSeq(C, n + 1, R)
  <2>1. /\ T \in Seq(Bytes) /\ Len(T) = R - n
        /\ \A i \in 1..(R - n) : T[i] = C[n + i]
    BY <1>1, <1>2, <1>3
  <2> HIDE DEF T
  <2>2. Content(y) = T
    BY <1>8, <1>9, <2>1
  <2> QED
    BY <2>2 DEF T
<1>11. y.readerIndex_ = y.writerIndex_ => y.readerIndex_ = kCheapPrepend
  BY <1>1, <1>4
<1> QED
  BY <1>2, <1>3, <1>4, <1>6, <1>10, <1>11 DEF R, C

-----------------------------------------------------------------------------
(* The steps.                                                              *)

\* The inductive invariant: what the run Buffer.cfg checks.
IInv == TypeOK /\ EmptyIsReset

LEMMA InvIsOk == TypeOK <=> Ok(b) /\ moved \in Seq(Bytes)
BY DEF TypeOK, Ok

LEMMA DataIsSeq == \A data \in Data(MaxLen) : data \in Seq(Bytes)
BY SeqOfFun DEF Data

\* At the start the buffer is well-formed and empty.
LEMMA Start == Init => IInv /\ ReadableBytes(b) = 0
<1> SUFFICES ASSUME Init PROVE IInv /\ ReadableBytes(b) = 0
  OBVIOUS
<1> DEFINE B == [i \in 1..(kCheapPrepend + kInitialSize) |-> Zero]
<1>1. B \in Seq(Bytes) /\ Len(B) = kCheapPrepend + kInitialSize
  <2>1. B \in [1..(kCheapPrepend + kInitialSize) -> Bytes]
    OBVIOUS
  <2> HIDE DEF B
  <2> QED
    BY <2>1, SeqOfFun
<1>2. b = [buffer_ |-> B, readerIndex_ |-> kCheapPrepend,
           writerIndex_ |-> kCheapPrepend] /\ moved = <<>>
  BY DEF Init
<1> HIDE DEF B
<1> QED
  BY <1>1, <1>2 DEF IInv, TypeOK, EmptyIsReset, ReadableBytes

\* What an append, of whatever origin, does.
Grows ==
    \E data \in Seq(Bytes) :
        /\ Content(b') = Content(b) \o data
        /\ ReadableBytes(b') = ReadableBytes(b) + Len(data)
        /\ b'.readerIndex_ \in {b.readerIndex_, kCheapPrepend}
        /\ Len(b'.buffer_) >= Len(b.buffer_)
        /\ Len(b'.buffer_) > Len(b.buffer_) =>
               Len(b.buffer_) < kCheapPrepend + ReadableBytes(b')
        /\ moved' = data

\* What a retrieve does: n bytes go.
Shrinks(n) ==
    /\ n \in 0..Len(Content(b))
    /\ Content(b') = SubSeq(Content(b), n + 1, Len(Content(b)))
    /\ b'.buffer_ = b.buffer_

\* An append adds bytes, and is no retrieve.
LEMMA AppendStep ==
    ASSUME TypeOK, AppendData \/ ReadFd
    PROVE  Ok(b') /\ Grows
<1>1. Ok(b)
  BY InvIsOk
<1>2. CASE AppendData
  <2>1. PICK data \in Data(MaxLen) : b' = Appended(b, data) /\ moved' = data
    BY <1>2 DEF AppendData
  <2>2. data \in Seq(Bytes)
    BY DataIsSeq
  <2> QED
    BY <1>1, <2>1, <2>2, AppendedOk DEF Grows
<1>3. CASE ReadFd
  <2>1. PICK data \in Data(MaxLen) :
            b' = ReadScattered(b, data) /\ moved' = data
    BY <1>3 DEF ReadFd
  <2>2. data \in Seq(Bytes)
    BY DataIsSeq
  <2> QED
    BY <1>1, <2>1, <2>2, ReadOk DEF Grows
<1> QED
  BY <1>2, <1>3

\* A retrieve takes a prefix; what retrieveAsString returns is that prefix.
LEMMA RetrieveStep ==
    ASSUME TypeOK, Retrieve
    PROVE  /\ Ok(b') /\ EmptyIsReset' /\ moved' = moved
           /\ \E n \in 0..Len(Content(b)) : Shrinks(n)
<1>1. PICK len \in 0..(ReadableBytes(b) + 1) :
          b' = Retrieved(b, len) /\ moved' = moved
  BY DEF Retrieve
<1>2. Ok(b) /\ ReadableBytes(b) \in Nat
  BY InvIsOk, Regions
<1>3. len \in Nat
  BY <1>2
<1> QED
  BY <1>1, <1>2, <1>3, RetrievedOk DEF Shrinks, EmptyIsReset

\* The content of a prefix.
LEMMA PeekIsPrefix ==
    ASSUME NEW x, Ok(x), NEW n \in 0..ReadableBytes(x)
    PROVE  /\ Peek(x, n) = SubSeq(Content(x), 1, n)
           /\ Peek(x, n) \in Seq(Bytes)
           /\ Len(Content(x)) = ReadableBytes(x)
<1> DEFINE C == Content(x)
           P == Peek(x, n)
           T == SubSeq(C, 1, n)
<1>1. ReadableBytes(x) \in Nat /\ ReadableBytes(x) \in 0..ReadableBytes(x)
  BY Regions
<1>2. /\ C \in Seq(Bytes) /\ Len(C) = ReadableBytes(x)
      /\ \A i \in 1..ReadableBytes(x) : C[i] = x.buffer_[x.readerIndex_ + i]
  BY <1>1, PeekType DEF Content
<1>3. /\ P \in Seq(Bytes) /\ Len(P) = n
      /\ \A i \in 1..n : P[i] = x.buffer_[x.readerIndex_ + i]
  BY PeekType
<1> HIDE DEF C, P
<1>4. T \in Seq(Bytes) /\ Len(T) = n /\ \A i \in 1..n : T[i] = C[i]
  BY <1>1, <1>2
<1> HIDE DEF T
<1>5. \A i \in 1..n : P[i] = T[i]
  BY <1>1, <1>2, <1>3, <1>4
<1>6. P = T
  BY <1>3, <1>4, <1>5, SeqEqual
<1> QED
  BY <1>2, <1>3, <1>6 DEF C, P, T

LEMMA RetrieveAsStringStep ==
    ASSUME TypeOK, RetrieveAsString
    PROVE  /\ Ok(b') /\ EmptyIsReset'
           /\ \E n \in 0..Len(Content(b)) :
                  Shrinks(n) /\ moved' = SubSeq(Content(b), 1, n)
<1>1. PICK n \in 0..ReadableBytes(b) :
          moved' = Peek(b, n) /\ b' = Retrieved(b, n)
  BY DEF RetrieveAsString
<1>2. Ok(b) /\ ReadableBytes(b) \in Nat
  BY InvIsOk, Regions
<1>3. n \in Nat /\ n = IF n < ReadableBytes(b) THEN n ELSE ReadableBytes(b)
  BY <1>2
<1>4. /\ Ok(b') /\ b'.buffer_ = b.buffer_ /\ n \in 0..Len(Content(b))
      /\ Content(b') = SubSeq(Content(b), n + 1, Len(Content(b)))
      /\ b'.readerIndex_ = b'.writerIndex_ => b'.readerIndex_ = kCheapPrepend
  BY <1>1, <1>2, <1>3, RetrievedOk
<1>5. moved' = SubSeq(Content(b), 1, n)
  BY <1>1, <1>2, PeekIsPrefix
<1> QED
  BY <1>4, <1>5 DEF Shrinks, EmptyIsReset

LEMMA WriteFdStep ==
    ASSUME TypeOK, WriteFd
    PROVE  /\ b' = b /\ moved' \in Seq(Bytes)
           /\ \E n \in 0..Len(Content(b)) : moved' = SubSeq(Content(b), 1, n)
<1>1. PICK n \in 0..ReadableBytes(b) : moved' = Peek(b, n) /\ b' = b
  BY DEF WriteFd
<1>2. Ok(b)
  BY InvIsOk
<1> QED
  BY <1>1, <1>2, PeekIsPrefix

LEMMA Inductive == IInv /\ [Next]_vars => IInv'
<1> SUFFICES ASSUME IInv, [Next]_vars PROVE IInv'
  OBVIOUS
<1>1. TypeOK /\ EmptyIsReset /\ moved \in Seq(Bytes)
  BY DEF IInv, TypeOK
<1>2. CASE AppendData \/ ReadFd
  <2>1. Ok(b') /\ Grows
    BY <1>1, <1>2, AppendStep
  <2>2. TypeOK'
    BY <1>1, <2>1 DEF TypeOK, Ok, Grows
  <2>3. EmptyIsReset'
    <3>1. SUFFICES ASSUME b'.readerIndex_ = b'.writerIndex_
                   PROVE  b'.readerIndex_ = kCheapPrepend
      BY DEF EmptyIsReset
    <3>2. PICK data \in Seq(Bytes) :
              /\ ReadableBytes(b') = ReadableBytes(b) + Len(data)
              /\ b'.readerIndex_ \in {b.readerIndex_, kCheapPrepend}
      BY <2>1 DEF Grows
    <3>3. ReadableBytes(b') = 0
      BY <2>1, <3>1 DEF Ok, ReadableBytes
    <3>4. ReadableBytes(b) = 0
      BY <1>1, <3>2, <3>3, InvIsOk, Regions
    <3>5. b.readerIndex_ = kCheapPrepend
      BY <1>1, <3>4 DEF TypeOK, EmptyIsReset, ReadableBytes
    <3> QED
      BY <3>2, <3>5
  <2> QED
    BY <2>2, <2>3 DEF IInv
<1>3. CASE Retrieve
  <2>1. Ok(b') /\ EmptyIsReset' /\ moved' = moved
    BY <1>1, <1>3, RetrieveStep
  <2> QED
    BY <1>1, <2>1 DEF IInv, TypeOK, Ok
<1>4. CASE RetrieveAsString
  <2>1. Ok(b') /\ EmptyIsReset'
    BY <1>1, <1>4, RetrieveAsStringStep
  <2>2. PICK n \in 0..ReadableBytes(b) : moved' = Peek(b, n)
    BY <1>4 DEF RetrieveAsString
  <2>3. moved' \in Seq(Bytes)
    BY <1>1, <2>2, InvIsOk, PeekIsPrefix
  <2> QED
    BY <2>1, <2>3 DEF IInv, TypeOK, Ok
<1>5. CASE WriteFd
  <2>1. b' = b /\ moved' \in Seq(Bytes)
    BY <1>1, <1>5, WriteFdStep
  <2> QED
    BY <1>1, <2>1 DEF IInv, TypeOK, EmptyIsReset
<1>6. CASE UNCHANGED vars
  BY <1>1, <1>6 DEF IInv, TypeOK, EmptyIsReset, vars
<1> QED
  BY <1>2, <1>3, <1>4, <1>5, <1>6 DEF Next

LEMMA Invariance == Spec => []IInv
<1>1. Init => IInv
  BY Start
<1> QED
  BY <1>1, Inductive, PTL DEF Spec

\* The three regions stay in order and the prepend area stays free
\* (Buffer.h:13), for any sizes and any sequence of calls.
THEOREM TypeCorrect == Spec => []TypeOK
<1>1. IInv => TypeOK
  BY DEF IInv
<1> QED
  BY <1>1, Invariance, PTL

\* An empty buffer has its indices back at the start.
THEOREM IndicesDoNotCreep == Spec => []EmptyIsReset
<1>1. IInv => EmptyIsReset
  BY DEF IInv
<1> QED
  BY <1>1, Invariance, PTL

-----------------------------------------------------------------------------
(* The abstract queue, and growth.                                         *)

\* Every step of the buffer is a step of the byte queue, or none.
LEMMA QueueStep == IInv /\ [Next]_vars => [BQ!Next]_<<Content(b), moved>>
<1> SUFFICES ASSUME IInv, [Next]_vars
             PROVE  [BQ!Next]_<<Content(b), moved>>
  OBVIOUS
<1> USE DEF BQ!Next, BQ!Put, BQ!Show, BQ!Drop, BQ!Take
<1>1. TypeOK /\ Ok(b) /\ Content(b) \in Seq(Bytes)
  <2>1. Ok(b) /\ ReadableBytes(b) \in 0..ReadableBytes(b)
    BY InvIsOk, Regions DEF IInv
  <2> QED
    BY <2>1, PeekType DEF IInv, Content
<1>2. CASE AppendData \/ ReadFd
  <2>1. PICK data \in Seq(Bytes) :
            Content(b') = Content(b) \o data /\ moved' = data
    BY <1>1, <1>2, AppendStep DEF Grows
  <2> QED
    BY <2>1
<1>3. CASE Retrieve
  BY <1>1, <1>3, RetrieveStep DEF Shrinks
<1>4. CASE RetrieveAsString
  BY <1>1, <1>4, RetrieveAsStringStep DEF Shrinks
<1>5. CASE WriteFd
  BY <1>1, <1>5, WriteFdStep
<1>6. CASE UNCHANGED vars
  BY <1>6 DEF vars
<1> QED
  BY <1>2, <1>3, <1>4, <1>5, <1>6 DEF Next

\* The buffer implements the queue of bytes: nothing is lost, repeated or
\* reordered by growing, moving down or reading into two regions.
THEOREM ImplementsByteQueue == Spec => ByteQueueSpec
<1>1. Init => BQ!Init
  <2> SUFFICES ASSUME Init PROVE Content(b) = <<>> /\ moved = <<>>
    BY DEF BQ!Init
  <2>1. ReadableBytes(b) = 0
    BY Start
  <2> QED
    BY <2>1 DEF Init, Content, Peek
<1>2. IInv /\ [Next]_vars => [BQ!Next]_<<Content(b), moved>>
  BY QueueStep
<1> QED
  BY <1>1, <1>2, Invariance, PTL DEF Spec, ByteQueueSpec, BQ!Spec

\* The vector grows only when content and prepend area cannot share it.
THEOREM GrowsOnlyForContent == Spec => GrowsOnlyWhenFull
<1>1. IInv /\ [Next]_vars =>
          [/\ Len(b'.buffer_) >= Len(b.buffer_)
           /\ Len(b'.buffer_) > Len(b.buffer_) =>
                  Len(b.buffer_) < kCheapPrepend + ReadableBytes(b')]_vars
  <2> SUFFICES ASSUME IInv, Next
               PROVE  /\ Len(b'.buffer_) >= Len(b.buffer_)
                      /\ Len(b'.buffer_) > Len(b.buffer_) =>
                             Len(b.buffer_) < kCheapPrepend + ReadableBytes(b')
    OBVIOUS
  <2>1. TypeOK /\ Len(b.buffer_) \in Nat
    BY DEF IInv, TypeOK
  <2>2. CASE AppendData \/ ReadFd
    BY <2>1, <2>2, AppendStep DEF Grows
  <2>3. CASE Retrieve \/ RetrieveAsString \/ WriteFd
    <3>1. b'.buffer_ = b.buffer_
      BY <2>1, <2>3, RetrieveStep, RetrieveAsStringStep, WriteFdStep
         DEF Shrinks
    <3> QED
      BY <2>1, <3>1
  <2> QED
    BY <2>2, <2>3 DEF Next
<1> QED
  BY <1>1, Invariance, PTL DEF Spec, GrowsOnlyWhenFull
=============================================================================
