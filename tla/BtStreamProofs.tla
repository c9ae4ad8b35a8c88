-------------------------- MODULE BtStreamProofs --------------------------
(***************************************************************************)
(* Proofs about BtStream, for any buffer size, any set of byte values and  *)
(* any behaviour of the peer: type correctness, and that the bytes handed  *)
(* out are those of a FIFO.                                                *)
(***************************************************************************)
EXTENDS BtStream, TLAPS, SequenceTheorems

\* The reading position stays within what the last read brought; after a read
\* that brought nothing, or failed, it is 0.  Without this a byte could come
\* from the stale part of the buffer.
PositionInside ==
  \/ buffer_position <= buffer_len
  \/ buffer_position = 0

IInv == TypeOK /\ PositionInside

----------------------------------------------------------------------------
(* The buffer as a sequence.                                               *)

\* The least of two numbers is below both.
LEMMA MinOfTwo ==
  ASSUME NEW a \in Nat, NEW b \in Nat
  PROVE  Min({a, b}) \in Nat /\ Min({a, b}) <= a /\ Min({a, b}) <= b
<1>1. \E x \in {a, b} : \A y \in {a, b} : x <= y
  OBVIOUS
<1>2. Min({a, b}) \in {a, b} /\ \A y \in {a, b} : Min({a, b}) <= y
  BY <1>1 DEF Min
<1> QED BY <1>2

\* A part of the buffer is a sequence of bytes with that part's bytes.
LEMMA PartOfBuffer ==
  ASSUME NEW buf \in [1 .. BUFSIZ -> Byte], NEW m \in 1 .. BUFSIZ + 1,
         NEW n \in -1 .. BUFSIZ
  PROVE  /\ SubSeq(buf, m, n) \in Seq(Byte)
         /\ Len(SubSeq(buf, m, n)) = IF m <= n THEN n - m + 1 ELSE 0
         /\ \A i \in 1 .. n - m + 1 : SubSeq(buf, m, n)[i] = buf[m + i - 1]
<1>1. \A i \in m .. n : buf[i] \in Byte
  BY ConstantsAssumption
<1> QED BY <1>1, SubSeqProperties, ConstantsAssumption

\* What has not been handed out is a sequence of bytes.
LEMMA UnreadType == IInv => Unread \in Seq(Byte)
<1> SUFFICES ASSUME IInv PROVE Unread \in Seq(Byte)
  OBVIOUS
<1>1. buffer_position + 1 \in 1 .. BUFSIZ + 1 /\ buffer_len \in -1 .. BUFSIZ
  BY ConstantsAssumption DEF IInv, TypeOK
<1> QED BY <1>1, PartOfBuffer DEF IInv, TypeOK, Unread

\* A drained buffer has nothing left.
LEMMA NothingUnread ==
  ASSUME IInv, Drained PROVE Unread = <<>>
<1>1. buffer_len < buffer_position + 1
  BY DEF IInv, TypeOK, Drained, PositionInside
<1>2. buffer_len \in Int /\ buffer_position + 1 \in Int
  BY ConstantsAssumption DEF IInv, TypeOK
<1> QED BY <1>1, <1>2, SubSeqEmpty DEF Unread

----------------------------------------------------------------------------
(* The inductive invariant.                                                *)

\* The initial state satisfies it.
LEMMA InitInv == Init => IInv
  BY ConstantsAssumption DEF Init, IInv, TypeOK, PositionInside

\* What Store does to the buffer keeps it a buffer.
LEMMA StoreTypes ==
  ASSUME IInv, NEW count \in -1 .. BUFSIZ, count <= Len(rx), Store(count)
  PROVE  /\ buffer' \in [1 .. BUFSIZ -> Byte]
         /\ buffer_len' = count /\ buffer_position' = 0
<1>1. \A i \in 1 .. BUFSIZ : (IF i <= count THEN rx[i] ELSE buffer[i]) \in Byte
  BY ElementOfSeq, ConstantsAssumption DEF IInv, TypeOK
<1> QED BY <1>1 DEF Store

\* A read of some bytes is at most as long as the buffer and the queue.
LEMMA ReadCount ==
  ASSUME IInv, NEW count \in 1 .. Min({BUFSIZ, Len(rx)})
  PROVE  count \in 1 .. BUFSIZ /\ count \in 1 .. Len(rx) /\ Len(rx) \in Nat
<1>1. BUFSIZ \in Nat /\ Len(rx) \in Nat
  BY LenProperties, ConstantsAssumption DEF IInv, TypeOK
<1> QED BY <1>1, MinOfTwo

\* Every step preserves it.
LEMMA StepInv == IInv /\ [Next]_vars => IInv'
<1> SUFFICES ASSUME IInv, [Next]_vars PROVE IInv'
  OBVIOUS
<1> USE ConstantsAssumption
<1>1. CASE GetByte
  BY <1>1 DEF GetByte, IInv, TypeOK, PositionInside
<1>2. CASE ReturnByte
  <2>1. buffer_position < buffer_len /\ buffer_position + 1 \in 1 .. BUFSIZ
    BY <1>2 DEF ReturnByte, Drained, IInv, TypeOK
  <2> QED BY <1>2, <2>1 DEF ReturnByte, IInv, TypeOK, PositionInside
<1>3. CASE ReadBytes
  <2>1. PICK count \in 1 .. Min({BUFSIZ, Len(rx)}) :
          Store(count) /\ rx' = SubSeq(rx, count + 1, Len(rx))
    BY <1>3 DEF ReadBytes
  <2>2. count \in 1 .. BUFSIZ /\ count \in 1 .. Len(rx) /\ Len(rx) \in Nat
    BY <2>1, ReadCount
  <2>3. /\ buffer' \in [1 .. BUFSIZ -> Byte]
        /\ buffer_len' = count /\ buffer_position' = 0
    BY <2>1, <2>2, StoreTypes
  <2>4. rx' \in Seq(Byte)
    <3>1. \A i \in count + 1 .. Len(rx) : rx[i] \in Byte
      BY <2>2, ElementOfSeq DEF IInv, TypeOK
    <3> QED BY <3>1, <2>1, <2>2, SubSeqProperties
  <2> QED BY <1>3, <2>2, <2>3, <2>4 DEF ReadBytes, IInv, TypeOK, PositionInside
<1>4. CASE ReadNothing
  <2> DEFINE count == IF link = "closed" THEN 0 ELSE -1
  <2>1. count \in -1 .. BUFSIZ /\ count <= Len(rx) /\ Store(count)
    BY <1>4, LenProperties DEF ReadNothing, IInv, TypeOK
  <2> HIDE DEF count
  <2>2. /\ buffer' \in [1 .. BUFSIZ -> Byte]
        /\ buffer_len' = count /\ buffer_position' = 0
    BY <2>1, StoreTypes
  <2> QED BY <1>4, <2>1, <2>2 DEF ReadNothing, IInv, TypeOK, PositionInside
<1>5. CASE Timeout
  BY <1>5 DEF Timeout, IInv, TypeOK, PositionInside
<1>6. CASE Arrive
  <2>1. PICK b \in Byte : rx' = Append(rx, b)
    BY <1>6 DEF Arrive
  <2>2. rx' \in Seq(Byte)
    BY <2>1, AppendProperties DEF IInv, TypeOK
  <2> QED BY <1>6, <2>2 DEF Arrive, IInv, TypeOK, PositionInside
<1>7. CASE Close
  BY <1>7 DEF Close, IInv, TypeOK, PositionInside
<1>8. CASE Break
  BY <1>8, EmptySeq DEF Break, IInv, TypeOK, PositionInside
<1>9. CASE Ended \/ UNCHANGED vars
  BY <1>9 DEF Ended, vars, IInv, TypeOK, PositionInside
<1> QED
  BY <1>1, <1>2, <1>3, <1>4, <1>5, <1>6, <1>7, <1>8, <1>9 DEF Next, Program

\* The variables of the stream keep their types; in particular the reading
\* position never leaves the buffer.
THEOREM TypeCorrect == Spec => []TypeOK
<1>1. Spec => []IInv
  BY InitInv, StepInv, PTL DEF Spec
<1>2. IInv => TypeOK
  BY DEF IInv
<1> QED BY <1>1, <1>2, PTL

----------------------------------------------------------------------------
(* The stream is a FIFO.                                                   *)

\* Taking the head of a concatenation takes it from the first part.
LEMMA GetFromConcat ==
  ASSUME NEW s \in Seq(Byte), NEW t \in Seq(Byte), s # <<>>
  PROVE  s \o t # <<>> /\ Head(s \o t) = s[1] /\ Tail(s \o t) = Tail(s) \o t
<1> DEFINE u == s \o t
           v == Tail(s) \o t
<1>1. Len(s) \in Nat \ {0} /\ Len(t) \in Nat
  BY EmptySeq, LenProperties
<1>2. /\ Tail(s) \in Seq(Byte) /\ Len(Tail(s)) = Len(s) - 1
      /\ \A i \in 1 .. Len(s) - 1 : Tail(s)[i] = s[i + 1]
  BY HeadTailProperties
<1>3. /\ u \in Seq(Byte) /\ Len(u) = Len(s) + Len(t)
      /\ \A i \in 1 .. Len(s) + Len(t) :
           u[i] = IF i <= Len(s) THEN s[i] ELSE t[i - Len(s)]
  BY ConcatProperties
<1>4. /\ v \in Seq(Byte) /\ Len(v) = Len(Tail(s)) + Len(t)
      /\ \A i \in 1 .. Len(Tail(s)) + Len(t) :
           v[i] = IF i <= Len(Tail(s)) THEN Tail(s)[i] ELSE t[i - Len(Tail(s))]
  BY <1>2, ConcatProperties
<1> HIDE DEF u, v
<1>5. u # <<>> /\ 1 \in 1 .. Len(u) /\ Len(u) \in 1 .. Len(u)
  BY <1>1, <1>3, EmptySeq
<1>6. Head(u) = s[1]
  <2>1. Head(SubSeq(u, 1, Len(u))) = u[1] /\ SubSeq(u, 1, Len(u)) = u
    BY <1>3, <1>5, HeadTailOfSubSeq, SubSeqFull
  <2>2. u[1] = s[1]
    BY <1>1, <1>3
  <2> QED BY <2>1, <2>2
<1>7. Tail(u) \in Seq(Byte) /\ Len(Tail(u)) = Len(u) - 1
      /\ \A i \in 1 .. Len(u) - 1 : Tail(u)[i] = u[i + 1]
  BY <1>3, <1>5, HeadTailProperties
<1>8. Len(Tail(u)) = Len(v)
  BY <1>1, <1>2, <1>3, <1>4, <1>7
<1>9. ASSUME NEW i \in 1 .. Len(Tail(u)) PROVE Tail(u)[i] = v[i]
  <2>1. i \in 1 .. Len(s) + Len(t) - 1 /\ Tail(u)[i] = u[i + 1]
    BY <1>3, <1>7
  <2>2. CASE i + 1 <= Len(s)
    <3>1. i \in 1 .. Len(s) - 1 /\ i <= Len(Tail(s)) /\ i + 1 \in 1 .. Len(s) + Len(t)
          /\ i \in 1 .. Len(Tail(s)) + Len(t)
      BY <1>1, <1>2, <2>1, <2>2
    <3>2. u[i + 1] = s[i + 1] /\ v[i] = Tail(s)[i]
      BY <1>3, <1>4, <2>2, <3>1
    <3> QED BY <1>2, <2>1, <3>1, <3>2
  <2>3. CASE ~(i + 1 <= Len(s))
    <3>1. /\ ~(i <= Len(Tail(s))) /\ i + 1 \in 1 .. Len(s) + Len(t)
          /\ i \in 1 .. Len(Tail(s)) + Len(t) /\ (i + 1) - Len(s) = i - Len(Tail(s))
      BY <1>1, <1>2, <2>1, <2>3
    <3>2. u[i + 1] = t[(i + 1) - Len(s)] /\ v[i] = t[i - Len(Tail(s))]
      BY <1>3, <1>4, <2>3, <3>1
    <3> QED BY <2>1, <3>1, <3>2
  <2> QED BY <2>2, <2>3
<1>10. Tail(u) = v
  BY <1>4, <1>7, <1>8, <1>9, SeqEqual
<1> QED BY <1>5, <1>6, <1>10 DEF u, v

\* A returned byte is the head of what the FIFO holds.
LEMMA ReturnIsGet == IInv /\ ReturnByte => F!Get
<1> SUFFICES ASSUME IInv, ReturnByte PROVE F!Get
  OBVIOUS
<1> USE ConstantsAssumption
<1>1. /\ buffer_position + 1 \in 1 .. BUFSIZ /\ buffer_position + 2 \in 1 .. BUFSIZ + 1
      /\ buffer_len \in -1 .. BUFSIZ /\ buffer_position + 1 <= buffer_len
      /\ buffer_position + 1 \in 1 .. BUFSIZ + 1
  BY DEF ReturnByte, Drained, IInv, TypeOK
<1> DEFINE rest == SubSeq(buffer, buffer_position + 2, buffer_len)
<1>2. buffer \in Seq(Byte) /\ Len(buffer) = BUFSIZ
  BY DEF IInv, TypeOK
<1>3. buffer_position + 1 \in 1 .. Len(buffer) /\ buffer_len \in buffer_position + 1 .. Len(buffer)
  BY <1>1, <1>2
<1>4. /\ Head(Unread) = buffer[buffer_position + 1]
      /\ Tail(Unread) = SubSeq(buffer, (buffer_position + 1) + 1, buffer_len)
  BY <1>2, <1>3, HeadTailOfSubSeq DEF Unread
<1>5. (buffer_position + 1) + 1 = buffer_position + 2
  BY DEF IInv, TypeOK
<1>6. Unread' = rest
  BY <1>1, <1>5 DEF ReturnByte, Unread, IInv, TypeOK
<1>7. Unread \in Seq(Byte) /\ Len(Unread) # 0 /\ Unread[1] = buffer[buffer_position + 1]
  <2>1. /\ Len(Unread) = buffer_len - (buffer_position + 1) + 1
        /\ \A i \in 1 .. buffer_len - (buffer_position + 1) + 1 :
             Unread[i] = buffer[(buffer_position + 1) + i - 1]
    BY <1>1, PartOfBuffer DEF Unread, IInv, TypeOK
  <2>2. /\ 1 \in 1 .. buffer_len - (buffer_position + 1) + 1
        /\ (buffer_position + 1) + 1 - 1 = buffer_position + 1
        /\ buffer_len - (buffer_position + 1) + 1 # 0
    BY <1>1
  <2> QED BY <2>1, <2>2, UnreadType
<1>8. rx \in Seq(Byte) /\ rx' = rx
  BY DEF ReturnByte, IInv, TypeOK
<1>9. Unread # <<>>
  BY <1>7, EmptySeq
<1>10. /\ Unread \o rx # <<>>
       /\ Head(Unread \o rx) = Unread[1]
       /\ Tail(Unread \o rx) = Tail(Unread) \o rx
  BY <1>7, <1>8, <1>9, GetFromConcat
<1>11. (Unread \o rx)' = Tail(Unread \o rx)
  BY <1>4, <1>5, <1>6, <1>8, <1>10
<1>12. byte' = buffer[buffer_position + 1]
  BY DEF ReturnByte
<1> QED BY <1>7, <1>10, <1>11, <1>12 DEF F!Get

\* A refill of the buffer moves bytes, and changes nothing of the FIFO.
LEMMA RefillStutters ==
  ASSUME IInv, Drained, NEW count \in -1 .. BUFSIZ, count <= Len(rx),
         Store(count),
         IF count >= 1 THEN rx' = SubSeq(rx, count + 1, Len(rx))
                       ELSE rx = <<>> /\ rx' = <<>>
  PROVE  (Unread \o rx)' = Unread \o rx
<1> USE ConstantsAssumption
<1>1. Unread = <<>> /\ rx \in Seq(Byte) /\ Len(rx) \in Nat
  BY NothingUnread, LenProperties DEF IInv, TypeOK
<1>2. Unread \o rx = rx
  BY <1>1, ConcatEmptySeq
<1>3. /\ buffer' \in [1 .. BUFSIZ -> Byte]
      /\ buffer_len' = count /\ buffer_position' = 0
  BY StoreTypes
<1>4. Unread' = SubSeq(buffer', 1, count)
  BY <1>3 DEF Unread
<1>5. CASE count < 1
  <2>1. Unread' = <<>>
    BY <1>4, <1>5, SubSeqEmpty
  <2> QED BY <1>1, <1>2, <1>5, <2>1, ConcatEmptySeq
<1>6. CASE count >= 1
  <2>1. count \in 1 .. BUFSIZ /\ count \in 1 .. Len(rx) /\ count + 1 \in 1 .. Len(rx) + 1
    BY <1>1, <1>6
  <2>2. \A i \in 1 .. count : buffer'[i] = rx[i]
    BY <2>1 DEF Store
  <2>3. SubSeq(buffer', 1, count) = SubSeq(rx, 1, count)
    <3>1. /\ SubSeq(buffer', 1, count) \in Seq(Byte)
          /\ Len(SubSeq(buffer', 1, count)) = count
          /\ \A i \in 1 .. count : SubSeq(buffer', 1, count)[i] = buffer'[i]
      BY <1>3, <2>1, PartOfBuffer
    <3>2. \A i \in 1 .. count : rx[i] \in Byte
      BY <1>1, <2>1, ElementOfSeq
    <3>3. /\ SubSeq(rx, 1, count) \in Seq(Byte)
          /\ Len(SubSeq(rx, 1, count)) = count
          /\ \A i \in 1 .. count : SubSeq(rx, 1, count)[i] = rx[i]
      BY <2>1, <3>2, SubSeqProperties
    <3> QED BY <2>2, <3>1, <3>3, SeqEqual
  <2>4. SubSeq(rx, 1, count) \o SubSeq(rx, count + 1, Len(rx)) = SubSeq(rx, 1, Len(rx))
    BY <1>1, <2>1, ConcatAdjacentSubSeq
  <2>5. SubSeq(rx, 1, Len(rx)) = rx
    BY <1>1, SubSeqFull
  <2> QED BY <1>2, <1>4, <1>6, <2>3, <2>4, <2>5
<1> QED BY <1>5, <1>6, SMTT(30)

\* Every step of the stream is a step of the FIFO, or none.
LEMMA StepIsFifoStep == IInv /\ [Next]_vars => [F!Next]_(F!vars)
<1> SUFFICES ASSUME IInv, [Next]_vars PROVE [F!Next]_(F!vars)
  OBVIOUS
<1> USE ConstantsAssumption
<1>1. CASE GetByte
  BY <1>1 DEF GetByte, F!vars, Unread
<1>2. CASE ReturnByte
  BY <1>2, ReturnIsGet DEF F!Next
<1>3. CASE ReadBytes
  <2>1. PICK count \in 1 .. Min({BUFSIZ, Len(rx)}) :
          Store(count) /\ rx' = SubSeq(rx, count + 1, Len(rx))
    BY <1>3 DEF ReadBytes
  <2>2. count \in 1 .. BUFSIZ /\ count \in 1 .. Len(rx)
    BY <2>1, ReadCount
  <2>3. count \in -1 .. BUFSIZ /\ count <= Len(rx) /\ count >= 1
    <3>1. Len(rx) \in Nat
      BY LenProperties DEF IInv, TypeOK
    <3> QED BY <2>2, <3>1
  <2>4. Drained
    BY <1>3 DEF ReadBytes
  <2>5. (Unread \o rx)' = Unread \o rx
    BY <2>1, <2>3, <2>4, RefillStutters
  <2> QED BY <1>3, <2>5 DEF ReadBytes, F!vars
<1>4. CASE ReadNothing
  <2> DEFINE count == IF link = "closed" THEN 0 ELSE -1
  <2>1. count \in -1 .. BUFSIZ /\ count <= Len(rx) /\ Store(count) /\ count < 1
    BY <1>4, LenProperties DEF ReadNothing, IInv, TypeOK
  <2> HIDE DEF count
  <2>2. (Unread \o rx)' = Unread \o rx
    BY <1>4, <2>1, RefillStutters DEF ReadNothing
  <2> QED BY <1>4, <2>2 DEF ReadNothing, F!vars
<1>5. CASE Timeout
  BY <1>5 DEF Timeout, F!vars, Unread
<1>6. CASE Arrive
  <2>1. PICK b \in Byte : rx' = Append(rx, b)
    BY <1>6 DEF Arrive
  <2>2. Unread' = Unread /\ byte' = byte
    BY <1>6 DEF Arrive, Unread
  <2>3. Unread \in Seq(Byte) /\ rx \in Seq(Byte) /\ <<b>> \in Seq(Byte)
    BY UnreadType DEF IInv, TypeOK
  <2>4. Unread \o Append(rx, b) = Append(Unread \o rx, b)
    <3>1. Append(rx, b) = rx \o <<b>>
      BY <2>3, AppendIsConcat
    <3>2. Unread \o (rx \o <<b>>) = (Unread \o rx) \o <<b>>
      BY <2>3, ConcatAssociative
    <3>3. Unread \o rx \in Seq(Byte)
      BY <2>3, ConcatProperties
    <3>4. Append(Unread \o rx, b) = (Unread \o rx) \o <<b>>
      BY <3>3, AppendIsConcat
    <3> QED BY <3>1, <3>2, <3>4
  <2> QED BY <2>1, <2>2, <2>4 DEF F!Next, F!Put
<1>7. CASE Close
  BY <1>7 DEF Close, F!vars, Unread
<1>8. CASE Break
  <2>1. Unread' = Unread /\ byte' = byte /\ rx' = <<>>
    BY <1>8 DEF Break, Unread
  <2>2. Unread \in Seq(Byte) /\ rx \in Seq(Byte)
    BY UnreadType DEF IInv, TypeOK
  <2>3. Len(Unread) \in 0 .. Len(Unread \o rx)
    BY <2>2, ConcatProperties, LenProperties
  <2>4. SubSeq(Unread \o rx, 1, Len(Unread)) = Unread
    <3>1. CASE Unread = <<>>
      BY <3>1, SubSeqEmpty, EmptySeq
    <3>2. CASE Unread # <<>>
      <4>1. 1 \in 1 .. Len(Unread) /\ Len(Unread) \in 1 .. Len(Unread)
        BY <2>2, <3>2, EmptySeq
      <4>2. SubSeq(Unread \o rx, 1, Len(Unread)) = SubSeq(Unread, 1, Len(Unread))
        BY <2>2, <4>1, SubSeqOfConcat1
      <4> QED BY <2>2, <4>2, SubSeqFull
    <3> QED BY <3>1, <3>2
  <2>5. (Unread \o rx)' = Unread
    BY <2>1, <2>2, ConcatEmptySeq
  <2> QED BY <2>1, <2>3, <2>4, <2>5 DEF F!Next, F!Lose
<1>9. CASE Ended \/ UNCHANGED vars
  BY <1>9 DEF Ended, vars, F!vars, Unread
<1> QED
  BY <1>1, <1>2, <1>3, <1>4, <1>5, <1>6, <1>7, <1>8, <1>9 DEF Next, Program

\* in_bluetooth_get_byte hands out the bytes that arrived, each once and in
\* order, whatever parts read delivers them in and whatever is left in the
\* buffer from before.
THEOREM StreamIsFifo == Spec => ImplementsFifo
<1>1. Init => F!Init
  <2> SUFFICES ASSUME Init PROVE F!Init
    OBVIOUS
  <2>1. Unread = <<>>
    BY SubSeqEmpty DEF Init, Unread
  <2> QED BY <2>1, ConstantsAssumption, ConcatEmptySeq, EmptySeq DEF Init, F!Init
<1>2. Spec => []IInv
  BY InitInv, StepInv, PTL DEF Spec
<1> QED BY <1>1, <1>2, StepIsFifoStep, PTL DEF Spec, ImplementsFifo, F!Spec

=============================================================================
