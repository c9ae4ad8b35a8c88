--------------------------- MODULE L2CodecProofs ---------------------------
(***************************************************************************)
(* Proofs about L2Codec, for any packets with a content of at most 33      *)
(* bytes, any checksum of two bytes and any damage: the length of what is  *)
(* sent, that the loops come to an end, the start bytes that delimit what  *)
(* is sent, that the receiver reads back what was sent, that it looks for  *)
(* no field behind the end of what a damaged packet leaves, and that a     *)
(* checksum computed as the code does tells such a packet.                 *)
(***************************************************************************)
EXTENDS L2Codec, TLAPS, SequenceTheorems, FiniteSetTheorems, Recursion

(* The exclusive or with 0x20.                                             *)

LEMMA FlipType == \A b \in Byte : Flip(b) \in Byte
BY DEF Byte, Flip

LEMMA FlipTwice == \A b \in Byte : Flip(Flip(b)) = b
BY DEF Byte, Flip

\* What an escape turns a special byte into is not special.
LEMMA FlipOfSpecial == \A b \in Special : b \in Byte /\ Flip(b) \in Byte \ Special
BY DEF Byte, Flip, Special

----------------------------------------------------------------------------
(* What one round of the loops does to the buffer.                         *)

\* An escape moves what is behind it up by one.
LEMMA EscapedBytes ==
  ASSUME NEW b \in Seq(Byte), NEW k \in 1 .. Len(b)
  PROVE  /\ Escaped(b, k) \in Seq(Byte)
         /\ Len(Escaped(b, k)) = Len(b) + 1
         /\ \A i \in 1 .. k - 1 : Escaped(b, k)[i] = b[i]
         /\ Escaped(b, k)[k] = ESC
         /\ Escaped(b, k)[k + 1] = Flip(b[k])
         /\ \A i \in k + 1 .. Len(b) : Escaped(b, k)[i + 1] = b[i]
<1>1. Len(b) \in Nat /\ \A i \in 1 .. Len(b) : b[i] \in Byte
  BY LenProperties, ElementOfSeq
<1> DEFINE front == SubSeq(b, 1, k - 1)
           middle == <<ESC, Flip(b[k])>>
           back == SubSeq(b, k + 1, Len(b))
<1>2. /\ front \in Seq(Byte) /\ Len(front) = k - 1
      /\ \A i \in 1 .. k - 1 : front[i] = b[i]
  <2>1. \A i \in 1 .. k - 1 : b[i] \in Byte
    BY <1>1
  <2>2. /\ front \in Seq(Byte) /\ Len(front) = IF 1 <= k - 1 THEN k - 1 - 1 + 1 ELSE 0
        /\ \A i \in 1 .. k - 1 - 1 + 1 : front[i] = b[1 + i - 1]
    BY <2>1, SubSeqProperties
  <2> QED BY <2>2
<1>3. /\ back \in Seq(Byte) /\ Len(back) = Len(b) - k
      /\ \A i \in 1 .. Len(b) - k : back[i] = b[k + i]
  <2>1. \A i \in k + 1 .. Len(b) : b[i] \in Byte
    BY <1>1
  <2>2. /\ back \in Seq(Byte)
        /\ Len(back) = IF k + 1 <= Len(b) THEN Len(b) - (k + 1) + 1 ELSE 0
        /\ \A i \in 1 .. Len(b) - (k + 1) + 1 : back[i] = b[(k + 1) + i - 1]
    BY <1>1, <2>1, SubSeqProperties
  <2> QED BY <1>1, <2>2
<1>4. middle \in Seq(Byte) /\ Len(middle) = 2 /\ middle[1] = ESC /\ middle[2] = Flip(b[k])
  <2>1. ESC \in Byte
    BY DEF ESC, Byte
  <2>2. Flip(b[k]) \in Byte
    BY <1>1, FlipType
  <2> QED BY <2>1, <2>2
<1> DEFINE head == front \o middle
<1> HIDE DEF front, middle, back
<1>5. /\ head \in Seq(Byte) /\ Len(head) = k + 1
      /\ \A i \in 1 .. k - 1 : head[i] = b[i]
      /\ head[k] = ESC /\ head[k + 1] = Flip(b[k])
  <2>1. /\ head \in Seq(Byte) /\ Len(head) = Len(front) + Len(middle)
        /\ \A i \in 1 .. Len(front) + Len(middle) :
             head[i] = IF i <= Len(front) THEN front[i] ELSE middle[i - Len(front)]
    BY <1>2, <1>4, ConcatProperties
  <2> HIDE DEF head
  <2>2. Len(head) = k + 1
    BY <1>2, <1>4, <2>1
  <2>3. ASSUME NEW i \in 1 .. k - 1 PROVE head[i] = b[i]
    <3>1. i \in 1 .. Len(front) + Len(middle) /\ i <= Len(front)
      BY <1>2, <1>4
    <3> QED BY <1>2, <2>1, <3>1
  <2>4. head[k] = ESC
    <3>1. k \in 1 .. Len(front) + Len(middle) /\ ~(k <= Len(front)) /\ k - Len(front) = 1
      BY <1>1, <1>2, <1>4
    <3> QED BY <1>4, <2>1, <3>1
  <2>5. head[k + 1] = Flip(b[k])
    <3>1. /\ k + 1 \in 1 .. Len(front) + Len(middle) /\ ~(k + 1 <= Len(front))
          /\ (k + 1) - Len(front) = 2
      BY <1>2, <1>4
    <3> QED BY <1>4, <2>1, <3>1
  <2> QED BY <2>1, <2>2, <2>3, <2>4, <2>5
<1> HIDE DEF head
<1> DEFINE all == head \o back
<1>6. /\ all \in Seq(Byte) /\ Len(all) = Len(head) + Len(back)
      /\ \A i \in 1 .. Len(head) + Len(back) :
           all[i] = IF i <= Len(head) THEN head[i] ELSE back[i - Len(head)]
  BY <1>3, <1>5, ConcatProperties
<1>7. Escaped(b, k) = all
  BY DEF Escaped, front, middle, back, head
<1> HIDE DEF all
<1>8. Len(all) = Len(b) + 1
  BY <1>1, <1>3, <1>5, <1>6
<1>9. ASSUME NEW i \in 1 .. k + 1 PROVE all[i] = head[i]
  <2>1. i \in 1 .. Len(head) + Len(back) /\ i <= Len(head)
    BY <1>1, <1>3, <1>5
  <2> QED BY <1>6, <2>1
<1>10. ASSUME NEW i \in k + 1 .. Len(b) PROVE all[i + 1] = b[i]
  <2>1. /\ i + 1 \in 1 .. Len(head) + Len(back) /\ ~(i + 1 <= Len(head))
        /\ i - k \in 1 .. Len(b) - k /\ (i + 1) - Len(head) = i - k /\ k + (i - k) = i
    BY <1>1, <1>3, <1>5
  <2>2. all[i + 1] = back[i - k]
    BY <1>6, <2>1
  <2>3. back[i - k] = b[k + (i - k)]
    BY <1>3, <2>1
  <2> QED BY <2>1, <2>2, <2>3
<1> QED BY <1>5, <1>6, <1>7, <1>8, <1>9, <1>10, SMTT(30)

\* Taking an escape out moves what is behind it down by one.
LEMMA StrippedBytes ==
  ASSUME NEW b \in Seq(Byte), NEW k \in 1 .. Len(b)
  PROVE  /\ Stripped(b, k) \in Seq(Byte)
         /\ Len(Stripped(b, k)) = Len(b) - 1
         /\ \A i \in 1 .. k - 1 : Stripped(b, k)[i] = b[i]
         /\ k < Len(b) => Stripped(b, k)[k] = Flip(b[k + 1])
         /\ \A i \in k + 2 .. Len(b) : Stripped(b, k)[i - 1] = b[i]
<1>1. Len(b) \in Nat /\ \A i \in 1 .. Len(b) : b[i] \in Byte
  BY LenProperties, ElementOfSeq
<1> DEFINE front == SubSeq(b, 1, k - 1)
<1>2. /\ front \in Seq(Byte) /\ Len(front) = k - 1
      /\ \A i \in 1 .. k - 1 : front[i] = b[i]
  <2>1. \A i \in 1 .. k - 1 : b[i] \in Byte
    BY <1>1
  <2>2. /\ front \in Seq(Byte) /\ Len(front) = IF 1 <= k - 1 THEN k - 1 - 1 + 1 ELSE 0
        /\ \A i \in 1 .. k - 1 - 1 + 1 : front[i] = b[1 + i - 1]
    BY <2>1, SubSeqProperties
  <2> QED BY <2>2
<1>3. CASE k = Len(b)
  <2>1. Stripped(b, k) = front
    <3>1. Stripped(b, k) = front \o <<>>
      <4>1. ~(k < Len(b))
        BY <1>1, <1>3
      <4> QED BY <4>1 DEF Stripped
    <3> HIDE DEF front
    <3> QED BY <1>2, <3>1, ConcatEmptySeq
  <2> HIDE DEF front
  <2> QED BY <1>1, <1>2, <1>3, <2>1
<1>4. CASE k < Len(b)
  <2> DEFINE middle == <<Flip(b[k + 1])>>
             back == SubSeq(b, k + 2, Len(b))
  <2>1. middle \in Seq(Byte) /\ Len(middle) = 1 /\ middle[1] = Flip(b[k + 1])
    BY <1>1, <1>4, FlipType
  <2>2. /\ back \in Seq(Byte) /\ Len(back) = Len(b) - k - 1
        /\ \A i \in 1 .. Len(b) - k - 1 : back[i] = b[k + 1 + i]
    <3>1. \A i \in k + 2 .. Len(b) : b[i] \in Byte
      BY <1>1
    <3>2. /\ back \in Seq(Byte)
          /\ Len(back) = IF k + 2 <= Len(b) THEN Len(b) - (k + 2) + 1 ELSE 0
          /\ \A i \in 1 .. Len(b) - (k + 2) + 1 : back[i] = b[(k + 2) + i - 1]
      BY <1>1, <3>1, SubSeqProperties
    <3> QED BY <1>1, <1>4, <3>2
  <2> DEFINE rest == middle \o back
  <2> HIDE DEF front, middle, back
  <2>3. /\ rest \in Seq(Byte) /\ Len(rest) = Len(b) - k
        /\ rest[1] = Flip(b[k + 1])
        /\ \A i \in 2 .. Len(b) - k : rest[i] = b[k + i]
    <3>1. /\ rest \in Seq(Byte) /\ Len(rest) = Len(middle) + Len(back)
          /\ \A i \in 1 .. Len(middle) + Len(back) :
               rest[i] = IF i <= Len(middle) THEN middle[i] ELSE back[i - Len(middle)]
      BY <2>1, <2>2, ConcatProperties
    <3> HIDE DEF rest
    <3>2. ASSUME NEW i \in 2 .. Len(b) - k PROVE rest[i] = b[k + i]
      <4>1. /\ i \in 1 .. Len(middle) + Len(back) /\ ~(i <= Len(middle))
            /\ i - 1 \in 1 .. Len(b) - k - 1 /\ i - Len(middle) = i - 1
            /\ k + 1 + (i - 1) = k + i
        BY <1>1, <2>1, <2>2
      <4>2. rest[i] = back[i - 1]
        BY <3>1, <4>1
      <4>3. back[i - 1] = b[k + 1 + (i - 1)]
        BY <2>2, <4>1
      <4> QED BY <4>1, <4>2, <4>3
    <3> QED BY <1>1, <1>4, <2>1, <2>2, <3>1, <3>2
  <2> HIDE DEF rest
  <2> DEFINE all == front \o rest
  <2>4. /\ all \in Seq(Byte) /\ Len(all) = Len(front) + Len(rest)
        /\ \A i \in 1 .. Len(front) + Len(rest) :
             all[i] = IF i <= Len(front) THEN front[i] ELSE rest[i - Len(front)]
    BY <1>2, <2>3, ConcatProperties
  <2>5. Stripped(b, k) = all
    BY <1>4 DEF Stripped, front, middle, back, rest
  <2> HIDE DEF all
  <2>6. Len(all) = Len(b) - 1 /\ all[k] = Flip(b[k + 1])
    <3>1. /\ k \in 1 .. Len(front) + Len(rest) /\ ~(k <= Len(front))
          /\ k - Len(front) = 1 /\ Len(front) + Len(rest) = Len(b) - 1
      BY <1>1, <1>2, <1>4, <2>3
    <3> QED BY <2>3, <2>4, <3>1
  <2>7. ASSUME NEW i \in 1 .. k - 1 PROVE all[i] = b[i]
    <3>1. i \in 1 .. Len(front) + Len(rest) /\ i <= Len(front)
      BY <1>1, <1>2, <1>4, <2>3
    <3> QED BY <1>2, <2>4, <3>1
  <2>8. ASSUME NEW i \in k + 2 .. Len(b) PROVE all[i - 1] = b[i]
    <3>1. /\ i - 1 \in 1 .. Len(front) + Len(rest) /\ ~(i - 1 <= Len(front))
          /\ i - k \in 2 .. Len(b) - k /\ (i - 1) - Len(front) = i - k /\ k + (i - k) = i
      BY <1>1, <1>2, <2>3
    <3> QED BY <2>3, <2>4, <3>1
  <2> QED BY <2>4, <2>5, <2>6, <2>7, <2>8
<1> QED BY <1>1, <1>3, <1>4

----------------------------------------------------------------------------
(* What is to be sent.                                                     *)

\* The part of a frame in front of the content.
Head28(p) ==
  LET d == Dest(p)
      s == Source(p)
  IN  << START, 255, 3, 96, 101, p.ctrl1, p.ctrl2,
         d[6], d[5], d[4], d[3], d[2], d[1], p.archcd, p.zero,
         s[6], s[5], s[4], s[3], s[2], s[1], 0, p.c,
         0, 0, 0, 0, Count(p) >>

LEMMA HeadType ==
  ASSUME NEW p \in Layouts
  PROVE  /\ Dest(p) \in Address /\ Source(p) \in Address
         /\ Head28(p) \in Seq(Byte) /\ Len(Head28(p)) = 28 /\ Head28(p)[1] = START
<1>1. p.dest \in Address /\ p.src \in Address /\ p.count \in Nat
  BY DEF Layouts
<1>2. /\ [k \in 1 .. 6 |-> 255] \in Address /\ [k \in 1 .. 6 |-> 48 + k] \in Address
  BY DEF Address, Byte
<1>3. Dest(p) \in Address /\ Source(p) \in Address
  BY <1>1, <1>2 DEF Dest, Source
<1>4. Count(p) \in Byte /\ START \in Byte /\ {0, 255, 3, 96, 101} \subseteq Byte
  BY <1>1 DEF Count, START, Byte
<1>5. /\ p.ctrl1 \in Byte /\ p.ctrl2 \in Byte /\ p.archcd \in Byte /\ p.zero \in Byte
      /\ p.c \in Byte
  BY DEF Layouts
<1>6. /\ \A i \in 1 .. 6 : Dest(p)[i] \in Byte
      /\ \A i \in 1 .. 6 : Source(p)[i] \in Byte
  BY <1>3 DEF Address
<1>7. /\ Dest(p)[1] \in Byte /\ Dest(p)[2] \in Byte /\ Dest(p)[3] \in Byte
      /\ Dest(p)[4] \in Byte /\ Dest(p)[5] \in Byte /\ Dest(p)[6] \in Byte
      /\ Source(p)[1] \in Byte /\ Source(p)[2] \in Byte /\ Source(p)[3] \in Byte
      /\ Source(p)[4] \in Byte /\ Source(p)[5] \in Byte /\ Source(p)[6] \in Byte
  BY <1>6
<1> QED BY <1>3, <1>4, <1>5, <1>7 DEF Head28

LEMMA FrameType ==
  ASSUME NEW p \in Packets
  PROVE  /\ Frame(p) \in Seq(Byte)
         /\ Len(Frame(p)) = 28 + Len(p.content) /\ Len(Frame(p)) \in Nat
         /\ 29 <= Len(Frame(p)) /\ Len(Frame(p)) <= 61
         /\ Frame(p)[1] = START
         /\ \A i \in 1 .. 28 : Frame(p)[i] = Head28(p)[i]
         /\ \A i \in 1 .. Len(p.content) : Frame(p)[28 + i] = p.content[i]
<1>1. /\ p \in Layouts /\ p.content \in Seq(Byte)
      /\ Len(p.content) \in Nat /\ 1 <= Len(p.content) /\ Len(p.content) <= 33
  <2>1. p \in Layouts /\ Len(p.content) \in 1 .. MaxContent /\ MaxContent \in 0 .. 33
    BY ConstantsAssumption
  <2>2. p.content \in Seq(Byte)
    BY <2>1 DEF Layouts
  <2> DEFINE n == Len(p.content)
  <2>3. n \in 1 .. MaxContent /\ MaxContent \in 0 .. 33
    BY <2>1
  <2> HIDE DEF n
  <2>4. n \in Nat /\ 1 <= n /\ n <= 33
    BY <2>3
  <2> QED BY <2>1, <2>2, <2>4 DEF n
<1>2. Frame(p) = Head28(p) \o p.content
  BY DEF Frame, Head28
<1>3. /\ Head28(p) \in Seq(Byte) /\ Len(Head28(p)) = 28 /\ Head28(p)[1] = START
  BY <1>1, HeadType
<1>4. /\ Frame(p) \in Seq(Byte) /\ Len(Frame(p)) = 28 + Len(p.content)
      /\ \A i \in 1 .. 28 + Len(p.content) :
           Frame(p)[i] = IF i <= 28 THEN Head28(p)[i] ELSE p.content[i - 28]
  <2> DEFINE h == Head28(p)
             t == p.content
  <2>1. h \in Seq(Byte) /\ t \in Seq(Byte) /\ Len(h) = 28 /\ Frame(p) = h \o t
    BY <1>1, <1>2, <1>3
  <2> HIDE DEF h, t
  <2>2. /\ h \o t \in Seq(Byte) /\ Len(h \o t) = Len(h) + Len(t)
        /\ \A i \in 1 .. Len(h) + Len(t) :
             (h \o t)[i] = IF i <= Len(h) THEN h[i] ELSE t[i - Len(h)]
    BY <2>1, ConcatProperties, ZenonT(30)
  <2> QED BY <2>1, <2>2 DEF h, t
<1>5. ASSUME NEW i \in 1 .. 28 PROVE Frame(p)[i] = Head28(p)[i]
  BY <1>1, <1>4
<1>6. ASSUME NEW i \in 1 .. Len(p.content) PROVE Frame(p)[28 + i] = p.content[i]
  <2>1. 28 + i \in 1 .. 28 + Len(p.content) /\ ~(28 + i <= 28) /\ (28 + i) - 28 = i
    BY <1>1
  <2> QED BY <1>4, <2>1
<1>7. Len(Frame(p)) \in Nat /\ 29 <= Len(Frame(p)) /\ Len(Frame(p)) <= 61
  BY <1>1, <1>4
<1>8. Frame(p)[1] = START
  BY <1>3, <1>5
<1> QED BY <1>4, <1>5, <1>6, <1>7, <1>8

LEMMA ChecksumType ==
  ASSUME NEW p \in Packets
  PROVE  Fcs(Tail(Frame(p))) \in Seq(Byte) /\ Len(Fcs(Tail(Frame(p)))) = 2
BY FcsAssumption

----------------------------------------------------------------------------
(* The length of what is sent.                                             *)

\* The byte the loop of add_escapes looks at is one it leaves alone, such as
\* the second half of the escape it has just made.
Plain == pos <= Len(buffer) /\ buffer[pos] \notin Special

\* The bytes in the buffer together with those still to be looked at.  A
\* round that escapes a byte raises the sum by one, but the next round, which
\* meets the second half of the escape, lowers it again.
Sum == Len(buffer) + (Len(buffer) + 1 - pos)
Slack == IF Plain THEN 1 ELSE 0

LengthInv ==
  /\ packet \in Packets
  /\ checksum \in Seq(Byte) /\ Len(checksum) = 2
  /\ buffer \in Seq(Byte)
  /\ pos \in Nat \ {0} /\ pos <= Len(buffer) + 2
  /\ pc \in Escaping => pos <= Len(buffer) + 1
  /\ pc = "idle" => buffer = <<>>
  /\ pc = "escape" => Sum <= 2 * Len(Frame(packet)) - 1 + Slack
  /\ pc = "escapeChecksum" => Sum <= 2 * Len(Frame(packet)) + 2 + Slack
  /\ pc \notin {"idle"} \cup Escaping => Len(buffer) <= 2 * Len(Frame(packet)) + 3

\* The initial state satisfies it.
LEMMA InitLength == Init => LengthInv
<1> SUFFICES ASSUME Init PROVE LengthInv
  OBVIOUS
<1>1. <<0, 0>> \in Seq(Byte) /\ Len(<<0, 0>>) = 2
  BY DEF Byte
<1> QED BY <1>1, EmptySeq DEF Init, LengthInv, Escaping

\* Every step preserves it.
LEMMA StepLength == LengthInv /\ [Next]_vars => LengthInv'
<1> SUFFICES ASSUME LengthInv, [Next]_vars PROVE LengthInv'
  OBVIOUS
<1>0. /\ Len(buffer) \in Nat /\ \A i \in 1 .. Len(buffer) : buffer[i] \in Byte
      /\ Len(Frame(packet)) \in Nat /\ 29 <= Len(Frame(packet)) /\ Len(Frame(packet)) <= 61
      /\ Frame(packet) \in Seq(Byte)
      /\ pos \in Nat \ {0}
  BY LenProperties, ElementOfSeq, FrameType DEF LengthInv
<1>1. CASE Generate
  <2>1. /\ buffer' = Frame(packet) /\ pos' = 2 /\ pc' = "escape" /\ packet' = packet
        /\ checksum' \in Seq(Byte) /\ Len(checksum') = 2
    BY <1>1, ChecksumType DEF Generate, LengthInv
  <2>2. Sum' = 2 * Len(Frame(packet)) - 1 /\ Slack' \in {0, 1}
    BY <1>0, <2>1 DEF Sum, Slack
  <2>3. Sum' <= 2 * Len(Frame(packet)') - 1 + Slack'
    BY <1>0, <2>1, <2>2
  <2> QED BY <1>0, <2>1, <2>3 DEF LengthInv, Escaping
<1>2. CASE EscapeByte
  <2>1. /\ pc \in Escaping /\ pc' = pc /\ packet' = packet /\ checksum' = checksum
        /\ pos \in 1 .. Len(buffer) /\ pos' = pos + 1
        /\ buffer' = IF buffer[pos] \in Special THEN Escaped(buffer, pos) ELSE buffer
    BY <1>0, <1>2 DEF EscapeByte
  <2>2. CASE buffer[pos] \in Special
    <3>1. /\ buffer' \in Seq(Byte) /\ Len(buffer') = Len(buffer) + 1
          /\ buffer'[pos'] = Flip(buffer[pos])
      BY <2>1, <2>2, EscapedBytes DEF LengthInv
    <3>2. buffer'[pos'] \notin Special
      BY <2>2, <3>1, FlipOfSpecial
    <3>3. Slack = 0 /\ Slack' = 1
      BY <1>0, <2>1, <2>2, <3>1, <3>2 DEF Slack, Plain
    <3>4. Sum' = Sum + 1 /\ Sum \in Int
      <4>1. pos' = pos + 1 /\ Len(buffer') = Len(buffer) + 1
        BY <2>1, <3>1
      <4> QED BY <1>0, <4>1 DEF Sum
    <3>5. /\ pc = "escape" => Sum' <= 2 * Len(Frame(packet)') - 1 + Slack'
          /\ pc = "escapeChecksum" => Sum' <= 2 * Len(Frame(packet)') + 2 + Slack'
      BY <1>0, <2>1, <3>3, <3>4 DEF LengthInv
    <3>6. pos' \in Nat \ {0} /\ pos' <= Len(buffer') + 1
      BY <1>0, <2>1, <3>1
    <3> QED BY <1>0, <2>1, <3>1, <3>5, <3>6 DEF LengthInv, Escaping
  <2>3. CASE buffer[pos] \notin Special
    <3>1. buffer' = buffer /\ Slack = 1 /\ Slack' \in {0, 1}
      BY <2>1, <2>3 DEF Slack, Plain
    <3>2. Sum' = Sum - 1 /\ Sum \in Int
      <4>1. pos' = pos + 1 /\ buffer' = buffer
        BY <2>1, <3>1
      <4> QED BY <1>0, <4>1 DEF Sum
    <3>3. /\ pc = "escape" => Sum' <= 2 * Len(Frame(packet)') - 1 + Slack'
          /\ pc = "escapeChecksum" => Sum' <= 2 * Len(Frame(packet)') + 2 + Slack'
      BY <1>0, <2>1, <3>1, <3>2, SMTT(30) DEF LengthInv
    <3>4. pos' \in Nat \ {0} /\ pos' <= Len(buffer') + 1
      BY <1>0, <2>1, <3>1
    <3> QED BY <1>0, <2>1, <3>1, <3>3, <3>4 DEF LengthInv, Escaping
  <2> QED BY <2>2, <2>3
<1>3. CASE AppendChecksum
  <2>1. /\ pc = "escape" /\ pc' = "escapeChecksum" /\ pos = Len(buffer) + 1
        /\ buffer' = buffer \o checksum /\ pos' = Len(buffer) + 2
        /\ packet' = packet /\ checksum' = checksum
    BY <1>0, <1>3 DEF AppendChecksum, LengthInv, Escaping
  <2>2. Len(buffer) <= 2 * Len(Frame(packet)) - 1
    BY <1>0, <2>1 DEF LengthInv, Sum, Slack, Plain
  <2>3. buffer' \in Seq(Byte) /\ Len(buffer') = Len(buffer) + 2
    <3>1. buffer \in Seq(Byte) /\ checksum \in Seq(Byte) /\ Len(checksum) = 2
      BY DEF LengthInv
    <3>2. /\ buffer \o checksum \in Seq(Byte)
          /\ Len(buffer \o checksum) = Len(buffer) + Len(checksum)
      BY <3>1, ConcatProperties
    <3> QED BY <2>1, <3>1, <3>2
  <2>4. Sum' = Len(buffer) + 3 /\ Slack' \in {0, 1}
    BY <1>0, <2>1, <2>3 DEF Sum, Slack
  <2> QED BY <1>0, <2>1, <2>2, <2>3, <2>4 DEF LengthInv, Escaping
<1>4. CASE AppendTrailer
  <2>1. /\ pc = "escapeChecksum" /\ pc' = "sent" /\ pos = Len(buffer) + 1 /\ pos' = pos
        /\ buffer' = Append(buffer, START)
        /\ packet' = packet /\ checksum' = checksum
    <3>1. pc = "escapeChecksum" /\ pos > Len(buffer)
      BY <1>4 DEF AppendTrailer
    <3>2. pos = Len(buffer) + 1
      BY <1>0, <3>1 DEF LengthInv, Escaping
    <3> QED BY <1>4, <3>2 DEF AppendTrailer
  <2>2. Len(buffer) <= 2 * Len(Frame(packet)) + 2
    <3>1. Sum = Len(buffer) /\ Slack = 0
      BY <1>0, <2>1 DEF Sum, Slack, Plain
    <3> QED BY <1>0, <2>1, <3>1 DEF LengthInv
  <2>3. START \in Byte
    BY DEF START, Byte
  <2>4. buffer' \in Seq(Byte) /\ Len(buffer') = Len(buffer) + 1
    BY <2>1, <2>3, AppendProperties DEF LengthInv
  <2> QED BY <1>0, <2>1, <2>2, <2>4 DEF LengthInv, Escaping
<1>5. CASE Damage
  <2>1. PICK k \in 6 .. Len(buffer), b \in Damages : buffer' = [buffer EXCEPT ![k] = b]
    BY <1>5 DEF Damage
  <2>2. k \in 1 .. Len(buffer) /\ b \in Byte
    BY <1>0, ConstantsAssumption
  <2>3. buffer' \in Seq(Byte) /\ Len(buffer') = Len(buffer)
    BY <2>1, <2>2, ExceptSeq DEF LengthInv
  <2> QED BY <1>0, <1>5, <2>3 DEF Damage, LengthInv, Escaping
<1>6. CASE Receive
  BY <1>0, <1>6 DEF Receive, LengthInv, Escaping
<1>7. CASE StripByte
  <2>1. /\ pc = "strip" /\ pc' = pc /\ packet' = packet /\ checksum' = checksum
        /\ pos \in 1 .. Len(buffer) /\ pos' = pos + 1
        /\ buffer' = IF buffer[pos] = ESC THEN Stripped(buffer, pos) ELSE buffer
    BY <1>0, <1>7 DEF StripByte
  <2>2. /\ buffer' \in Seq(Byte)
        /\ Len(buffer') = Len(buffer) - 1 \/ Len(buffer') = Len(buffer)
    BY <2>1, StrippedBytes DEF LengthInv
  <2>3. /\ pos' \in Nat \ {0} /\ pos' <= Len(buffer') + 2
        /\ Len(buffer') <= Len(buffer)
    BY <1>0, <1>7, <2>2 DEF StripByte
  <2>4. Len(buffer') <= 2 * Len(Frame(packet)') + 3
    BY <1>0, <2>1, <2>2, <2>3 DEF LengthInv, Escaping
  <2> QED BY <2>1, <2>2, <2>3, <2>4 DEF LengthInv, Escaping
<1>8. CASE Accept \/ Reject
  BY <1>0, <1>8 DEF Accept, Reject, LengthInv, Escaping
<1>9. CASE Ended \/ UNCHANGED vars
  BY <1>9 DEF Ended, vars, LengthInv, Sum, Slack, Plain
<1> QED
  BY <1>1, <1>2, <1>3, <1>4, <1>5, <1>6, <1>7, <1>8, <1>9 DEF Next

\* However many bytes of a packet have to be escaped, its length fits into the
\* byte that level1_packet_send has for it: at most 125 bytes and 18 of the
\* header.
THEOREM LengthFits == Spec => []FitsLengthByte
<1>1. Spec => []LengthInv
  BY InitLength, StepLength, PTL DEF Spec
<1>2. LengthInv => FitsLengthByte
  <2> SUFFICES ASSUME LengthInv PROVE FitsLengthByte
    OBVIOUS
  <2>1. Len(buffer) \in Nat /\ Len(Frame(packet)) \in Nat /\ Len(Frame(packet)) <= 61
    BY LenProperties, FrameType DEF LengthInv
  <2>2. CASE pc = "idle"
    BY <2>2, EmptySeq DEF LengthInv, FitsLengthByte
  <2>3. CASE pc \in Escaping
    <3>1. Sum >= Len(buffer) /\ Sum \in Int /\ Slack \in {0, 1}
      BY <2>1, <2>3 DEF LengthInv, Sum, Slack
    <3>2. \/ Sum <= 2 * Len(Frame(packet)) - 1 + Slack
          \/ Sum <= 2 * Len(Frame(packet)) + 2 + Slack
      BY <2>3 DEF LengthInv, Escaping
    <3> HIDE DEF Sum, Slack
    <3> QED BY <2>1, <3>1, <3>2 DEF FitsLengthByte
  <2>4. CASE pc \notin {"idle"} \cup Escaping
    <3>1. Len(buffer) <= 2 * Len(Frame(packet)) + 3
      BY <2>4 DEF LengthInv
    <3> QED BY <2>1, <3>1 DEF FitsLengthByte
  <2> QED BY <2>2, <2>3, <2>4
<1> QED BY <1>1, <1>2, PTL

----------------------------------------------------------------------------
(* The loops come to an end.                                               *)

LEMMA RoundAdvances ==
  ASSUME LengthInv, EscapeByte \/ StripByte
  PROVE  Ahead' \in 0 .. Ahead - 1
<1> DEFINE n == Len(buffer)
           nn == Len(buffer')
           left == IF pos <= n /\ buffer[pos] \notin Special THEN 1 ELSE 0
           leftAfter == IF pos' <= nn /\ buffer'[pos'] \notin Special THEN 1 ELSE 0
<1>1. /\ buffer \in Seq(Byte) /\ n \in Nat /\ pos \in 1 .. n /\ pos' = pos + 1
      /\ pos \in 1 .. Len(buffer)
  BY LenProperties DEF LengthInv, EscapeByte, StripByte
<1>2. Ahead = 2 * (n + 2 - pos) - left
  BY DEF Ahead
<1>3. Ahead' = 2 * (nn + 2 - pos') - leftAfter
  BY DEF Ahead
<1>4. left \in {0, 1} /\ leftAfter \in {0, 1}
  OBVIOUS
<1>5. CASE EscapeByte /\ buffer[pos] \in Special
  <2>1. buffer' = Escaped(buffer, pos)
    BY <1>5 DEF EscapeByte
  <2>2. nn = n + 1 /\ buffer'[pos + 1] = Flip(buffer[pos])
    BY <1>1, <2>1, EscapedBytes
  <2>3. left = 0
    BY <1>5
  <2>4. leftAfter = 1
    <3>1. buffer'[pos'] \notin Special
      BY <1>1, <1>5, <2>2, FlipOfSpecial
    <3>2. pos' <= nn
      BY <1>1, <2>2
    <3> QED BY <3>1, <3>2
  <2> HIDE DEF n, nn, left, leftAfter
  <2> QED BY <1>1, <1>2, <1>3, <2>2, <2>3, <2>4
<1>6. CASE StripByte /\ buffer[pos] = ESC
  <2>1. buffer' = Stripped(buffer, pos)
    BY <1>6 DEF StripByte
  <2>2. nn = n - 1
    BY <1>1, <2>1, StrippedBytes
  <2>3. left = 0
    BY <1>6 DEF ESC, Special
  <2>4. leftAfter = 1 => pos' <= nn
    OBVIOUS
  <2> HIDE DEF n, nn, left, leftAfter
  <2> QED BY <1>1, <1>2, <1>3, <1>4, <2>2, <2>3, <2>4
<1>7. CASE ~(EscapeByte /\ buffer[pos] \in Special) /\ ~(StripByte /\ buffer[pos] = ESC)
  <2>1. buffer' = buffer
    BY <1>7 DEF EscapeByte, StripByte
  <2>2. nn = n
    BY <2>1
  <2> HIDE DEF n, nn, left, leftAfter
  <2> QED BY <1>1, <1>2, <1>3, <1>4, <2>2
<1> QED BY <1>5, <1>6, <1>7

\* Whatever a packet holds and whatever was damaged on the way, the loops of
\* add_escapes and strip_escapes have less ahead of them after every round.
THEOREM RoundsAreFinite == Spec => LoopsAdvance
<1>1. Spec => []LengthInv
  BY InitLength, StepLength, PTL DEF Spec
<1>2. LengthInv /\ [Next]_vars =>
        [pc' = pc /\ pc \in Escaping \cup {"strip"} => Ahead' \in 0 .. Ahead - 1]_vars
  <2> SUFFICES ASSUME LengthInv, Next, pc' = pc, pc \in Escaping \cup {"strip"}, ~UNCHANGED vars
               PROVE  Ahead' \in 0 .. Ahead - 1
    OBVIOUS
  <2>1. EscapeByte \/ StripByte
    BY DEF Next, Generate, AppendChecksum, AppendTrailer, Damage, Receive, Accept, Reject,
           Ended, Escaping, Ends
  <2> QED BY <2>1, RoundAdvances
<1> QED BY <1>1, <1>2, PTL DEF Spec, LoopsAdvance

----------------------------------------------------------------------------
(* The start bytes delimit what is sent.                                   *)

\* Up to place n there is a start byte only in front, and a special byte only
\* as the escape of one.
CleanTo(b, n) ==
  /\ b[1] = START
  /\ \A k \in 2 .. n :
       /\ b[k] \notin Special \ {ESC}
       /\ b[k] = ESC => k < Len(b) /\ Flip(b[k + 1]) \in Special

\* What the loop of add_escapes has passed is clean.  It passes the first byte
\* of the checksum without a look.
CleanSoFar ==
  ~damaged /\ checksum[1] \notin Special =>
    /\ pc \in Escaping => CleanTo(buffer, pos - 1)
    /\ pc = "sent" => CleanTo(buffer, Len(buffer) - 1) /\ buffer[Len(buffer)] = START

DInv == LengthInv /\ (pc \in Escaping => pos >= 2) /\ CleanSoFar

\* A byte behind an escape is not special.
LEMMA BehindEscape ==
  ASSUME NEW b \in Byte, Flip(b) \in Special PROVE b \notin Special
BY FlipTwice, FlipOfSpecial

\* Appending something does not disturb what is clean.
LEMMA StaysClean ==
  ASSUME NEW b \in Seq(Byte), NEW c \in Seq(Byte), CleanTo(b, Len(b)),
         Len(b) >= 1, Len(c) >= Len(b),
         \A i \in 1 .. Len(b) : c[i] = b[i]
  PROVE  CleanTo(c, Len(b))
<1>1. Len(b) \in Nat /\ Len(c) \in Nat
  BY LenProperties
<1>2. c[1] = START
  BY <1>1 DEF CleanTo
<1>3. ASSUME NEW k \in 2 .. Len(b)
      PROVE  /\ c[k] \notin Special \ {ESC}
             /\ c[k] = ESC => k < Len(c) /\ Flip(c[k + 1]) \in Special
  <2>1. k \in 1 .. Len(b) /\ c[k] = b[k]
    BY <1>1
  <2>2. /\ b[k] \notin Special \ {ESC}
        /\ b[k] = ESC => k < Len(b) /\ Flip(b[k + 1]) \in Special
    BY DEF CleanTo
  <2>3. CASE k < Len(b)
    <3>1. k + 1 \in 1 .. Len(b) /\ k < Len(c)
      BY <1>1, <2>1, <2>3
    <3> QED BY <2>1, <2>2, <3>1
  <2> QED BY <2>1, <2>2, <2>3
<1> QED BY <1>2, <1>3 DEF CleanTo

\* Every step preserves it.
LEMMA StepClean == DInv /\ [Next]_vars => DInv'
<1> SUFFICES ASSUME DInv, [Next]_vars
             PROVE  (pc \in Escaping => pos >= 2)' /\ CleanSoFar'
  BY StepLength DEF DInv
<1>0. /\ LengthInv /\ Len(buffer) \in Nat /\ pos \in Nat \ {0}
      /\ buffer \in Seq(Byte) /\ \A i \in 1 .. Len(buffer) : buffer[i] \in Byte
      /\ CleanSoFar /\ (pc \in Escaping => pos >= 2 /\ pos <= Len(buffer) + 1)
      /\ packet \in Packets
  BY LenProperties, ElementOfSeq DEF LengthInv, DInv
<1>1. CASE Generate
  <2>1. buffer' = Frame(packet) /\ pos' = 2 /\ pc' = "escape"
    BY <1>1 DEF Generate
  <2>2. buffer'[1] = START
    BY <1>0, <2>1, FrameType
  <2>3. CleanTo(buffer', 1) /\ pos' - 1 = 1
    BY <2>1, <2>2 DEF CleanTo
  <2> QED BY <2>1, <2>3 DEF CleanSoFar
<1>2. CASE EscapeByte
  <2>1. /\ pc \in Escaping /\ pc' = pc /\ checksum' = checksum /\ damaged' = damaged
        /\ pos <= Len(buffer) /\ pos' = pos + 1 /\ pos >= 2 /\ pos \in 1 .. Len(buffer)
        /\ buffer' = IF buffer[pos] \in Special THEN Escaped(buffer, pos) ELSE buffer
    BY <1>0, <1>2 DEF EscapeByte
  <2> SUFFICES ASSUME ~damaged, checksum[1] \notin Special PROVE CleanTo(buffer', pos)
    <3>1. pos' - 1 = pos /\ pos' >= 2
      BY <1>0, <2>1
    <3> QED BY <2>1, <3>1 DEF CleanSoFar, Escaping
  <2>2. CleanTo(buffer, pos - 1)
    BY <1>0, <2>1 DEF CleanSoFar
  <2>3. CASE buffer[pos] \notin Special
    <3>1. buffer' = buffer
      BY <2>1, <2>3
    <3>2. ASSUME NEW k \in 2 .. pos
          PROVE  /\ buffer[k] \notin Special \ {ESC}
                 /\ buffer[k] = ESC => k < Len(buffer) /\ Flip(buffer[k + 1]) \in Special
      <4>1. CASE k = pos
        BY <2>3, <4>1 DEF Special, ESC
      <4>2. CASE k # pos
        <5>1. k \in 2 .. pos - 1
          BY <1>0, <4>2
        <5> QED BY <2>2, <5>1 DEF CleanTo
      <4> QED BY <4>1, <4>2
    <3> QED BY <2>1, <2>2, <3>1, <3>2 DEF CleanTo
  <2>4. CASE buffer[pos] \in Special
    <3>1. /\ Len(buffer') = Len(buffer) + 1
          /\ \A i \in 1 .. pos - 1 : buffer'[i] = buffer[i]
          /\ buffer'[pos] = ESC /\ buffer'[pos + 1] = Flip(buffer[pos])
      BY <1>0, <2>1, <2>4, EscapedBytes
    <3>2. pos - 1 \in 1 .. pos - 1 /\ 1 \in 1 .. pos - 1
      BY <1>0, <2>1
    <3>3. Flip(Flip(buffer[pos])) = buffer[pos] /\ buffer[pos] \in Byte
      BY <1>0, <2>1, FlipTwice
    <3>4. buffer'[1] = START
      BY <2>2, <3>1, <3>2 DEF CleanTo
    <3>5. ASSUME NEW k \in 2 .. pos
          PROVE  /\ buffer'[k] \notin Special \ {ESC}
                 /\ buffer'[k] = ESC => k < Len(buffer') /\ Flip(buffer'[k + 1]) \in Special
      <4>1. CASE k = pos
        <5>1. pos < Len(buffer')
          BY <1>0, <2>1, <3>1
        <5> QED BY <2>4, <3>1, <3>3, <4>1, <5>1
      <4>2. CASE k # pos
        <5>1. k \in 2 .. pos - 1 /\ k \in 1 .. pos - 1
          BY <1>0, <4>2
        <5>2. /\ buffer[k] \notin Special \ {ESC}
              /\ buffer[k] = ESC => Flip(buffer[k + 1]) \in Special
          BY <2>2, <5>1 DEF CleanTo
        <5>3. buffer'[k] = buffer[k]
          BY <3>1, <5>1
        <5>4. CASE k + 1 = pos
          <6>1. buffer[k] # ESC
            BY <2>4, <3>3, <5>2, <5>4, BehindEscape
          <6> QED BY <5>2, <5>3, <6>1
        <5>5. CASE k + 1 # pos
          <6>1. k + 1 \in 1 .. pos - 1 /\ k < Len(buffer) + 1
            BY <1>0, <2>1, <5>1, <5>5
          <6> QED BY <3>1, <5>2, <5>3, <6>1
        <5> QED BY <5>4, <5>5
      <4> QED BY <4>1, <4>2
    <3> QED BY <2>1, <3>4, <3>5 DEF CleanTo
  <2> QED BY <2>3, <2>4
<1>3. CASE AppendChecksum
  <2>1. /\ pc = "escape" /\ pc' = "escapeChecksum" /\ pos = Len(buffer) + 1
        /\ buffer' = buffer \o checksum /\ pos' = Len(buffer) + 2
        /\ checksum' = checksum /\ damaged' = damaged
    BY <1>0, <1>3 DEF AppendChecksum, Escaping
  <2>2. pos' >= 2
    BY <1>0, <2>1
  <2> SUFFICES ASSUME ~damaged, checksum[1] \notin Special PROVE CleanTo(buffer', Len(buffer) + 1)
    <3>1. pos' - 1 = Len(buffer) + 1
      BY <1>0, <2>1
    <3> QED BY <2>1, <2>2, <3>1 DEF CleanSoFar, Escaping
  <2>3. CleanTo(buffer, Len(buffer))
    <3>1. pos - 1 = Len(buffer) /\ pc \in Escaping
      BY <1>0, <2>1 DEF Escaping
    <3> QED BY <1>0, <3>1 DEF CleanSoFar
  <2>4. checksum \in Seq(Byte) /\ Len(checksum) = 2
    BY <1>0 DEF LengthInv
  <2>5. /\ \A i \in 1 .. Len(buffer) : buffer'[i] = buffer[i]
        /\ buffer'[Len(buffer) + 1] = checksum[1]
    <3> DEFINE n == Len(buffer)
               long == buffer \o checksum
    <3>a. buffer \in Seq(Byte)
      BY <1>0 DEF LengthInv
    <3>b. \A i \in 1 .. Len(buffer) + Len(checksum) :
            long[i] = IF i <= Len(buffer) THEN buffer[i] ELSE checksum[i - Len(buffer)]
      BY <2>4, <3>a, ConcatProperties
    <3>1. \A i \in 1 .. n + 2 :
            long[i] = IF i <= n THEN buffer[i] ELSE checksum[i - n]
      BY <2>4, <3>b, Zenon
    <3>2. n \in Nat /\ buffer' = long
      BY <1>0, <2>1
    <3> HIDE DEF n, long
    <3>3. n + 1 \in 1 .. n + 2 /\ ~(n + 1 <= n) /\ (n + 1) - n = 1
      BY <3>2
    <3>4. \A i \in 1 .. n : i \in 1 .. n + 2 /\ i <= n
      BY <3>2
    <3>5. /\ \A i \in 1 .. n : long[i] = buffer[i]
          /\ long[n + 1] = checksum[1]
      BY <3>1, <3>3, <3>4
    <3> QED BY <3>2, <3>5 DEF n
  <2>6. Len(buffer) >= 1 /\ buffer' \in Seq(Byte) /\ Len(buffer') >= Len(buffer)
    <3>1. Len(buffer) >= 1
      BY <1>0, <2>1 DEF Escaping
    <3>2. /\ buffer \o checksum \in Seq(Byte)
          /\ Len(buffer \o checksum) = Len(buffer) + Len(checksum)
      BY <1>0, <2>4, ConcatProperties
    <3>3. buffer' \in Seq(Byte) /\ Len(buffer') = Len(buffer) + 2
      BY <2>1, <2>4, <3>2
    <3> QED BY <1>0, <3>1, <3>3
  <2>7. CleanTo(buffer', Len(buffer))
    BY <1>0, <2>3, <2>5, <2>6, StaysClean
  <2>8. ASSUME NEW k \in 2 .. Len(buffer) + 1
        PROVE  /\ buffer'[k] \notin Special \ {ESC}
               /\ buffer'[k] = ESC => k < Len(buffer') /\ Flip(buffer'[k + 1]) \in Special
    <3>1. CASE k = Len(buffer) + 1
      BY <2>5, <3>1 DEF Special, ESC
    <3>2. CASE k # Len(buffer) + 1
      <4>1. k \in 2 .. Len(buffer)
        BY <1>0, <3>2
      <4> QED BY <2>7, <4>1 DEF CleanTo
    <3> QED BY <3>1, <3>2
  <2> QED BY <2>7, <2>8 DEF CleanTo
<1>4. CASE AppendTrailer
  <2>1. /\ pc = "escapeChecksum" /\ pc' = "sent" /\ pos = Len(buffer) + 1
        /\ buffer' = Append(buffer, START)
        /\ checksum' = checksum /\ damaged' = damaged
    <3>1. pc = "escapeChecksum" /\ pos > Len(buffer)
      BY <1>4 DEF AppendTrailer
    <3>2. pos = Len(buffer) + 1
      BY <1>0, <3>1 DEF Escaping
    <3> QED BY <1>4, <3>2 DEF AppendTrailer
  <2>2. START \in Byte
    BY DEF START, Byte
  <2>3. /\ buffer' \in Seq(Byte) /\ Len(buffer') = Len(buffer) + 1
        /\ \A i \in 1 .. Len(buffer) : buffer'[i] = buffer[i]
        /\ buffer'[Len(buffer) + 1] = START
    BY <1>0, <2>1, <2>2, AppendProperties
  <2> SUFFICES ASSUME ~damaged, checksum[1] \notin Special
               PROVE  CleanTo(buffer', Len(buffer))
    <3>1. Len(buffer') - 1 = Len(buffer)
      BY <1>0, <2>3
    <3>2. buffer'[Len(buffer')] = START
      BY <2>3
    <3> QED BY <2>1, <3>1, <3>2 DEF CleanSoFar, Escaping
  <2>4. CleanTo(buffer, Len(buffer)) /\ Len(buffer) >= 1
    <3>1. pos - 1 = Len(buffer) /\ pc \in Escaping /\ Len(buffer) >= 1
      BY <1>0, <2>1 DEF Escaping
    <3> QED BY <1>0, <3>1 DEF CleanSoFar
  <2>5. Len(buffer') >= Len(buffer)
    BY <1>0, <2>3
  <2> QED BY <1>0, <2>3, <2>4, <2>5, StaysClean
<1>5. CASE Damage
  BY <1>5 DEF Damage, CleanSoFar, Escaping
<1>6. CASE Receive \/ StripByte \/ Accept \/ Reject
  BY <1>6 DEF Receive, StripByte, Accept, Reject, CleanSoFar, Escaping
<1>7. CASE Ended \/ UNCHANGED vars
  BY <1>0, <1>7 DEF Ended, vars, CleanSoFar, CleanTo
<1> QED
  BY <1>1, <1>2, <1>3, <1>4, <1>5, <1>6, <1>7 DEF Next

\* Whatever a packet holds, nothing in front of its trailer can be taken for a
\* start byte, unless it is the first byte of the checksum.
THEOREM FramesAreDelimited == Spec => []Delimited
<1>1. Init => DInv
  BY InitLength DEF Init, DInv, CleanSoFar, Escaping
<1>2. Spec => []DInv
  BY <1>1, StepClean, PTL DEF Spec
<1>3. DInv => Delimited
  <2> SUFFICES ASSUME DInv, pc = "sent", ~damaged, checksum[1] \notin Special
               PROVE  /\ buffer[1] = START /\ buffer[Len(buffer)] = START
                      /\ \A k \in 2 .. Len(buffer) - 1 :
                           /\ buffer[k] \notin Special \ {ESC}
                           /\ buffer[k] = ESC => Flip(buffer[k + 1]) \in Special
    BY DEF Delimited
  <2> QED BY DEF DInv, CleanSoFar, CleanTo
<1> QED BY <1>2, <1>3, PTL

----------------------------------------------------------------------------
(* Where the bytes of a packet are while they are escaped and stripped.    *)

\* Byte k of the raw sequence r begins at place f[k] of b, as itself or as an
\* escape sequence; f[k + 1] is where the next one begins.
Placed(b, r, f, k) ==
  \/ f[k + 1] = f[k] + 1 /\ b[f[k]] = r[k] /\ r[k] # ESC
  \/ f[k + 1] = f[k] + 2 /\ b[f[k]] = ESC /\ b[f[k] + 1] = Flip(r[k])

Rising(f, m, n) == \A i, k \in m .. n : i < k => f[i] < f[k]

\* The first n of m raw bytes have been seen to, and the loop is at place q:
\* behind them, or at the second half of the last one's escape.  The others
\* follow, as they are.
PartlyEscaped(b, r, m, q, n, f) ==
  /\ f \in [Nat -> Nat] /\ f[1] = 1 /\ f[2] = 2 /\ Rising(f, 1, n + 1)
  /\ \A k \in 1 .. n : Placed(b, r, f, k)
  /\ f[n + 1] = q \/ (f[n + 1] = q + 1 /\ q <= Len(b) /\ b[q] \notin Special)
  /\ f[n + 1] + (m - n) = Len(b) + 1
  /\ \A j \in n + 1 .. m : b[f[n + 1] + (j - n - 1)] = r[j]

\* All m raw bytes are in place.
WhollyEscaped(b, r, m, f) ==
  /\ f \in [Nat -> Nat] /\ f[1] = 1 /\ f[2] = 2 /\ Rising(f, 1, m + 1)
  /\ \A k \in 1 .. m : Placed(b, r, f, k)
  /\ f[m + 1] = Len(b) + 1

\* The bytes in front of place q are raw again, those behind it are not yet.
PartlyStripped(b, r, m, q, f) ==
  /\ f \in [Nat -> Nat] /\ q <= m + 1 /\ f[q] = q /\ Rising(f, q, m + 1)
  /\ \A k \in 1 .. q - 1 : b[k] = r[k]
  /\ \A k \in q .. m : Placed(b, r, f, k)
  /\ f[m + 1] = Len(b) + 1

\* What is in place stays in place when only later bytes change.
LEMMA StaysPlaced ==
  ASSUME NEW b, NEW c, NEW r, NEW f \in [Nat -> Nat], NEW g \in [Nat -> Nat],
         NEW k \in Nat \ {0}, NEW q \in Nat,
         Placed(b, r, f, k), f[k] >= 1, f[k + 1] <= q,
         g[k] = f[k], g[k + 1] = f[k + 1],
         \A i \in 1 .. q - 1 : c[i] = b[i]
  PROVE  Placed(c, r, g, k)
<1>1. f[k] \in Nat /\ f[k + 1] \in Nat
  OBVIOUS
<1>2. CASE f[k + 1] = f[k] + 1
  <2>1. f[k] \in 1 .. q - 1
    BY <1>1, <1>2
  <2> QED BY <1>1, <1>2, <2>1 DEF Placed
<1>3. CASE f[k + 1] = f[k] + 2
  <2>1. f[k] \in 1 .. q - 1 /\ f[k] + 1 \in 1 .. q - 1
    BY <1>1, <1>3
  <2> QED BY <1>1, <1>3, <2>1 DEF Placed
<1> QED BY <1>2, <1>3 DEF Placed

LEMMA RisesOn ==
  ASSUME NEW f \in [Nat -> Nat], NEW g \in [Nat -> Nat], NEW n \in Nat,
         Rising(f, 1, n + 1), g[n + 2] > f[n + 1],
         \A i \in 1 .. n + 1 : g[i] = f[i]
  PROVE  Rising(g, 1, n + 2)
<1>1. \A i \in 1 .. n + 1 : g[i] = f[i]
  OBVIOUS
<1> SUFFICES ASSUME NEW i \in 1 .. n + 2, NEW k \in 1 .. n + 2, i < k
             PROVE  g[i] < g[k]
  BY DEF Rising
<1>2. i \in 1 .. n + 1 /\ f[i] \in Nat /\ f[n + 1] \in Nat
  OBVIOUS
<1>3. CASE k = n + 2
  <2>1. f[i] <= f[n + 1]
    <3>1. i = n + 1 \/ i < n + 1
      BY <1>2
    <3>2. n + 1 \in 1 .. n + 1
      OBVIOUS
    <3> QED BY <1>2, <3>1, <3>2 DEF Rising
  <2>2. g[i] = f[i] /\ g[k] > f[n + 1] /\ g[k] \in Nat
    BY <1>1, <1>2, <1>3
  <2> QED BY <1>2, <2>1, <2>2
<1>4. CASE k # n + 2
  <2>1. k \in 1 .. n + 1
    BY <1>4
  <2> QED BY <1>1, <1>2, <2>1 DEF Rising
<1> QED BY <1>3, <1>4

\* A place is at or below the last one.
LEMMA RisesTo ==
  ASSUME NEW f \in [Nat -> Nat], NEW m \in Nat, NEW n \in Nat, Rising(f, m, n),
         NEW k \in m .. n
  PROVE  f[m] <= f[k] /\ f[k] <= f[n] /\ f[k] \in Nat
<1>1. m \in m .. n /\ n \in m .. n /\ f[m] \in Nat /\ f[k] \in Nat /\ f[n] \in Nat
  OBVIOUS
<1>2. (k = m \/ m < k) /\ (k = n \/ k < n)
  OBVIOUS
<1> QED BY <1>1, <1>2 DEF Rising

\* One round of add_escapes.
LEMMA EscapeRound ==
  ASSUME NEW b \in Seq(Byte), NEW r, NEW m \in Nat, NEW q \in Nat, q >= 2, q <= Len(b),
         NEW n \in Nat, 1 <= n, n <= m, NEW f, PartlyEscaped(b, r, m, q, n, f)
  PROVE  \E nn \in Nat : \E g :
           /\ 1 <= nn /\ nn <= m
           /\ PartlyEscaped(IF b[q] \in Special THEN Escaped(b, q) ELSE b,
                            r, m, q + 1, nn, g)
<1>a. f \in [Nat -> Nat] /\ Rising(f, 1, n + 1)
  BY DEF PartlyEscaped
<1>e. f[n + 1] + (m - n) = Len(b) + 1
  BY DEF PartlyEscaped
<1> DEFINE l == Len(b)
<1>b. l \in Nat /\ f[n + 1] \in Nat /\ f[n + 1] + (m - n) = l + 1 /\ q <= l
  BY <1>a, <1>e, LenProperties
<1> HIDE DEF l
<1>c. q \in 1 .. l
  BY <1>b
<1>0. /\ Len(b) \in Nat /\ q \in 1 .. Len(b) /\ f \in [Nat -> Nat]
      /\ f[n + 1] \in Nat /\ Rising(f, 1, n + 1)
  BY <1>a, <1>b, <1>c DEF l
<1>1. CASE f[n + 1] = q + 1
  <2>1. b[q] \notin Special
    BY <1>0, <1>1 DEF PartlyEscaped
  <2>2. PartlyEscaped(b, r, m, q + 1, n, f)
    BY <1>1 DEF PartlyEscaped
  <2> QED BY <2>1, <2>2
<1>2. CASE f[n + 1] = q
  <2>1. n < m /\ n + 1 \in n + 1 .. m
    BY <1>0, <1>2 DEF PartlyEscaped
  <2>2. b[q] = r[n + 1]
    <3>1. b[f[n + 1] + ((n + 1) - n - 1)] = r[n + 1]
      BY <2>1 DEF PartlyEscaped
    <3>2. f[n + 1] + ((n + 1) - n - 1) = q
      BY <1>2
    <3> QED BY <3>1, <3>2
  <2>3. b[q] \in Byte
    BY <1>0, ElementOfSeq
  <2>4. CASE b[q] \notin Special
    <3>a. PICK g \in [Nat -> Nat] : g[n + 2] = q + 1 /\ \A i \in Nat : i # n + 2 => g[i] = f[i]
      <4> DEFINE h == [i \in Nat |-> IF i = n + 2 THEN q + 1 ELSE f[i]]
      <4>1. n + 2 \in Nat /\ q + 1 \in Nat
        BY <1>a
      <4>2. h \in [Nat -> Nat] /\ h[n + 2] = q + 1 /\ \A i \in Nat : i # n + 2 => h[i] = f[i]
        BY <1>a, <4>1
      <4> HIDE DEF h
      <4> QED BY <4>2
    <3>b. \A i \in 1 .. n + 1 : g[i] = f[i]
      <4>1. \A i \in 1 .. n + 1 : i \in Nat /\ i # n + 2
        OBVIOUS
      <4> QED BY <3>a, <4>1
    <3>1. /\ g \in [Nat -> Nat] /\ g[n + 2] = q + 1
          /\ \A i \in 1 .. n + 1 : g[i] = f[i]
          /\ Rising(g, 1, n + 2)
      <4>1. g[n + 2] > f[n + 1]
        BY <1>2, <3>a
      <4> QED BY <1>a, <3>a, <3>b, <4>1, RisesOn
    <3>3. ASSUME NEW k \in 1 .. n + 1 PROVE Placed(b, r, g, k)
      <4>1. CASE k = n + 1
        <5>1. g[k + 1] = q + 1 /\ g[k] = q
          <6>1. (n + 1) + 1 = n + 2 /\ n + 1 \in 1 .. n + 1
            OBVIOUS
          <6> QED BY <1>2, <3>1, <4>1, <6>1
        <5>2. r[k] # ESC
          BY <2>2, <2>4, <4>1 DEF Special, ESC
        <5> QED BY <2>2, <4>1, <5>1, <5>2 DEF Placed
      <4>2. CASE k # n + 1
        <5>1. k \in 1 .. n /\ k \in 1 .. n + 1 /\ k + 1 \in 1 .. n + 1
          BY <4>2
        <5>2. Placed(b, r, f, k)
          BY <5>1 DEF PartlyEscaped
        <5>3. g[k] = f[k] /\ g[k + 1] = f[k + 1]
          BY <3>1, <5>1
        <5> QED BY <5>2, <5>3 DEF Placed
      <4> QED BY <4>1, <4>2
    <3>4. ASSUME NEW j \in (n + 1) + 1 .. m
          PROVE  b[(q + 1) + (j - (n + 1) - 1)] = r[j]
      <4>1. j \in n + 1 .. m /\ (q + 1) + (j - (n + 1) - 1) = q + (j - n - 1)
        OBVIOUS
      <4> QED BY <1>2, <4>1 DEF PartlyEscaped
    <3>5. (q + 1) + (m - (n + 1)) = Len(b) + 1
      <4>1. (q + 1) + (m - (n + 1)) = l + 1
        BY <1>b, <1>2
      <4> QED BY <4>1 DEF l
    <3>6. g[1] = 1 /\ g[2] = 2
      <4>1. 1 \in 1 .. n + 1 /\ 2 \in 1 .. n + 1
        OBVIOUS
      <4> QED BY <3>1, <4>1 DEF PartlyEscaped
    <3>7. (n + 1) + 1 = n + 2
      OBVIOUS
    <3>8. PartlyEscaped(b, r, m, q + 1, n + 1, g)
      BY <3>1, <3>3, <3>4, <3>5, <3>6, <3>7, ZenonT(30) DEF PartlyEscaped
    <3>9. n + 1 \in Nat /\ 1 <= n + 1 /\ n + 1 <= m
      BY <2>1
    <3> QED BY <2>4, <3>8, <3>9
  <2>5. CASE b[q] \in Special
    <3>a. PICK g \in [Nat -> Nat] : g[n + 2] = q + 2 /\ \A i \in Nat : i # n + 2 => g[i] = f[i]
      <4> DEFINE h == [i \in Nat |-> IF i = n + 2 THEN q + 2 ELSE f[i]]
      <4>1. n + 2 \in Nat /\ q + 2 \in Nat
        BY <1>a
      <4>2. h \in [Nat -> Nat] /\ h[n + 2] = q + 2 /\ \A i \in Nat : i # n + 2 => h[i] = f[i]
        BY <1>a, <4>1
      <4> HIDE DEF h
      <4> QED BY <4>2
    <3>b. \A i \in 1 .. n + 1 : g[i] = f[i]
      <4>1. \A i \in 1 .. n + 1 : i \in Nat /\ i # n + 2
        OBVIOUS
      <4> QED BY <3>a, <4>1
    <3>1. /\ g \in [Nat -> Nat] /\ g[n + 2] = q + 2
          /\ \A i \in 1 .. n + 1 : g[i] = f[i]
          /\ Rising(g, 1, n + 2)
      <4>1. g[n + 2] > f[n + 1]
        BY <1>2, <3>a
      <4> QED BY <1>a, <3>a, <3>b, <4>1, RisesOn
    <3> DEFINE c == Escaped(b, q)
    <3>3. /\ Len(c) = Len(b) + 1
          /\ \A i \in 1 .. q - 1 : c[i] = b[i]
          /\ c[q] = ESC /\ c[q + 1] = Flip(b[q])
          /\ \A i \in q + 1 .. Len(b) : c[i + 1] = b[i]
      BY <1>0, EscapedBytes
    <3> HIDE DEF c
    <3>4. ASSUME NEW k \in 1 .. n + 1 PROVE Placed(c, r, g, k)
      <4>1. CASE k = n + 1
        <5>1. g[k + 1] = q + 2 /\ g[k] = q
          <6>1. (n + 1) + 1 = n + 2 /\ n + 1 \in 1 .. n + 1
            OBVIOUS
          <6> QED BY <1>2, <3>1, <4>1, <6>1
        <5>2. c[q] = ESC /\ c[q + 1] = Flip(r[k])
          BY <2>2, <3>3, <4>1
        <5> QED BY <5>1, <5>2 DEF Placed
      <4>2. CASE k # n + 1
        <5>1. k \in 1 .. n /\ k \in 1 .. n + 1 /\ k + 1 \in 1 .. n + 1 /\ k \in Nat \ {0}
              /\ 1 \in Nat /\ n + 1 \in Nat
          BY <4>2
        <5>2. Placed(b, r, f, k)
          BY <5>1 DEF PartlyEscaped
        <5>3. g[k] = f[k] /\ g[k + 1] = f[k + 1]
          BY <3>1, <5>1
        <5>4. f[k + 1] <= q /\ f[k] >= 1
          <6>1. f[1] <= f[k] /\ f[k + 1] <= f[n + 1] /\ f[1] = 1 /\ f[k] \in Nat
            BY <1>0, <5>1, RisesTo DEF PartlyEscaped
          <6> QED BY <1>2, <6>1
        <5> QED BY <1>0, <3>1, <3>3, <5>1, <5>2, <5>3, <5>4, StaysPlaced
      <4> QED BY <4>1, <4>2
    <3>5. ASSUME NEW j \in (n + 1) + 1 .. m
          PROVE  c[(q + 2) + (j - (n + 1) - 1)] = r[j]
      <4>1. /\ j \in n + 1 .. m
            /\ (q + 2) + (j - (n + 1) - 1) = (q + (j - n - 1)) + 1
            /\ q + (j - n - 1) >= q + 1 /\ q + (j - n - 1) <= q + (m - n - 1)
            /\ q + (j - n - 1) \in Int
        OBVIOUS
      <4>2. q + (m - n - 1) = Len(b)
        BY <1>0, <1>2 DEF PartlyEscaped
      <4>3. q + (j - n - 1) \in q + 1 .. Len(b)
        BY <1>0, <4>1, <4>2
      <4>4. b[q + (j - n - 1)] = r[j]
        BY <1>2, <4>1 DEF PartlyEscaped
      <4> QED BY <3>3, <4>1, <4>3, <4>4
    <3>6. (q + 2) + (m - (n + 1)) = Len(c) + 1
      <4>1. (q + 2) + (m - (n + 1)) = (l + 1) + 1
        BY <1>b, <1>2
      <4> QED BY <3>3, <4>1 DEF l
    <3>7. g[1] = 1 /\ g[2] = 2
      <4>1. 1 \in 1 .. n + 1 /\ 2 \in 1 .. n + 1
        OBVIOUS
      <4> QED BY <3>1, <4>1 DEF PartlyEscaped
    <3>8. /\ (n + 1) + 1 = n + 2 /\ q + 2 = (q + 1) + 1 /\ q + 1 <= Len(c)
      <4>1. Len(c) = l + 1
        BY <3>3 DEF l
      <4> QED BY <1>b, <4>1
    <3>9. c[q + 1] \notin Special
      BY <2>5, <3>3, FlipOfSpecial
    <3>10. PartlyEscaped(c, r, m, q + 1, n + 1, g)
      BY <3>1, <3>4, <3>5, <3>6, <3>7, <3>8, <3>9, ZenonT(30) DEF PartlyEscaped
    <3>11. n + 1 \in Nat /\ 1 <= n + 1 /\ n + 1 <= m
      BY <2>1
    <3> QED BY <2>5, <3>10, <3>11 DEF c
  <2> QED BY <2>4, <2>5
<1> QED BY <1>1, <1>2 DEF PartlyEscaped

\* After the last round of add_escapes all bytes are in place.
LEMMA EscapingEnds ==
  ASSUME NEW b \in Seq(Byte), NEW r, NEW m \in Nat, NEW q \in Nat, q > Len(b),
         NEW n \in Nat, 1 <= n, n <= m, NEW f, PartlyEscaped(b, r, m, q, n, f),
         q <= Len(b) + 1
  PROVE  WhollyEscaped(b, r, m, f)
<1> DEFINE l == Len(b)
<1>1. /\ f \in [Nat -> Nat] /\ f[1] = 1 /\ f[2] = 2 /\ Rising(f, 1, n + 1)
      /\ \A k \in 1 .. n : Placed(b, r, f, k)
  BY DEF PartlyEscaped
<1>2. /\ f[n + 1] = q \/ (f[n + 1] = q + 1 /\ q <= l)
      /\ f[n + 1] + (m - n) = l + 1
  BY DEF PartlyEscaped
<1>3. l \in Nat /\ l < q /\ q <= l + 1
  BY LenProperties
<1> HIDE DEF l
<1>4. f[n + 1] = q /\ q = l + 1 /\ n = m
  <2>1. f[n + 1] = q /\ q = l + 1
    BY <1>2, <1>3
  <2> QED BY <1>2, <1>3, <2>1
<1>5. f[m + 1] = Len(b) + 1
  BY <1>4 DEF l
<1>6. Rising(f, 1, m + 1) /\ \A k \in 1 .. m : Placed(b, r, f, k)
  BY <1>1, <1>4
<1> QED BY <1>1, <1>5, <1>6 DEF WhollyEscaped

\* One more byte goes behind those in place, as it is.
LEMMA OneMoreByte ==
  ASSUME NEW b \in Seq(Byte), NEW r, NEW m \in Nat, m >= 1, NEW f,
         WhollyEscaped(b, r, m, f), r[m + 1] \in Byte, r[m + 1] # ESC
  PROVE  /\ Append(b, r[m + 1]) \in Seq(Byte)
         /\ Len(Append(b, r[m + 1])) = Len(b) + 1
         /\ \E g : WhollyEscaped(Append(b, r[m + 1]), r, m + 1, g)
<1> DEFINE c == Append(b, r[m + 1])
           l == Len(b)
<1>1. /\ c \in Seq(Byte) /\ Len(c) = l + 1 /\ c[l + 1] = r[m + 1]
      /\ \A i \in 1 .. l : c[i] = b[i]
  BY AppendProperties
<1>2. l \in Nat
  BY LenProperties
<1>3. /\ f \in [Nat -> Nat] /\ f[1] = 1 /\ f[2] = 2 /\ Rising(f, 1, m + 1)
      /\ \A k \in 1 .. m : Placed(b, r, f, k)
      /\ f[m + 1] = l + 1
  BY DEF WhollyEscaped
<1>4. m + 2 \in Nat /\ l + 2 \in Nat
  BY <1>2
<1> HIDE DEF c, l
<1>5. PICK g \in [Nat -> Nat] : g[m + 2] = l + 2 /\ \A i \in Nat : i # m + 2 => g[i] = f[i]
  <2> DEFINE h == [i \in Nat |-> IF i = m + 2 THEN l + 2 ELSE f[i]]
  <2>1. m + 2 \in Nat /\ l + 2 \in Nat
    BY <1>3, <1>4
  <2>2. h \in [Nat -> Nat] /\ h[m + 2] = l + 2 /\ \A i \in Nat : i # m + 2 => h[i] = f[i]
    BY <1>3, <1>4, <2>1
  <2> HIDE DEF h
  <2> QED BY <2>2
<1>6. \A i \in 1 .. m + 1 : g[i] = f[i]
  <2>1. \A i \in 1 .. m + 1 : i \in Nat /\ i # m + 2
    OBVIOUS
  <2> QED BY <1>5, <2>1
<1>7. Rising(g, 1, m + 2)
  <2>1. g[m + 2] > f[m + 1]
    BY <1>2, <1>3, <1>5
  <2> QED BY <1>3, <1>5, <1>6, <2>1, RisesOn
<1>8. ASSUME NEW k \in 1 .. m + 1 PROVE Placed(c, r, g, k)
  <2>1. CASE k = m + 1
    <3>1. g[k + 1] = l + 2 /\ g[k] = l + 1
      <4>1. (m + 1) + 1 = m + 2 /\ m + 1 \in 1 .. m + 1
        OBVIOUS
      <4> QED BY <1>3, <1>5, <1>6, <2>1, <4>1
    <3> QED BY <1>1, <1>2, <2>1, <3>1 DEF Placed
  <2>2. CASE k # m + 1
    <3>1. /\ k \in 1 .. m /\ k \in 1 .. m + 1 /\ k + 1 \in 1 .. m + 1 /\ k \in Nat \ {0}
          /\ 1 \in Nat /\ m + 1 \in Nat
      BY <2>2
    <3>2. Placed(b, r, f, k)
      BY <1>3, <3>1
    <3>3. g[k] = f[k] /\ g[k + 1] = f[k + 1]
      BY <1>6, <3>1
    <3>4. f[k + 1] <= l + 1 /\ f[k] >= 1
      <4>1. f[1] <= f[k] /\ f[k + 1] <= f[m + 1] /\ f[1] = 1 /\ f[k] \in Nat
        BY <1>3, <3>1, RisesTo
      <4> QED BY <1>3, <4>1
    <3>5. l + 1 \in Nat /\ \A i \in 1 .. (l + 1) - 1 : c[i] = b[i]
      BY <1>1, <1>2
    <3> QED BY <1>3, <1>5, <3>1, <3>2, <3>3, <3>4, <3>5, StaysPlaced
  <2> QED BY <2>1, <2>2
<1>9. g[1] = 1 /\ g[2] = 2
  <2>1. 1 \in 1 .. m + 1 /\ 2 \in 1 .. m + 1
    OBVIOUS
  <2> QED BY <1>3, <1>6, <2>1
<1>10. (m + 1) + 1 = m + 2 /\ g[m + 2] = Len(c) + 1
  BY <1>1, <1>2, <1>5
<1>11. WhollyEscaped(c, r, m + 1, g)
  BY <1>5, <1>7, <1>8, <1>9, <1>10 DEF WhollyEscaped
<1> QED BY <1>1, <1>11 DEF c, l

\* When strip_escapes begins, with the second byte, the first is raw.
LEMMA StrippingStarts ==
  ASSUME NEW b, NEW r, NEW m \in Nat, m >= 2, NEW f, WhollyEscaped(b, r, m, f)
  PROVE  PartlyStripped(b, r, m, 2, f)
<1>1. /\ f \in [Nat -> Nat] /\ f[1] = 1 /\ f[2] = 2 /\ Rising(f, 1, m + 1)
      /\ \A k \in 1 .. m : Placed(b, r, f, k)
      /\ f[m + 1] = Len(b) + 1
  BY DEF WhollyEscaped
<1>2. b[1] = r[1]
  <2>1. 1 \in 1 .. m /\ 1 + 1 = 2 /\ ~(2 = 1 + 2)
    OBVIOUS
  <2>2. Placed(b, r, f, 1)
    BY <1>1, <2>1
  <2> QED BY <1>1, <2>1, <2>2 DEF Placed
<1>3. \A k \in 1 .. 2 - 1 : b[k] = r[k]
  BY <1>2
<1>4. Rising(f, 2, m + 1) /\ \A k \in 2 .. m : Placed(b, r, f, k)
  <2>1. 2 .. m + 1 \subseteq 1 .. m + 1 /\ 2 .. m \subseteq 1 .. m
    OBVIOUS
  <2>2. \A k \in 2 .. m : Placed(b, r, f, k)
    BY <1>1, <2>1
  <2>3. Rising(f, 2, m + 1)
    BY <1>1, <2>1 DEF Rising
  <2> QED BY <2>2, <2>3
<1>5. 2 <= m + 1
  OBVIOUS
<1> QED BY <1>1, <1>3, <1>4, <1>5 DEF PartlyStripped

\* One round of strip_escapes.
LEMMA StripRound ==
  ASSUME NEW b \in Seq(Byte), NEW r, NEW m \in Nat, \A k \in 1 .. m : r[k] \in Byte,
         NEW q \in Nat \ {0}, q <= Len(b), NEW f, PartlyStripped(b, r, m, q, f)
  PROVE  \E g : PartlyStripped(IF b[q] = ESC THEN Stripped(b, q) ELSE b, r, m, q + 1, g)
<1> DEFINE l == Len(b)
<1>1. /\ f \in [Nat -> Nat] /\ q <= m + 1 /\ f[q] = q /\ Rising(f, q, m + 1)
      /\ \A k \in 1 .. q - 1 : b[k] = r[k]
      /\ \A k \in q .. m : Placed(b, r, f, k)
      /\ f[m + 1] = l + 1
  BY DEF PartlyStripped
<1>2. l \in Nat /\ q <= l
  BY LenProperties
<1>3. q \in 1 .. Len(b)
  BY <1>2
<1> HIDE DEF l
<1>4. q <= m /\ q \in q .. m /\ q \in 1 .. m
  <2>1. q # m + 1
    BY <1>1, <1>2
  <2> QED BY <1>1, <2>1
<1>5. /\ Rising(f, q + 1, m + 1)
      /\ \A k \in q + 1 .. m : Placed(b, r, f, k)
  <2>1. q + 1 .. m + 1 \subseteq q .. m + 1 /\ q + 1 .. m \subseteq q .. m
    OBVIOUS
  <2>2. \A k \in q + 1 .. m : Placed(b, r, f, k)
    BY <1>1, <2>1
  <2>3. Rising(f, q + 1, m + 1)
    BY <1>1, <2>1 DEF Rising
  <2> QED BY <2>2, <2>3
<1>6. CASE f[q + 1] = f[q] + 1 /\ b[f[q]] = r[q] /\ r[q] # ESC
  <2>1. b[q] = r[q] /\ b[q] # ESC /\ f[q + 1] = q + 1
    BY <1>1, <1>6
  <2>2. ASSUME NEW k \in 1 .. (q + 1) - 1 PROVE b[k] = r[k]
    <3>1. k = q \/ k \in 1 .. q - 1
      OBVIOUS
    <3> QED BY <1>1, <2>1, <3>1
  <2>3. q + 1 <= m + 1
    BY <1>4
  <2>4. PartlyStripped(b, r, m, q + 1, f)
    BY <1>1, <1>5, <2>1, <2>2, <2>3 DEF PartlyStripped, l
  <2> QED BY <2>1, <2>4
<1>7. CASE f[q + 1] = f[q] + 2 /\ b[f[q]] = ESC /\ b[f[q] + 1] = Flip(r[q])
  <2>1. b[q] = ESC /\ b[q + 1] = Flip(r[q]) /\ f[q + 1] = q + 2
    BY <1>1, <1>7
  <2>2. ASSUME NEW k \in q + 1 .. m + 1
        PROVE  f[k] \in Nat /\ f[k] >= q + 2 /\ f[k] <= l + 1
    <3>1. q + 1 \in Nat /\ m + 1 \in Nat
      OBVIOUS
    <3>2. f[q + 1] <= f[k] /\ f[k] <= f[m + 1] /\ f[k] \in Nat
      BY <1>1, <1>5, <3>1, RisesTo
    <3> QED BY <1>1, <2>1, <3>2
  <2>3. q < l
    <3>1. q + 1 \in q + 1 .. m + 1
      BY <1>4
    <3> QED BY <1>2, <2>1, <2>2, <3>1
  <2> DEFINE c == Stripped(b, q)
             g == [k \in Nat |-> IF k \in q + 1 .. m + 1 THEN f[k] - 1 ELSE 0]
  <2>4. /\ c \in Seq(Byte) /\ Len(c) = l - 1
        /\ \A i \in 1 .. q - 1 : c[i] = b[i]
        /\ c[q] = Flip(b[q + 1])
        /\ \A i \in q + 2 .. l : c[i - 1] = b[i]
    BY <1>3, <2>3, StrippedBytes DEF l
  <2>5. g \in [Nat -> Nat] /\ \A k \in q + 1 .. m + 1 : g[k] = f[k] - 1
    <3>1. \A k \in q + 1 .. m + 1 : k \in Nat /\ f[k] - 1 \in Nat
      BY <2>2
    <3> QED BY <3>1
  <2> HIDE DEF c, g
  <2>6. c[q] = r[q]
    BY <1>4, <2>1, <2>4, FlipTwice
  <2>7. ASSUME NEW k \in 1 .. (q + 1) - 1 PROVE c[k] = r[k]
    <3>1. k = q \/ k \in 1 .. q - 1
      OBVIOUS
    <3> QED BY <1>1, <2>4, <2>6, <3>1
  <2>8. q + 1 <= m + 1 /\ g[q + 1] = q + 1 /\ g[m + 1] = Len(c) + 1
    <3>1. q + 1 \in q + 1 .. m + 1 /\ m + 1 \in q + 1 .. m + 1
      BY <1>4
    <3>2. g[q + 1] = (q + 2) - 1 /\ g[m + 1] = (l + 1) - 1
      BY <1>1, <2>1, <2>5, <3>1
    <3> QED BY <1>2, <1>4, <2>4, <3>2
  <2>9. Rising(g, q + 1, m + 1)
    <3> SUFFICES ASSUME NEW i \in q + 1 .. m + 1, NEW k \in q + 1 .. m + 1, i < k
                 PROVE  g[i] < g[k]
      BY DEF Rising
    <3>1. f[i] < f[k] /\ f[i] \in Nat /\ f[k] \in Nat
      BY <1>5, <2>2 DEF Rising
    <3>2. g[i] = f[i] - 1 /\ g[k] = f[k] - 1
      BY <2>5
    <3> QED BY <3>1, <3>2
  <2>10. ASSUME NEW k \in q + 1 .. m PROVE Placed(c, r, g, k)
    <3>1. k \in q + 1 .. m + 1 /\ k + 1 \in q + 1 .. m + 1 /\ k < k + 1
      OBVIOUS
    <3>2. /\ f[k] \in Nat /\ f[k] >= q + 2 /\ f[k + 1] \in Nat /\ f[k + 1] <= l + 1
          /\ f[k] < f[k + 1]
      BY <1>5, <2>2, <3>1 DEF Rising
    <3>3. g[k] = f[k] - 1 /\ g[k + 1] = f[k + 1] - 1
      BY <2>5, <3>1
    <3>4. Placed(b, r, f, k)
      BY <1>5
    <3>5. c[g[k]] = b[f[k]]
      <4>1. f[k] \in q + 2 .. l
        BY <1>2, <3>2
      <4> QED BY <2>4, <3>3, <4>1
    <3>6. CASE f[k + 1] = f[k] + 1
      <4>1. g[k + 1] = g[k] + 1
        BY <3>2, <3>3, <3>6
      <4>2. b[f[k]] = r[k] /\ r[k] # ESC
        BY <3>2, <3>4, <3>6 DEF Placed
      <4> QED BY <3>5, <4>1, <4>2 DEF Placed
    <3>7. CASE f[k + 1] = f[k] + 2
      <4>1. g[k + 1] = g[k] + 2
        BY <3>2, <3>3, <3>7
      <4>2. b[f[k]] = ESC /\ b[f[k] + 1] = Flip(r[k])
        BY <3>2, <3>4, <3>7 DEF Placed
      <4>3. f[k] + 1 \in q + 2 .. l /\ (f[k] + 1) - 1 = g[k] + 1
        BY <1>2, <3>2, <3>3, <3>7, SMTT(30)
      <4>4. c[g[k] + 1] = b[f[k] + 1]
        BY <2>4, <4>3
      <4> QED BY <3>5, <4>1, <4>2, <4>4 DEF Placed
    <3> QED BY <3>4, <3>6, <3>7 DEF Placed
  <2>11. PartlyStripped(c, r, m, q + 1, g)
    BY <2>5, <2>7, <2>8, <2>9, <2>10 DEF PartlyStripped
  <2> QED BY <2>1, <2>11 DEF c
<1> QED BY <1>1, <1>4, <1>6, <1>7 DEF Placed

\* After the last round of strip_escapes the buffer is the raw bytes again.
LEMMA StrippingEnds ==
  ASSUME NEW b \in Seq(Byte), NEW r, NEW m \in Nat, NEW q \in Nat, q > Len(b), NEW f,
         PartlyStripped(b, r, m, q, f)
  PROVE  Len(b) = m /\ \A k \in 1 .. m : b[k] = r[k]
<1> DEFINE l == Len(b)
<1>1. /\ f \in [Nat -> Nat] /\ q <= m + 1 /\ f[q] = q /\ Rising(f, q, m + 1)
      /\ \A k \in 1 .. q - 1 : b[k] = r[k]
      /\ f[m + 1] = l + 1
  BY DEF PartlyStripped
<1>2. l \in Nat /\ l < q
  BY LenProperties
<1> HIDE DEF l
<1>3. q = m + 1
  <2> SUFFICES ASSUME q < m + 1 PROVE FALSE
    BY <1>1
  <2>1. q \in q .. m + 1 /\ m + 1 \in q .. m + 1
    OBVIOUS
  <2>2. f[q] < f[m + 1]
    BY <1>1, <2>1 DEF Rising
  <2> QED BY <1>1, <1>2, <2>2
<1>4. l = m
  BY <1>1, <1>2, <1>3
<1>5. \A k \in 1 .. m : k \in 1 .. q - 1
  BY <1>3
<1> QED BY <1>1, <1>4, <1>5 DEF l

----------------------------------------------------------------------------
(* The receiver reads back what was sent.                                  *)

\* What is to be sent before anything is escaped.
Raw(p) == (Frame(p) \o Fcs(Tail(Frame(p)))) \o <<START>>

LEMMA RawBytes ==
  ASSUME NEW p \in Packets
  PROVE  /\ Raw(p) \in Seq(Byte) /\ Len(Raw(p)) = Len(Frame(p)) + 3
         /\ \A k \in 1 .. Len(Frame(p)) : Raw(p)[k] = Frame(p)[k]
         /\ Raw(p)[Len(Frame(p)) + 1] = Fcs(Tail(Frame(p)))[1]
         /\ Raw(p)[Len(Frame(p)) + 2] = Fcs(Tail(Frame(p)))[2]
         /\ Raw(p)[Len(Frame(p)) + 3] = START
         /\ Raw(p)[1] = START
<1> DEFINE t == Frame(p)
           c == Fcs(Tail(t))
           e == <<START>>
           tc == t \o c
           all == tc \o e
           l == Len(t)
<1>1. t \in Seq(Byte) /\ l \in Nat /\ 29 <= l /\ t[1] = START
  BY FrameType
<1>2. c \in Seq(Byte) /\ Len(c) = 2
  BY ChecksumType
<1>3. e \in Seq(Byte) /\ Len(e) = 1 /\ e[1] = START
  BY DEF START, Byte
<1>4. Raw(p) = all
  BY DEF Raw
<1> HIDE DEF t, c, e
<1>5. /\ tc \in Seq(Byte) /\ Len(tc) = Len(t) + Len(c)
      /\ \A i \in 1 .. Len(t) + Len(c) : tc[i] = IF i <= Len(t) THEN t[i] ELSE c[i - Len(t)]
  BY <1>1, <1>2, ConcatProperties
<1> HIDE DEF tc
<1>6. /\ all \in Seq(Byte) /\ Len(all) = Len(tc) + Len(e)
      /\ \A i \in 1 .. Len(tc) + Len(e) :
           all[i] = IF i <= Len(tc) THEN tc[i] ELSE e[i - Len(tc)]
  BY <1>3, <1>5, ConcatProperties, SMTT(30)
<1> HIDE DEF all
<1>7. Len(tc) = l + 2 /\ Len(all) = l + 3
  BY <1>2, <1>3, <1>5, <1>6
<1> HIDE DEF l
<1>8. \A i \in 1 .. l + 2 : all[i] = tc[i]
  BY <1>1, <1>3, <1>6, <1>7
<1>9. \A i \in 1 .. l : all[i] = t[i]
  BY <1>1, <1>2, <1>5, <1>8 DEF l
<1>10. all[l + 1] = c[1] /\ all[l + 2] = c[2]
  <2>1. /\ l + 1 \in 1 .. l + 2 /\ l + 2 \in 1 .. l + 2
        /\ ~(l + 1 <= l) /\ ~(l + 2 <= l) /\ (l + 1) - l = 1 /\ (l + 2) - l = 2
    BY <1>1
  <2>2. \A i \in 1 .. l + 2 : tc[i] = IF i <= l THEN t[i] ELSE c[i - l]
    BY <1>2, <1>5 DEF l
  <2> QED BY <1>8, <2>1, <2>2
<1>11. all[l + 3] = START
  <2>1. l + 3 \in 1 .. (l + 2) + 1 /\ ~(l + 3 <= l + 2) /\ (l + 3) - (l + 2) = 1
    BY <1>1
  <2> QED BY <1>3, <1>6, <1>7, <2>1
<1>12. all[1] = START
  <2>1. 1 \in 1 .. l
    BY <1>1
  <2> QED BY <1>1, <1>9, <2>1
<1> QED BY <1>4, <1>6, <1>7, <1>9, <1>10, <1>11, <1>12 DEF t, c, l

\* The receiver finds the fields of a packet in its frame.
LEMMA FrameFields ==
  ASSUME NEW p \in Packets
  PROVE  Fields(Frame(p)) = Meaning(p)
<1> DEFINE t == Frame(p)
           d == Dest(p)
           s == Source(p)
<1>1. /\ t \in Seq(Byte) /\ Len(t) = 28 + Len(p.content)
      /\ \A i \in 1 .. 28 : t[i] = Head28(p)[i]
      /\ \A i \in 1 .. Len(p.content) : t[28 + i] = p.content[i]
  BY FrameType
<1>2. p \in Layouts /\ p.content \in Seq(Byte) /\ Len(p.content) \in Nat
      /\ Len(p.content) >= 1
  <2>1. p \in Layouts /\ Len(t) \in Nat /\ 29 <= Len(t)
    BY FrameType, ConstantsAssumption
  <2>2. p.content \in Seq(Byte)
    BY <2>1 DEF Layouts
  <2> DEFINE n == Len(p.content)
  <2>3. n \in Nat
    BY <2>2, LenProperties
  <2>4. Len(t) = 28 + n
    BY <1>1
  <2> HIDE DEF t, n
  <2>5. n >= 1
    BY <2>1, <2>3, <2>4
  <2> QED BY <2>1, <2>2, <2>3, <2>5 DEF n
<1>3. d \in Address /\ s \in Address
  BY <1>2, HeadType
<1>4. /\ t[6] = p.ctrl1 /\ t[7] = p.ctrl2 /\ t[14] = p.archcd /\ t[15] = p.zero
      /\ t[23] = p.c
      /\ t[8] = d[6] /\ t[9] = d[5] /\ t[10] = d[4] /\ t[11] = d[3] /\ t[12] = d[2]
      /\ t[13] = d[1]
      /\ t[16] = s[6] /\ t[17] = s[5] /\ t[18] = s[4] /\ t[19] = s[3] /\ t[20] = s[2]
      /\ t[21] = s[1]
  BY <1>1 DEF Head28
<1> DEFINE n == Len(p.content)
           u == p.content
           body == SubSeq(t, 30, Len(t))
<1>5. body = Tail(u)
  <2>1. Len(t) = 28 + n /\ n \in Nat /\ n >= 1 /\ u \in Seq(Byte) /\ u # <<>>
    <3>1. Len(t) = 28 + n
      BY <1>1
    <3>2. n \in Nat /\ n >= 1 /\ u \in Seq(Byte)
      BY <1>2
    <3>3. u # <<>>
      BY <3>2, EmptySeq
    <3> QED BY <3>1, <3>2, <3>3
  <2>2. Tail(u) \in Seq(Byte) /\ Len(Tail(u)) = n - 1
        /\ \A i \in 1 .. n - 1 : Tail(u)[i] = u[i + 1]
    BY <2>1, HeadTailProperties
  <2>3. \A i \in 30 .. Len(t) : t[i] \in Byte
    <3>1. \A i \in 1 .. Len(t) : t[i] \in Byte
      BY <1>1, ElementOfSeq
    <3> QED BY <2>1, <3>1
  <2>4. /\ body \in Seq(Byte)
        /\ Len(body) = IF 30 <= Len(t) THEN Len(t) - 30 + 1 ELSE 0
        /\ \A i \in 1 .. Len(t) - 30 + 1 : body[i] = t[30 + i - 1]
    <3> DEFINE e == Len(t)
    <3>1. e \in Int /\ 30 \in Int /\ \A i \in 30 .. e : t[i] \in Byte
      BY <2>1, <2>3
    <3> HIDE DEF t, e
    <3>2. /\ SubSeq(t, 30, e) \in Seq(Byte)
          /\ Len(SubSeq(t, 30, e)) = IF 30 <= e THEN e - 30 + 1 ELSE 0
          /\ \A i \in 1 .. e - 30 + 1 : SubSeq(t, 30, e)[i] = t[30 + i - 1]
      BY <3>1, SubSeqProperties
    <3> QED BY <3>2 DEF e
  <2>5. \A i \in 1 .. n : t[28 + i] = u[i]
    BY <1>1
  <2> HIDE DEF t, n, u, body
  <2>6. Len(body) = n - 1
    BY <2>1, <2>4
  <2>7. ASSUME NEW i \in 1 .. n - 1 PROVE body[i] = Tail(u)[i]
    <3>1. i \in 1 .. Len(t) - 30 + 1 /\ i + 1 \in 1 .. n /\ 30 + i - 1 = 28 + (i + 1)
      BY <2>1
    <3> QED BY <2>2, <2>4, <2>5, <3>1
  <2> QED BY <2>1, <2>2, <2>4, <2>6, <2>7, SeqEqual
<1> HIDE DEF t, d, s
<1>6. [k \in 1 .. 6 |-> t[14 - k]] = d
  <2>1. \A k \in 1 .. 6 : t[14 - k] = d[k]
    BY <1>4
  <2> QED BY <1>3, <2>1 DEF Address
<1>7. [k \in 1 .. 6 |-> t[22 - k]] = s
  <2>1. \A k \in 1 .. 6 : t[22 - k] = s[k]
    BY <1>4
  <2> QED BY <1>3, <2>1 DEF Address
<1>8. Fields(t) =
        [ctrl1 |-> p.ctrl1, ctrl2 |-> p.ctrl2, dest |-> d, archcd |-> p.archcd,
         zero |-> p.zero, src |-> s, c |-> p.c, content |-> Tail(u)]
  BY <1>4, <1>5, <1>6, <1>7 DEF Fields
<1> QED BY <1>8 DEF Meaning, t, d, s

\* Where the bytes of the packet are, in each phase.  The two numbers are
\* those of the raw bytes up to the checksum and up to the trailer.
Escaped1 ==
  \E n \in Nat : \E f : 1 <= n /\ n <= Len(Frame(packet))
    /\ PartlyEscaped(buffer, Raw(packet), Len(Frame(packet)), pos, n, f)
Escaped2 ==
  \E n \in Nat : \E f : 1 <= n /\ n <= Len(Frame(packet)) + 2
    /\ PartlyEscaped(buffer, Raw(packet), Len(Frame(packet)) + 2, pos, n, f)
Escaped3 ==
  \E f : WhollyEscaped(buffer, Raw(packet), Len(Frame(packet)) + 3, f)
Stripped3 ==
  \E f : PartlyStripped(buffer, Raw(packet), Len(Frame(packet)) + 3, pos, f)

\* A packet on its way from the one end to the other that meets neither damage
\* nor the fault of AppendChecksum.
Undisturbed == ~damaged /\ checksum[1] # ESC

InPlace ==
  /\ pc = "escape" => pos >= 2 /\ Escaped1
  /\ pc = "escapeChecksum" => pos >= 2 /\ Escaped2
  /\ pc = "sent" => Escaped3
  /\ pc = "strip" => Stripped3
  /\ pc \in Ends => pc = "accepted" /\ recv = Meaning(packet)

RInv ==
  /\ pc # "idle" => checksum = Fcs(Tail(Frame(packet)))
  /\ Undisturbed => InPlace

LEMMA StepGenerate ==
  ASSUME LengthInv, Generate
  PROVE  RInv'
<1> DEFINE r == Raw(packet)
           l == Len(Frame(packet))
           f == [k \in Nat |-> k]
           b == Frame(packet)
<1>1. /\ pc' = "escape" /\ buffer' = b /\ packet' = packet /\ pos' = 2
      /\ checksum' = Fcs(Tail(Frame(packet)))
  BY DEF Generate
<1>2. /\ packet \in Packets /\ l \in Nat /\ l >= 29 /\ b[1] = START
      /\ r[1] = START /\ \A k \in 1 .. l : r[k] = b[k]
  BY FrameType, RawBytes DEF LengthInv
<1>3. PartlyEscaped(b, r, l, 2, 1, f)
  <2>1. /\ f \in [Nat -> Nat] /\ f[1] = 1 /\ f[2] = 2 /\ \A k \in Nat : f[k] = k
    OBVIOUS
  <2>2. l = Len(b)
    OBVIOUS
  <2> HIDE DEF f, r, b, l
  <2>3. Rising(f, 1, 2)
    BY <2>1 DEF Rising
  <2>4. ASSUME NEW k \in 1 .. 1 PROVE Placed(b, r, f, k)
    <3>1. k = 1
      OBVIOUS
    <3> QED BY <1>2, <2>1, <3>1 DEF Placed, START, ESC
  <2>5. ASSUME NEW j \in 1 + 1 .. l PROVE b[2 + (j - 1 - 1)] = r[j]
    <3>1. 2 + (j - 1 - 1) = j /\ j \in 1 .. l
      OBVIOUS
    <3> QED BY <1>2, <3>1
  <2>6. 1 + 1 = 2 /\ 2 + (l - 1) = Len(b) + 1
    BY <1>2, <2>2
  <2> QED BY <2>1, <2>3, <2>4, <2>5, <2>6 DEF PartlyEscaped
<1>4. Escaped1'
  BY <1>1, <1>2, <1>3 DEF Escaped1
<1> QED BY <1>1, <1>4 DEF RInv, InPlace, Ends

LEMMA StepEscapeByte ==
  ASSUME LengthInv, RInv, EscapeByte
  PROVE  RInv'
<1> DEFINE r == Raw(packet)
           l == Len(Frame(packet))
<1>1. /\ pc \in Escaping /\ pos <= Len(buffer) /\ pos \in Nat /\ buffer \in Seq(Byte)
      /\ l \in Nat /\ l >= 29
  BY FrameType DEF LengthInv, EscapeByte
<1>2. /\ buffer' = IF buffer[pos] \in Special THEN Escaped(buffer, pos) ELSE buffer
      /\ pos' = pos + 1
      /\ UNCHANGED <<pc, packet, checksum, damaged, recv>>
  BY DEF EscapeByte
<1>3. checksum' = Fcs(Tail(Frame(packet')))
  BY <1>1, <1>2 DEF RInv, Escaping
<1> SUFFICES ASSUME Undisturbed PROVE InPlace'
  BY <1>2, <1>3 DEF RInv, Undisturbed
<1>4. InPlace
  BY DEF RInv
<1>5. CASE pc = "escape"
  <2>1. pos >= 2 /\ Escaped1
    BY <1>4, <1>5 DEF InPlace
  <2>b. PICK n \in Nat : \E f : 1 <= n /\ n <= l /\ PartlyEscaped(buffer, r, l, pos, n, f)
    BY <2>1 DEF Escaped1
  <2>2. PICK f : 1 <= n /\ n <= l /\ PartlyEscaped(buffer, r, l, pos, n, f)
    BY <2>b
  <2> HIDE DEF r, l
  <2>3. \E nn \in Nat : \E g :
          1 <= nn /\ nn <= l /\ PartlyEscaped(buffer', r, l, pos', nn, g)
    BY <1>1, <1>2, <2>1, <2>2, EscapeRound
  <2>4. Escaped1'
    BY <1>2, <2>3 DEF Escaped1, r, l
  <2>5. pos' >= 2 /\ pc' = "escape"
    BY <1>1, <1>2, <1>5, <2>1
  <2> QED BY <2>4, <2>5 DEF InPlace, Ends
<1>6. CASE pc = "escapeChecksum"
  <2> DEFINE m == l + 2
  <2>1. pos >= 2 /\ Escaped2
    BY <1>4, <1>6 DEF InPlace
  <2>b. PICK n \in Nat : \E f : 1 <= n /\ n <= m /\ PartlyEscaped(buffer, r, m, pos, n, f)
    BY <2>1 DEF Escaped2
  <2>2. PICK f : 1 <= n /\ n <= m /\ PartlyEscaped(buffer, r, m, pos, n, f)
    BY <2>b
  <2>a. m \in Nat
    BY <1>1
  <2> HIDE DEF r, l, m
  <2>3. \E nn \in Nat : \E g :
          1 <= nn /\ nn <= m /\ PartlyEscaped(buffer', r, m, pos', nn, g)
    BY <1>1, <1>2, <2>a, <2>1, <2>2, EscapeRound
  <2>4. Escaped2'
    BY <1>2, <2>3 DEF Escaped2, r, l, m
  <2>5. pos' >= 2 /\ pc' = "escapeChecksum"
    BY <1>1, <1>2, <1>6, <2>1
  <2> QED BY <2>4, <2>5 DEF InPlace, Ends
<1> QED BY <1>1, <1>5, <1>6 DEF Escaping

LEMMA StepAppendChecksum ==
  ASSUME LengthInv, RInv, AppendChecksum
  PROVE  RInv'
<1> DEFINE r == Raw(packet)
           l == Len(Frame(packet))
           b1 == Append(buffer, r[l + 1])
           b2 == Append(b1, r[l + 2])
<1>1. /\ pc = "escape" /\ pos > Len(buffer) /\ pos <= Len(buffer) + 1
      /\ pos \in Nat /\ buffer \in Seq(Byte)
      /\ checksum \in Seq(Byte) /\ Len(checksum) = 2
  BY DEF LengthInv, AppendChecksum, Escaping
<1>2. /\ packet \in Packets /\ l \in Nat /\ l >= 29
  BY FrameType DEF LengthInv
<1>3. /\ buffer' = buffer \o checksum /\ pos' = Len(buffer) + 2
      /\ pc' = "escapeChecksum" /\ UNCHANGED <<packet, checksum, damaged, recv>>
  BY DEF AppendChecksum
<1>4. checksum = Fcs(Tail(Frame(packet)))
  BY <1>1 DEF RInv
<1> SUFFICES ASSUME Undisturbed PROVE InPlace'
  BY <1>3, <1>4 DEF RInv, Undisturbed
<1>5. Escaped1
  BY <1>1 DEF RInv, InPlace
<1>a. PICK n \in Nat : \E f : 1 <= n /\ n <= l /\ PartlyEscaped(buffer, r, l, pos, n, f)
  BY <1>5 DEF Escaped1
<1>6. PICK f : 1 <= n /\ n <= l /\ PartlyEscaped(buffer, r, l, pos, n, f)
  BY <1>a
<1>7. r[l + 1] = checksum[1] /\ r[l + 2] = checksum[2]
  BY <1>2, <1>4, RawBytes
<1>8. checksum[1] \in Byte /\ checksum[2] \in Byte /\ checksum[1] # ESC
  <2>1. 1 \in 1 .. Len(checksum) /\ 2 \in 1 .. Len(checksum)
    BY <1>1
  <2> QED BY <1>1, <2>1, ElementOfSeq DEF Undisturbed
<1> HIDE DEF r, l
<1>9. WhollyEscaped(buffer, r, l, f)
  BY <1>1, <1>2, <1>6, EscapingEnds
<1>10. /\ b1 \in Seq(Byte) /\ Len(b1) = Len(buffer) + 1
       /\ \E g : WhollyEscaped(b1, r, l + 1, g)
  <2>1. l >= 1 /\ r[l + 1] \in Byte /\ r[l + 1] # ESC
    BY <1>2, <1>7, <1>8
  <2> QED BY <1>1, <1>2, <1>9, <2>1, OneMoreByte
<1>11. PICK g : WhollyEscaped(b1, r, l + 1, g)
  BY <1>10
<1>12. buffer' = b2
  <2>1. checksum = <<checksum[1], checksum[2]>>
    BY <1>1
  <2>2. checksum = <<r[l + 1], r[l + 2]>>
    BY <1>7, <2>1
  <2> DEFINE x == r[l + 1]
             y == r[l + 2]
  <2>3. x \in Byte /\ y \in Byte /\ buffer' = buffer \o <<x, y>>
    BY <1>3, <1>7, <1>8, <2>2
  <2> HIDE DEF x, y
  <2>4. buffer \o <<x, y>> = Append(Append(buffer, x), y)
    BY <1>1, <2>3
  <2> QED BY <2>3, <2>4 DEF x, y
<1>13. /\ b2 \in Seq(Byte) /\ Len(b2) = Len(b1) + 1 /\ b2[Len(b1) + 1] = r[l + 2]
       /\ \A i \in 1 .. Len(b1) : b2[i] = b1[i]
  <2>1. r[l + 2] \in Byte
    BY <1>7, <1>8
  <2> HIDE DEF b1
  <2> QED BY <1>10, <2>1, AppendProperties
<1>14. /\ g \in [Nat -> Nat] /\ g[1] = 1 /\ g[2] = 2 /\ Rising(g, 1, l + 2)
       /\ \A k \in 1 .. l + 1 : Placed(b1, r, g, k)
       /\ g[l + 2] = Len(b1) + 1
  <2>1. (l + 1) + 1 = l + 2
    BY <1>2
  <2> QED BY <1>11, <2>1 DEF WhollyEscaped
<1> DEFINE h == Len(b1)
<1>15. h \in Nat /\ g[l + 2] = h + 1 /\ Len(buffer) + 2 = h + 1 /\ Len(b2) = h + 1
  <2>1. Len(buffer) \in Nat
    BY <1>1, LenProperties
  <2> QED BY <1>10, <1>13, <1>14, <2>1
<1> HIDE DEF b1, b2, h
<1>16. ASSUME NEW k \in 1 .. l + 1 PROVE Placed(b2, r, g, k)
  <2>1. /\ k \in Nat \ {0} /\ k \in 1 .. l + 2 /\ k + 1 \in 1 .. l + 2
        /\ 1 \in Nat /\ l + 2 \in Nat
    BY <1>2
  <2>2. g[1] <= g[k] /\ g[k + 1] <= g[l + 2] /\ g[k] \in Nat
    BY <1>14, <2>1, RisesTo
  <2>3. g[k] >= 1 /\ g[k + 1] <= h + 1
    BY <1>14, <1>15, <2>2
  <2>4. h + 1 \in Nat /\ \A i \in 1 .. (h + 1) - 1 : b2[i] = b1[i]
    BY <1>13, <1>15 DEF h
  <2>5. Placed(b1, r, g, k)
    BY <1>14
  <2> QED BY <1>14, <2>1, <2>3, <2>4, <2>5, StaysPlaced
<1>17. PartlyEscaped(b2, r, l + 2, h + 1, l + 1, g)
  <2>1. (l + 1) + 1 = l + 2 /\ g[l + 2] + ((l + 2) - (l + 1)) = Len(b2) + 1
    BY <1>2, <1>15
  <2>2. ASSUME NEW j \in (l + 1) + 1 .. l + 2
        PROVE  b2[g[l + 2] + (j - (l + 1) - 1)] = r[j]
    <3>1. j = l + 2 /\ g[l + 2] + (j - (l + 1) - 1) = h + 1
      BY <1>2, <1>15
    <3> QED BY <1>13, <3>1 DEF h
  <2> QED BY <1>14, <1>15, <1>16, <2>1, <2>2 DEF PartlyEscaped
<1>18. Escaped2'
  <2>1. PartlyEscaped(buffer', r, l + 2, pos', l + 1, g)
    BY <1>3, <1>12, <1>15, <1>17
  <2>2. l + 1 \in Nat /\ 1 <= l + 1 /\ l + 1 <= l + 2
    BY <1>2
  <2> QED BY <1>3, <2>1, <2>2 DEF Escaped2, r, l
<1>19. pos' >= 2
  BY <1>1, <1>3, LenProperties
<1> QED BY <1>3, <1>18, <1>19 DEF InPlace, Ends

LEMMA StepAppendTrailer ==
  ASSUME LengthInv, RInv, AppendTrailer
  PROVE  RInv'
<1> DEFINE r == Raw(packet)
           l == Len(Frame(packet))
           m == l + 2
<1>1. /\ pc = "escapeChecksum" /\ pos > Len(buffer) /\ pos <= Len(buffer) + 1
      /\ pos \in Nat /\ buffer \in Seq(Byte)
  BY DEF LengthInv, AppendTrailer, Escaping
<1>2. /\ packet \in Packets /\ l \in Nat /\ l >= 29 /\ m \in Nat /\ m >= 1
  <2>1. packet \in Packets
    BY DEF LengthInv
  <2>2. l \in Nat /\ l >= 29
    BY <2>1, FrameType
  <2> HIDE DEF l
  <2> QED BY <2>1, <2>2
<1>3. /\ buffer' = Append(buffer, START)
      /\ pc' = "sent" /\ UNCHANGED <<packet, checksum, damaged, recv>>
  BY DEF AppendTrailer
<1>4. checksum' = Fcs(Tail(Frame(packet')))
  BY <1>1, <1>3 DEF RInv
<1> SUFFICES ASSUME Undisturbed PROVE InPlace'
  BY <1>3, <1>4 DEF RInv, Undisturbed
<1>5. Escaped2
  BY <1>1 DEF RInv, InPlace
<1>a. PICK n \in Nat : \E f : 1 <= n /\ n <= m /\ PartlyEscaped(buffer, r, m, pos, n, f)
  BY <1>5 DEF Escaped2
<1>6. PICK f : 1 <= n /\ n <= m /\ PartlyEscaped(buffer, r, m, pos, n, f)
  BY <1>a
<1>7. r[m + 1] = START /\ START \in Byte /\ START # ESC
  <2>1. m + 1 = l + 3 /\ r[l + 3] = START
    BY <1>2, RawBytes
  <2> QED BY <2>1 DEF START, ESC, Byte
<1> HIDE DEF r, l, m
<1>8. WhollyEscaped(buffer, r, m, f)
  BY <1>1, <1>2, <1>6, EscapingEnds
<1>9. \E g : WhollyEscaped(Append(buffer, r[m + 1]), r, m + 1, g)
  BY <1>1, <1>2, <1>7, <1>8, OneMoreByte
<1>10. Escaped3'
  <2>1. m + 1 = l + 3
    BY <1>2 DEF m
  <2> QED BY <1>3, <1>7, <1>9, <2>1 DEF Escaped3, r, l
<1> QED BY <1>3, <1>10 DEF InPlace, Ends

LEMMA StepReceive ==
  ASSUME LengthInv, RInv, Receive
  PROVE  RInv'
<1> DEFINE r == Raw(packet)
           m == Len(Frame(packet)) + 3
<1>1. /\ pc = "sent" /\ pc' = "strip" /\ pos' = 2
      /\ UNCHANGED <<packet, checksum, buffer, damaged, recv>>
  BY DEF Receive
<1>2. checksum' = Fcs(Tail(Frame(packet')))
  BY <1>1 DEF RInv
<1> SUFFICES ASSUME Undisturbed PROVE InPlace'
  BY <1>1, <1>2 DEF RInv, Undisturbed
<1>3. m \in Nat /\ m >= 2
  <2> DEFINE l == Len(Frame(packet))
  <2>1. packet \in Packets
    BY DEF LengthInv
  <2>2. l \in Nat
    BY <2>1, FrameType
  <2> HIDE DEF l
  <2>3. l + 3 \in Nat /\ l + 3 >= 2
    BY <2>2
  <2> QED BY <2>3 DEF l
<1>4. PICK f : WhollyEscaped(buffer, r, m, f)
  BY <1>1 DEF RInv, InPlace, Escaped3
<1> HIDE DEF r, m
<1>5. PartlyStripped(buffer, r, m, 2, f)
  BY <1>3, <1>4, StrippingStarts
<1>6. Stripped3'
  BY <1>1, <1>5 DEF Stripped3, r, m
<1> QED BY <1>1, <1>6 DEF InPlace, Ends

LEMMA StepStripByte ==
  ASSUME LengthInv, RInv, StripByte
  PROVE  RInv'
<1> DEFINE r == Raw(packet)
           m == Len(Frame(packet)) + 3
<1>1. /\ pc = "strip" /\ pos <= Len(buffer) /\ pos' = pos + 1
      /\ buffer' = IF buffer[pos] = ESC THEN Stripped(buffer, pos) ELSE buffer
      /\ UNCHANGED <<pc, packet, checksum, damaged, recv>>
  BY DEF StripByte
<1>2. checksum' = Fcs(Tail(Frame(packet')))
  BY <1>1 DEF RInv
<1> SUFFICES ASSUME Undisturbed PROVE InPlace'
  BY <1>1, <1>2 DEF RInv, Undisturbed
<1>3. m \in Nat /\ \A k \in 1 .. m : r[k] \in Byte
  <2>1. packet \in Packets
    BY DEF LengthInv
  <2>2. r \in Seq(Byte) /\ Len(r) = m
    BY <2>1, RawBytes
  <2>3. Len(Frame(packet)) \in Nat
    BY <2>1, FrameType
  <2> HIDE DEF r
  <2> QED BY <2>2, <2>3, ElementOfSeq
<1>4. PICK f : PartlyStripped(buffer, r, m, pos, f)
  BY <1>1 DEF RInv, InPlace, Stripped3
<1> HIDE DEF r, m
<1>5. \E g : PartlyStripped(IF buffer[pos] = ESC THEN Stripped(buffer, pos) ELSE buffer,
                            r, m, pos + 1, g)
  <2>1. buffer \in Seq(Byte) /\ pos \in Nat \ {0}
    BY DEF LengthInv
  <2> QED BY <1>1, <1>3, <1>4, <2>1, StripRound
<1>6. Stripped3'
  BY <1>1, <1>5 DEF Stripped3, r, m
<1> QED BY <1>1, <1>6 DEF InPlace, Ends

\* The bytes that a buffer begins with, with and without the first of them.
LEMMA FrontOf ==
  ASSUME NEW b \in Seq(Byte), NEW t \in Seq(Byte), NEW l, l = Len(t), l >= 2,
         \A k \in 1 .. l : b[k] = t[k]
  PROVE  SubSeq(b, 1, l) = t /\ SubSeq(b, 2, l) = Tail(t)
<1>1. /\ t \in Seq(Byte) /\ l \in Nat /\ l >= 2 /\ l = Len(t)
      /\ \A k \in 1 .. l : b[k] = t[k] /\ t[k] \in Byte
  BY LenProperties, ElementOfSeq
<1>2. SubSeq(b, 1, l) = t
  <2> DEFINE x == SubSeq(b, 1, l)
  <2>1. /\ x \in Seq(Byte) /\ Len(x) = IF 1 <= l THEN l - 1 + 1 ELSE 0
        /\ \A i \in 1 .. l - 1 + 1 : x[i] = b[1 + i - 1]
    <3>1. 1 \in Int /\ l \in Int /\ \A k \in 1 .. l : b[k] \in Byte
      BY <1>1
    <3> QED BY <3>1, SubSeqProperties
  <2> HIDE DEF x
  <2>2. Len(x) = l
    BY <1>1, <2>1
  <2>3. ASSUME NEW i \in 1 .. l PROVE x[i] = t[i]
    <3>1. i \in 1 .. l - 1 + 1 /\ 1 + i - 1 = i
      BY <1>1
    <3> QED BY <1>1, <2>1, <3>1
  <2>4. Len(x) = Len(t) /\ \A i \in 1 .. Len(x) : x[i] = t[i]
    BY <2>2, <2>3
  <2>5. x = t
    BY <1>1, <2>1, <2>4, SeqEqual
  <2> QED BY <2>5 DEF x
<1>3. SubSeq(b, 2, l) = Tail(t)
  <2> DEFINE x == SubSeq(b, 2, l)
  <2>1. /\ x \in Seq(Byte) /\ Len(x) = IF 2 <= l THEN l - 2 + 1 ELSE 0
        /\ \A i \in 1 .. l - 2 + 1 : x[i] = b[2 + i - 1]
    <3>1. 2 \in Int /\ l \in Int /\ \A k \in 2 .. l : b[k] \in Byte
      BY <1>1
    <3> QED BY <3>1, SubSeqProperties
  <2>2. /\ Tail(t) \in Seq(Byte) /\ Len(Tail(t)) = Len(t) - 1
        /\ \A i \in 1 .. Len(Tail(t)) : Tail(t)[i] = t[i + 1]
    <3>1. t # <<>>
      BY <1>1, EmptySeq
    <3> QED BY <1>1, <3>1, HeadTailProperties
  <2> DEFINE y == Tail(t)
  <2> HIDE DEF x, y
  <2>3. Len(x) = l - 1 /\ Len(y) = l - 1
    <3>1. Len(x) = l - 1
      BY <1>1, <2>1
    <3>2. Len(y) = l - 1
      BY <2>2 DEF y
    <3> QED BY <3>1, <3>2
  <2>4. ASSUME NEW i \in 1 .. l - 1 PROVE x[i] = y[i]
    <3>1. /\ i \in 1 .. l - 2 + 1 /\ 2 + i - 1 = i + 1 /\ i + 1 \in 1 .. l
          /\ i \in 1 .. Len(y)
      BY <1>1, <2>3
    <3> QED BY <1>1, <2>1, <2>2, <3>1 DEF y
  <2>5. x = y
    <3>1. x \in Seq(Byte) /\ y \in Seq(Byte)
      BY <2>1, <2>2 DEF y
    <3>2. Len(x) = Len(y) /\ \A i \in 1 .. Len(x) : x[i] = y[i]
      BY <2>3, <2>4
    <3> QED BY <3>1, <3>2, SeqEqual
  <2> QED BY <2>5 DEF x, y
<1> QED BY <1>2, <1>3

\* What packet_read finds once nothing is escaped any more.
LEMMA NothingLost ==
  ASSUME LengthInv, RInv, Undisturbed, pc = "strip", pos > Len(buffer)
  PROVE  FcsAgrees /\ Fields(SubSeq(buffer, 1, FrameLen)) = Meaning(packet)
<1> DEFINE r == Raw(packet)
           t == Frame(packet)
           l == Len(t)
           m == l + 3
           b == buffer
<1>1. /\ packet \in Packets /\ b \in Seq(Byte) /\ pos \in Nat
      /\ checksum \in Seq(Byte) /\ Len(checksum) = 2
  BY DEF LengthInv
<1>2. /\ t \in Seq(Byte) /\ l \in Nat /\ l >= 29
      /\ \A k \in 1 .. l : r[k] = t[k]
      /\ r[l + 1] = checksum[1] /\ r[l + 2] = checksum[2]
      /\ checksum = Fcs(Tail(t))
  <2>1. checksum = Fcs(Tail(t))
    BY DEF RInv
  <2> QED BY <1>1, <2>1, FrameType, RawBytes
<1>3. PICK f : PartlyStripped(b, r, m, pos, f)
  BY DEF RInv, InPlace, Stripped3
<1>4. Len(b) = m /\ \A k \in 1 .. m : b[k] = r[k]
  <2>1. m \in Nat /\ pos > Len(b)
    BY <1>2
  <2> HIDE DEF r, m, b
  <2> QED BY <1>1, <1>3, <2>1, StrippingEnds
<1>5. FrameLen = l
  <2>1. FrameLen = Len(b) - 3
    BY DEF FrameLen
  <2> QED BY <1>2, <1>4, <2>1
<1>6. ReceivedFcs = checksum
  <2>1. l + 1 \in 1 .. m /\ l + 2 \in 1 .. m
    BY <1>2
  <2>2. b[l + 1] = checksum[1] /\ b[l + 2] = checksum[2]
    BY <1>2, <1>4, <2>1
  <2>3. ReceivedFcs = <<checksum[1], checksum[2]>>
    BY <1>5, <2>2 DEF ReceivedFcs
  <2> QED BY <1>1, <2>3
<1>7. \A k \in 1 .. l : b[k] = t[k] /\ t[k] \in Byte
  <2>1. \A k \in 1 .. l : k \in 1 .. m /\ t[k] \in Byte
    BY <1>2, ElementOfSeq
  <2> QED BY <1>2, <1>4, <2>1
<1> HIDE DEF r, t, l, m, b
<1>8. SubSeq(b, 1, l) = t /\ SubSeq(b, 2, l) = Tail(t)
  <2>1. l >= 2 /\ l = Len(t)
    BY <1>2 DEF l
  <2> QED BY <1>1, <1>2, <1>7, <2>1, FrontOf
<1>10. FcsAgrees
  <2>1. SubSeq(buffer, 2, FrameLen) = Tail(t)
    BY <1>5, <1>8 DEF b
  <2> QED BY <1>2, <1>6, <2>1 DEF FcsAgrees
<1>11. Fields(SubSeq(buffer, 1, FrameLen)) = Meaning(packet)
  <2>1. SubSeq(buffer, 1, FrameLen) = t
    BY <1>5, <1>8 DEF b
  <2> QED BY <1>1, <2>1, FrameFields DEF t
<1> QED BY <1>10, <1>11

LEMMA StepRead == LengthInv /\ RInv /\ [Next]_vars => RInv'
<1> SUFFICES ASSUME LengthInv, RInv, [Next]_vars PROVE RInv'
  OBVIOUS
<1>1. CASE Damage
  <2>1. damaged' = TRUE /\ pc = "sent" /\ UNCHANGED <<packet, checksum>>
    BY <1>1 DEF Damage
  <2> QED BY <2>1 DEF RInv, Undisturbed
<1>2. CASE Accept
  <2>1. /\ pc = "strip" /\ pos > Len(buffer)
        /\ recv' = Fields(SubSeq(buffer, 1, FrameLen)) /\ pc' = "accepted"
        /\ UNCHANGED <<packet, checksum, damaged>>
    BY <1>2 DEF Accept
  <2>2. checksum' = Fcs(Tail(Frame(packet')))
    BY <2>1 DEF RInv
  <2>3. ASSUME Undisturbed PROVE InPlace'
    <3>1. recv' = Meaning(packet')
      BY <2>1, <2>3, NothingLost
    <3> QED BY <2>1, <3>1 DEF InPlace
  <2> QED BY <2>1, <2>2, <2>3 DEF RInv, Undisturbed
<1>3. CASE Reject
  <2>1. /\ pc = "strip" /\ pos > Len(buffer) /\ ~FcsAgrees
        /\ UNCHANGED <<packet, checksum, damaged>>
    BY <1>3 DEF Reject
  <2>2. ~Undisturbed
    BY <2>1, NothingLost
  <2>3. checksum' = Fcs(Tail(Frame(packet')))
    BY <2>1 DEF RInv
  <2> QED BY <2>1, <2>2, <2>3 DEF RInv, Undisturbed
<1>4. CASE UNCHANGED vars
  BY <1>4 DEF RInv, Undisturbed, InPlace, Escaped1, Escaped2, Escaped3, Stripped3, vars
<1> QED BY <1>1, <1>2, <1>3, <1>4, StepGenerate, StepEscapeByte, StepAppendChecksum,
           StepAppendTrailer, StepReceive, StepStripByte DEF Next, Ended

\* A packet that nothing damages is read back with the fields it was made of,
\* whatever bytes they have: except for a checksum that begins with an escape.
THEOREM PacketsAreReadBack == Spec => []ReadsBack
<1>1. Init => LengthInv /\ RInv
  BY InitLength DEF Init, RInv, InPlace, Ends
<1>2. (LengthInv /\ RInv) /\ [Next]_vars => (LengthInv /\ RInv)'
  BY StepLength, StepRead
<1>3. LengthInv /\ RInv => ReadsBack
  BY DEF RInv, Undisturbed, InPlace, ReadsBack
<1> QED BY <1>1, <1>2, <1>3, PTL DEF Spec

----------------------------------------------------------------------------
(* The checksum tells a damaged byte.                                      *)

\* The values of 16 bits.
Word == {n \in Nat : n < 65536}
Ones == 65535
BytesOf(x) == <<(Ones - x) % 256, (Ones - x) \div 256>>

\* What level2_tryfcs16 computes: of 16 set bits every byte makes something
\* else, in a round of its own (level2_pppfcs16), and the complement of what
\* that comes to is the checksum, low byte first.
ComputedBy(round) ==
  \A s \in Seq(Byte) : \E c \in [0 .. Len(s) -> Word] :
    /\ c[0] = Ones
    /\ \A i \in 1 .. Len(s) : c[i] = round[c[i - 1]][s[i]]
    /\ Fcs(s) = BytesOf(c[Len(s)])

\* No round makes the same of two values, or of one value with two bytes.
Lossless(round) ==
  /\ \A x \in Word, y \in Word, a \in Byte : round[x][a] = round[y][a] => x = y
  /\ \A x \in Word, a \in Byte, b \in Byte : round[x][a] = round[x][b] => a = b

\* The two bytes tell the value.
LEMMA WordBytes ==
  ASSUME NEW x \in Word, NEW y \in Word, BytesOf(x) = BytesOf(y)
  PROVE  x = y
<1> DEFINE p == Ones - x
           q == Ones - y
<1>1. p \in Nat /\ q \in Nat /\ x = Ones - p /\ y = Ones - q
  BY DEF Word, Ones
<1>2. p % 256 = q % 256 /\ p \div 256 = q \div 256
  BY DEF BytesOf
<1> HIDE DEF p, q
<1>3. p = 256 * (p \div 256) + (p % 256) /\ q = 256 * (q \div 256) + (q % 256)
  BY <1>1
<1>4. p = q
  BY <1>2, <1>3
<1> QED BY <1>1, <1>4

\* At place j, and nowhere else, there is another byte.
OneByteOff(r, s, j) ==
  /\ Len(r) = Len(s) /\ j \in 1 .. Len(s) /\ r[j] # s[j]
  /\ \A k \in 1 .. Len(s) : k # j => r[k] = s[k]

\* The values differ from that place on.
LEMMA ChecksumTells ==
  ASSUME NEW round, ComputedBy(round), Lossless(round),
         NEW s \in Seq(Byte), NEW t \in Seq(Byte), NEW j, OneByteOff(s, t, j)
  PROVE  Fcs(s) # Fcs(t)
<1> DEFINE l == Len(t)
<1>1. /\ l \in Nat /\ Len(s) = l /\ j \in 1 .. l /\ s[j] # t[j]
      /\ \A k \in 1 .. l : k # j => s[k] = t[k]
      /\ \A k \in 1 .. l : s[k] \in Byte /\ t[k] \in Byte
  BY LenProperties, ElementOfSeq DEF OneByteOff
<1>2. PICK c \in [0 .. l -> Word] :
        /\ c[0] = Ones
        /\ \A i \in 1 .. l : c[i] = round[c[i - 1]][s[i]]
        /\ Fcs(s) = BytesOf(c[l])
  <2>1. \E c \in [0 .. Len(s) -> Word] :
          /\ c[0] = Ones
          /\ \A i \in 1 .. Len(s) : c[i] = round[c[i - 1]][s[i]]
          /\ Fcs(s) = BytesOf(c[Len(s)])
    BY Zenon DEF ComputedBy
  <2>2. Len(s) = l
    BY <1>1
  <2> QED BY <2>1, <2>2, Zenon
<1>3. PICK d \in [0 .. l -> Word] :
        /\ d[0] = Ones
        /\ \A i \in 1 .. l : d[i] = round[d[i - 1]][t[i]]
        /\ Fcs(t) = BytesOf(d[l])
  BY Zenon DEF ComputedBy
<1> HIDE DEF l
<1> DEFINE T == {n \in 0 .. l : c[n] = d[n] <=> n < j}
<1>4. 0 \in T
  BY <1>1, <1>2, <1>3
<1>5. ASSUME NEW n \in 1 .. l, n - 1 \in T PROVE n \in T
  <2>1. /\ c[n - 1] \in Word /\ d[n - 1] \in Word /\ s[n] \in Byte /\ t[n] \in Byte
        /\ c[n] = round[c[n - 1]][s[n]] /\ d[n] = round[d[n - 1]][t[n]]
        /\ (c[n - 1] = d[n - 1] <=> n - 1 < j)
    <3>1. n \in 0 .. l /\ n - 1 \in 0 .. l /\ n \in 1 .. l
      BY <1>1
    <3> QED BY <1>1, <1>2, <1>3, <1>5, <3>1
  <2>2. CASE n < j
    <3>1. n - 1 < j /\ n # j /\ n \in 0 .. l
      BY <1>1, <2>2
    <3> QED BY <1>1, <2>1, <2>2, <3>1
  <2>3. CASE n = j
    <3>1. n - 1 < j /\ ~(n < j) /\ n \in 0 .. l
      BY <1>1, <2>3
    <3>2. c[n - 1] = d[n - 1] /\ s[n] # t[n]
      BY <1>1, <2>1, <2>3, <3>1
    <3>3. c[n] # d[n]
      BY <2>1, <3>2 DEF Lossless
    <3> QED BY <3>1, <3>3
  <2>4. CASE n > j
    <3>1. ~(n - 1 < j) /\ ~(n < j) /\ n # j /\ n \in 0 .. l
      BY <1>1, <2>4
    <3>2. c[n - 1] # d[n - 1] /\ s[n] = t[n]
      BY <1>1, <2>1, <3>1
    <3>3. c[n] # d[n]
      BY <2>1, <3>2 DEF Lossless
    <3> QED BY <3>1, <3>3
  <2> QED BY <1>1, <2>2, <2>3, <2>4
<1>6. l \in T
  <2> HIDE DEF T
  <2>1. 0 .. l \subseteq T
    BY <1>1, <1>4, <1>5, InductionUpTo
  <2> QED BY <1>1, <2>1
<1>7. c[l] # d[l] /\ c[l] \in Word /\ d[l] \in Word
  BY <1>1, <1>6
<1> QED BY <1>2, <1>3, <1>7, WordBytes, Zenon

LEMMA RisesBetween ==
  ASSUME NEW f \in [Nat -> Nat], NEW n \in Nat, Rising(f, 1, n),
         NEW i \in 1 .. n, NEW k \in 1 .. n
  PROVE  /\ f[i] \in Nat /\ f[k] \in Nat
         /\ i < k => f[i] < f[k]
         /\ i <= k => f[i] <= f[k]
<1>1. i \in Nat /\ k \in Nat /\ f[i] \in Nat /\ f[k] \in Nat
  OBVIOUS
<1>2. i < k => f[i] < f[k]
  BY DEF Rising
<1>3. i <= k => i < k \/ i = k
  BY <1>1
<1> QED BY <1>1, <1>2, <1>3

\* A byte behind the first is damaged, and neither it nor what it turns into
\* is an escape: then the bytes are those of a packet with one byte different.
LEMMA ByteDamaged ==
  ASSUME NEW b \in Seq(Byte), NEW r \in Seq(Byte), NEW m \in Nat, Len(r) = m, m >= 2,
         NEW f, WhollyEscaped(b, r, m, f),
         NEW k \in 2 .. Len(b), NEW v \in Byte, v # b[k], v # ESC, b[k] # ESC
  PROVE  \E s \in Seq(Byte) : \E j \in 2 .. m :
           OneByteOff(s, r, j) /\ WhollyEscaped([b EXCEPT ![k] = v], s, m, f)
<1> DEFINE c == [b EXCEPT ![k] = v]
           l == Len(b)
           T == {i \in 1 .. m : f[i + 1] > k}
<1>1. f \in [Nat -> Nat] /\ f[1] = 1 /\ f[2] = 2 /\ f[m + 1] = l + 1
  BY DEF WhollyEscaped
<1>2. Rising(f, 1, m + 1)
  BY DEF WhollyEscaped
<1>3. \A i \in 1 .. m : Placed(b, r, f, i)
  BY DEF WhollyEscaped
<1>4. l \in Nat /\ k \in Nat /\ k >= 2 /\ k <= l /\ k \in 1 .. l
  BY LenProperties
<1>5. \A i \in 1 .. m : r[i] \in Byte
  BY ElementOfSeq
<1>6. Len(c) = l /\ \A i \in 1 .. l : c[i] = IF i = k THEN v ELSE b[i]
  BY <1>4, ExceptSeq
<1> HIDE DEF c, l
<1>7. m \in T /\ T \subseteq Nat
  <2>1. m \in 1 .. m /\ f[m + 1] > k
    BY <1>1, <1>4
  <2> QED BY <2>1
<1>8. PICK j \in T : \A i \in T : j <= i
  BY <1>7, Least
<1>9. /\ j \in 2 .. m /\ f[j] \in Nat /\ f[j + 1] \in Nat
      /\ f[j] >= 2 /\ f[j] <= k /\ k < f[j + 1]
  <2>1. j \in 1 .. m /\ f[j + 1] > k
    BY <1>8
  <2>2. j # 1
    BY <1>1, <1>4, <2>1
  <2>3. j \in 2 .. m /\ j - 1 \in 1 .. m /\ ~(j <= j - 1) /\ (j - 1) + 1 = j
    BY <2>1, <2>2
  <2>4. ~(f[j] > k)
    BY <1>8, <2>3
  <2>5. 2 \in 1 .. m + 1 /\ j \in 1 .. m + 1 /\ j + 1 \in 1 .. m + 1 /\ 2 <= j /\ m + 1 \in Nat
    BY <2>3
  <2>6. f[2] <= f[j] /\ f[j] \in Nat /\ f[j + 1] \in Nat
    BY <1>1, <1>2, <2>5, RisesBetween
  <2>7. f[j] >= 2 /\ f[j] <= k
    <3> DEFINE x == f[j]
    <3>1. x \in Nat /\ x >= 2 /\ ~(x > k)
      BY <1>1, <2>4, <2>6
    <3> HIDE DEF x
    <3>2. x >= 2 /\ x <= k
      BY <1>4, <3>1
    <3> QED BY <3>2 DEF x
  <2> QED BY <2>1, <2>3, <2>6, <2>7
<1> HIDE DEF T
<1> DEFINE w == IF k = f[j] THEN v ELSE Flip(v)
           s == [r EXCEPT ![j] = w]
<1>10. w \in Byte /\ j \in 1 .. Len(r)
  BY <1>9, FlipType
<1>11. s \in Seq(Byte) /\ Len(s) = m /\ \A i \in 1 .. m : s[i] = IF i = j THEN w ELSE r[i]
  BY <1>10, ExceptSeq
<1> HIDE DEF s
<1>12. w # r[j] /\ Placed(c, s, f, j)
  <2>1. j \in 1 .. m
    BY <1>9
  <2>2. s[j] = w /\ Placed(b, r, f, j) /\ r[j] \in Byte
    BY <1>3, <1>5, <1>11, <2>1
  <2>3. CASE f[j + 1] = f[j] + 1
    <3>1. k = f[j]
      BY <1>4, <1>9, <2>3
    <3>2. w = v /\ c[f[j]] = v
      BY <1>4, <1>6, <3>1
    <3>3. f[j + 1] # f[j] + 2
      BY <1>9, <2>3
    <3>4. b[f[j]] = r[j]
      BY <2>2, <3>3 DEF Placed
    <3>5. w # r[j]
      BY <3>1, <3>2, <3>4
    <3>6. c[f[j]] = s[j] /\ s[j] # ESC
      BY <2>2, <3>2
    <3> QED BY <2>3, <3>5, <3>6 DEF Placed
  <2>4. CASE f[j + 1] = f[j] + 2
    <3>1. f[j + 1] # f[j] + 1
      BY <1>9, <2>4
    <3>2. b[f[j]] = ESC /\ b[f[j] + 1] = Flip(r[j])
      BY <2>2, <3>1 DEF Placed
    <3>3. k # f[j]
      BY <3>2
    <3>4. k = f[j] + 1
      BY <1>4, <1>9, <2>4, <3>3
    <3>5. f[j] \in 1 .. l
      BY <1>4, <1>9
    <3>6. w = Flip(v) /\ c[f[j]] = ESC /\ c[f[j] + 1] = v
      BY <1>4, <1>6, <3>2, <3>3, <3>4, <3>5
    <3>7. v = Flip(s[j])
      BY <2>2, <3>6, FlipTwice
    <3>8. w # r[j]
      BY <2>2, <3>2, <3>4, <3>7
    <3> HIDE DEF w
    <3> QED BY <2>4, <3>6, <3>7, <3>8 DEF Placed
  <2> QED BY <2>2, <2>3, <2>4 DEF Placed
<1> HIDE DEF w
<1>13. ASSUME NEW i \in 1 .. m, i # j PROVE Placed(c, s, f, i)
  <2>1. Placed(b, r, f, i) /\ s[i] = r[i]
    BY <1>3, <1>11, <1>13
  <2>2. /\ i \in 1 .. m + 1 /\ i + 1 \in 1 .. m + 1 /\ j \in 1 .. m + 1 /\ j + 1 \in 1 .. m + 1
        /\ 1 \in 1 .. m + 1 /\ m + 1 \in 1 .. m + 1 /\ m + 1 \in Nat
        /\ 1 <= i /\ i < i + 1 /\ i + 1 <= m + 1
        /\ i + 1 <= j \/ j + 1 <= i
    BY <1>9, <1>13
  <2>3. f[i] \in Nat /\ f[i + 1] \in Nat /\ f[i] < f[i + 1]
    BY <1>1, <1>2, <2>2, RisesBetween
  <2>4. f[1] <= f[i] /\ f[i + 1] <= f[m + 1]
    BY <1>1, <1>2, <2>2, RisesBetween
  <2>5. f[i + 1] <= f[j] \/ f[j + 1] <= f[i]
    BY <1>1, <1>2, <2>2, RisesBetween
  <2>6. f[i + 1] <= k \/ f[i] > k
    BY <1>4, <1>9, <2>3, <2>5
  <2>7. f[i] >= 1 /\ f[i + 1] <= l + 1
    BY <1>1, <2>4
  <2>8. f[i] \in 1 .. l /\ f[i] # k
    BY <1>4, <2>3, <2>6, <2>7
  <2>9. c[f[i]] = b[f[i]]
    BY <1>6, <2>8
  <2>10. CASE f[i + 1] = f[i] + 1
    <3>1. f[i + 1] # f[i] + 2
      BY <2>3, <2>10
    <3>2. b[f[i]] = r[i] /\ r[i] # ESC
      BY <2>1, <3>1 DEF Placed
    <3> QED BY <2>1, <2>9, <2>10, <3>2 DEF Placed
  <2>11. CASE f[i + 1] = f[i] + 2
    <3>1. f[i + 1] # f[i] + 1
      BY <2>3, <2>11
    <3>2. b[f[i]] = ESC /\ b[f[i] + 1] = Flip(r[i])
      BY <2>1, <3>1 DEF Placed
    <3>3. f[i] + 1 \in 1 .. l /\ f[i] + 1 # k
      <4> DEFINE x == f[i]
                 y == f[i + 1]
      <4>1. /\ x \in Nat /\ y \in Nat /\ x >= 1 /\ y = x + 2 /\ y <= l + 1
            /\ y <= k \/ x > k
        BY <2>3, <2>6, <2>7, <2>11
      <4> HIDE DEF x, y
      <4>2. x + 1 \in 1 .. l /\ x + 1 # k
        BY <1>4, <4>1
      <4> QED BY <4>2 DEF x
    <3>4. c[f[i] + 1] = b[f[i] + 1]
      BY <1>6, <3>3
    <3> QED BY <2>1, <2>9, <2>11, <3>2, <3>4 DEF Placed
  <2> QED BY <2>1, <2>10, <2>11 DEF Placed
<1>14. WhollyEscaped(c, s, m, f)
  <2>1. \A i \in 1 .. m : Placed(c, s, f, i)
    BY <1>12, <1>13
  <2> QED BY <1>1, <1>2, <1>6, <2>1 DEF WhollyEscaped
<1>15. OneByteOff(s, r, j)
  BY <1>10, <1>11, <1>12 DEF OneByteOff
<1> QED BY <1>9, <1>11, <1>14, <1>15 DEF c

\* Damage that neither makes an escape nor unmakes one.
EscapesStay ==
  Damage => {k \in 1 .. Len(buffer) : buffer[k] = ESC}
              = {k \in 1 .. Len(buffer') : buffer'[k] = ESC}

\* A damaged packet is, up to its escapes, the bytes that were to be sent with
\* another one among them.
OneByteWrong ==
  /\ damaged => pc \in {"sent", "strip"} \cup Ends
  /\ damaged /\ checksum[1] # ESC =>
       /\ pc = "sent" =>
            \E r \in Seq(Byte), j \in 2 .. Len(Frame(packet)) + 3 : \E f :
              /\ OneByteOff(r, Raw(packet), j)
              /\ WhollyEscaped(buffer, r, Len(Frame(packet)) + 3, f)
       /\ pc = "strip" =>
            \E r \in Seq(Byte), j \in 2 .. Len(Frame(packet)) + 3 : \E f :
              /\ OneByteOff(r, Raw(packet), j)
              /\ PartlyStripped(buffer, r, Len(Frame(packet)) + 3, pos, f)
       /\ pc = "accepted" => recv = Meaning(packet)

\* Unless the wrong byte is the trailer, packet_read does not accept them.
LEMMA WrongByteFound ==
  ASSUME NEW round, ComputedBy(round), Lossless(round),
         LengthInv, RInv, OneByteWrong, damaged, checksum[1] # ESC,
         pc = "strip", pos > Len(buffer), FcsAgrees
  PROVE  Fields(SubSeq(buffer, 1, FrameLen)) = Meaning(packet)
<1> DEFINE t == Frame(packet)
           l == Len(t)
           m == l + 3
           b == buffer
           raw == Raw(packet)
<1>1. /\ packet \in Packets /\ b \in Seq(Byte) /\ pos \in Nat
      /\ checksum \in Seq(Byte) /\ Len(checksum) = 2
  BY DEF LengthInv
<1>2. /\ t \in Seq(Byte) /\ l \in Nat /\ l >= 29
      /\ Len(raw) = m /\ \A k \in 1 .. l : raw[k] = t[k]
      /\ raw[l + 1] = checksum[1] /\ raw[l + 2] = checksum[2]
      /\ checksum = Fcs(Tail(t))
  <2>1. checksum = Fcs(Tail(t))
    BY DEF RInv
  <2> QED BY <1>1, <2>1, FrameType, RawBytes
<1>3. PICK r \in Seq(Byte), j \in 2 .. m : \E f :
        OneByteOff(r, raw, j) /\ PartlyStripped(b, r, m, pos, f)
  BY DEF OneByteWrong
<1>4. Len(b) = m /\ \A k \in 1 .. m : b[k] = r[k]
  <2>1. m \in Nat /\ pos > Len(b)
    BY <1>2
  <2> HIDE DEF m, b
  <2>2. PICK f : PartlyStripped(b, r, m, pos, f)
    BY <1>3
  <2>3. b \in Seq(Byte) /\ pos \in Nat
    BY <1>1
  <2> QED BY <2>1, <2>2, <2>3, StrippingEnds
<1>5. FrameLen = l
  <2>1. FrameLen = Len(b) - 3
    BY DEF FrameLen
  <2> QED BY <1>2, <1>4, <2>1
<1> HIDE DEF raw, b
<1>6. r[j] # raw[j] /\ \A k \in 1 .. m : k # j => b[k] = raw[k]
  <2>1. /\ r[j] # raw[j] /\ \A k \in 1 .. m : k # j => r[k] = raw[k]
    BY <1>2, <1>3, Zenon DEF OneByteOff
  <2> QED BY <1>4, <2>1
<1>7. Fcs(SubSeq(b, 2, l)) = <<b[l + 1], b[l + 2]>>
  BY <1>5 DEF FcsAgrees, ReceivedFcs, b
<1> HIDE DEF m
<1>8. l = Len(t) /\ l >= 2 /\ m = l + 3
  BY <1>2 DEF m
<1> HIDE DEF l, t
<1>9. CASE j <= l
  <2> DEFINE u == [t EXCEPT ![j] = r[j]]
  <2>1. j \in 1 .. l /\ j \in 1 .. m /\ j \in 2 .. l /\ r[j] \in Byte
    <3>1. j \in 2 .. l /\ j \in 1 .. l /\ j \in 1 .. m
      BY <1>2, <1>8, <1>9
    <3>2. r[j] = b[j] /\ b[j] \in Byte
      BY <1>1, <1>4, <3>1, ElementOfSeq
    <3> QED BY <3>1, <3>2
  <2>2. u \in Seq(Byte) /\ Len(u) = l /\ \A k \in 1 .. l : u[k] = IF k = j THEN r[j] ELSE t[k]
    BY <1>2, <1>8, <2>1, ExceptSeq
  <2> HIDE DEF u
  <2>3. ASSUME NEW k \in 1 .. l PROVE b[k] = u[k]
    <3>1. k \in 1 .. m
      BY <1>2, <1>8
    <3> QED BY <1>2, <1>4, <1>6, <2>2, <3>1
  <2>4. SubSeq(b, 2, l) = Tail(u)
    <3>1. u \in Seq(Byte) /\ l = Len(u) /\ l >= 2 /\ b \in Seq(Byte)
      BY <1>1, <1>8, <2>2
    <3> HIDE DEF u
    <3> QED BY <2>3, <3>1, FrontOf
  <2>5. t # <<>> /\ u # <<>>
    BY <1>2, <1>8, <2>2, EmptySeq
  <2>6. /\ Tail(t) \in Seq(Byte) /\ Len(Tail(t)) = l - 1
        /\ \A i \in 1 .. l - 1 : Tail(t)[i] = t[i + 1]
    BY <1>2, <1>8, <2>5, HeadTailProperties
  <2>7. /\ Tail(u) \in Seq(Byte) /\ Len(Tail(u)) = l - 1
        /\ \A i \in 1 .. l - 1 : Tail(u)[i] = u[i + 1]
    BY <2>2, <2>5, HeadTailProperties
  <2>8. OneByteOff(Tail(u), Tail(t), j - 1)
    <3>1. j - 1 \in 1 .. l - 1 /\ (j - 1) + 1 = j
      BY <1>2, <2>1
    <3>2. Tail(u)[j - 1] = r[j] /\ Tail(t)[j - 1] = t[j] /\ raw[j] = t[j]
      BY <1>2, <2>1, <2>2, <2>6, <2>7, <3>1
    <3>3. ASSUME NEW k \in 1 .. l - 1, k # j - 1 PROVE Tail(u)[k] = Tail(t)[k]
      <4>1. k + 1 \in 1 .. l /\ k + 1 # j
        BY <1>2, <2>1, <3>3
      <4> QED BY <2>2, <2>6, <2>7, <4>1
    <3> QED BY <1>6, <2>6, <2>7, <3>1, <3>2, <3>3 DEF OneByteOff
  <2>9. Fcs(Tail(u)) # Fcs(Tail(t))
    BY <2>6, <2>7, <2>8, ChecksumTells
  <2>10. b[l + 1] = checksum[1] /\ b[l + 2] = checksum[2]
    <3>1. l + 1 \in 1 .. m /\ l + 2 \in 1 .. m /\ l + 1 # j /\ l + 2 # j
      BY <1>2, <1>8, <2>1
    <3> QED BY <1>2, <1>6, <3>1
  <2>11. checksum = <<checksum[1], checksum[2]>>
    BY <1>1
  <2> QED BY <1>2, <1>7, <2>4, <2>9, <2>10, <2>11
<1>10. CASE j > l
  <2>1. ASSUME NEW k \in 1 .. l PROVE b[k] = t[k]
    <3>1. k \in 1 .. m /\ k # j
      BY <1>2, <1>8, <1>10
    <3> QED BY <1>2, <1>6, <3>1
  <2>2. SubSeq(b, 1, l) = t /\ SubSeq(b, 2, l) = Tail(t)
    <3>1. l = Len(t) /\ l >= 2 /\ b \in Seq(Byte) /\ t \in Seq(Byte)
      BY <1>1, <1>2, <1>8
    <3> QED BY <2>1, <3>1, FrontOf
  <2>3. Fields(SubSeq(buffer, 1, FrameLen)) = Fields(t)
    BY <1>5, <2>2 DEF b
  <2> QED BY <1>1, <2>3, FrameFields DEF t
<1> QED BY <1>2, <1>9, <1>10

LEMMA StepWrongByte ==
  ASSUME NEW round, ComputedBy(round), Lossless(round),
         LengthInv, RInv, OneByteWrong, [Next]_vars, [EscapesStay]_vars
  PROVE  OneByteWrong'
<1> DEFINE r0 == Raw(packet)
           m == Len(Frame(packet)) + 3
<1>1. /\ packet \in Packets /\ buffer \in Seq(Byte) /\ pos \in Nat \ {0}
      /\ r0 \in Seq(Byte) /\ Len(r0) = m /\ m \in Nat /\ m >= 2
  <2>1. packet \in Packets /\ buffer \in Seq(Byte) /\ pos \in Nat \ {0}
    BY DEF LengthInv
  <2> DEFINE l == Len(Frame(packet))
  <2>2. l \in Nat /\ r0 \in Seq(Byte) /\ Len(r0) = l + 3
    BY <2>1, FrameType, RawBytes
  <2> HIDE DEF l
  <2>3. l + 3 \in Nat /\ l + 3 >= 2
    BY <2>2
  <2> QED BY <2>1, <2>2, <2>3 DEF l
<1>2. CASE Damage
  <2>1. /\ pc = "sent" /\ pc' = pc /\ ~damaged
        /\ UNCHANGED <<packet, checksum, pos, recv>>
    BY <1>2 DEF Damage
  <2>2. PICK k \in 6 .. Len(buffer), v \in Damages :
          v # buffer[k] /\ buffer' = [buffer EXCEPT ![k] = v]
    BY <1>2 DEF Damage
  <2> SUFFICES ASSUME checksum[1] # ESC
               PROVE  \E r \in Seq(Byte), j \in 2 .. m : \E f :
                        OneByteOff(r, r0, j) /\ WhollyEscaped(buffer', r, m, f)
    BY <2>1 DEF OneByteWrong, Ends
  <2>3. PICK f : WhollyEscaped(buffer, r0, m, f)
    BY <2>1 DEF RInv, InPlace, Undisturbed, Escaped3
  <2>4. k \in 2 .. Len(buffer) /\ k \in 1 .. Len(buffer) /\ v \in Byte
    BY <1>1, <2>2, LenProperties, ConstantsAssumption
  <2>5. buffer[k] # ESC /\ v # ESC
    <3>1. {i \in 1 .. Len(buffer) : buffer[i] = ESC}
            = {i \in 1 .. Len(buffer') : buffer'[i] = ESC}
      <4>1. buffer' # buffer
        <5>1. buffer'[k] = v
          BY <1>1, <2>2, <2>4, ExceptSeq
        <5> QED BY <2>2, <5>1
      <4> QED BY <1>2, <4>1 DEF EscapesStay, vars
    <3>2. Len(buffer') = Len(buffer) /\ buffer'[k] = v
      BY <1>1, <2>2, <2>4, ExceptSeq
    <3>3. buffer[k] = ESC <=> v = ESC
      BY <2>4, <3>1, <3>2
    <3> QED BY <2>2, <3>3
  <2> HIDE DEF r0, m
  <2>6. \E s \in Seq(Byte) : \E j \in 2 .. m :
          OneByteOff(s, r0, j) /\ WhollyEscaped([buffer EXCEPT ![k] = v], s, m, f)
    BY <1>1, <2>2, <2>3, <2>4, <2>5, ByteDamaged
  <2> QED BY <2>2, <2>6
<1>3. CASE Receive
  <2>1. /\ pc = "sent" /\ pc' = "strip" /\ pos' = 2
        /\ UNCHANGED <<packet, checksum, buffer, damaged, recv>>
    BY <1>3 DEF Receive
  <2> SUFFICES ASSUME damaged, checksum[1] # ESC
               PROVE  \E r \in Seq(Byte), j \in 2 .. m : \E f :
                        OneByteOff(r, r0, j) /\ PartlyStripped(buffer, r, m, 2, f)
    BY <2>1 DEF OneByteWrong, Ends
  <2>2. PICK r \in Seq(Byte), j \in 2 .. m : \E f :
          OneByteOff(r, r0, j) /\ WhollyEscaped(buffer, r, m, f)
    BY <2>1 DEF OneByteWrong
  <2> HIDE DEF r0, m
  <2>3. PICK f : OneByteOff(r, r0, j) /\ WhollyEscaped(buffer, r, m, f)
    BY <2>2
  <2>4. PartlyStripped(buffer, r, m, 2, f)
    BY <1>1, <2>3, StrippingStarts
  <2> QED BY <2>3, <2>4
<1>4. CASE StripByte
  <2>1. /\ pc = "strip" /\ pc' = pc /\ pos <= Len(buffer) /\ pos' = pos + 1
        /\ buffer' = IF buffer[pos] = ESC THEN Stripped(buffer, pos) ELSE buffer
        /\ UNCHANGED <<packet, checksum, damaged, recv>>
    BY <1>4 DEF StripByte
  <2> SUFFICES ASSUME damaged, checksum[1] # ESC
               PROVE  \E r \in Seq(Byte), j \in 2 .. m : \E f :
                        OneByteOff(r, r0, j) /\ PartlyStripped(buffer', r, m, pos', f)
    BY <2>1 DEF OneByteWrong, Ends
  <2>2. PICK r \in Seq(Byte), j \in 2 .. m : \E f :
          OneByteOff(r, r0, j) /\ PartlyStripped(buffer, r, m, pos, f)
    BY <2>1 DEF OneByteWrong
  <2> HIDE DEF r0, m
  <2>3. PICK f : OneByteOff(r, r0, j) /\ PartlyStripped(buffer, r, m, pos, f)
    BY <2>2
  <2>4. \A k \in 1 .. m : r[k] \in Byte
    BY <1>1, <2>3, ElementOfSeq DEF OneByteOff
  <2>5. \E g : PartlyStripped(buffer', r, m, pos', g)
    BY <1>1, <2>1, <2>3, <2>4, StripRound
  <2> QED BY <2>3, <2>5
<1>5. CASE Accept
  <2>1. /\ pc = "strip" /\ pos > Len(buffer) /\ FcsAgrees /\ pc' = "accepted"
        /\ recv' = Fields(SubSeq(buffer, 1, FrameLen))
        /\ UNCHANGED <<packet, checksum, buffer, pos, damaged>>
    BY <1>5 DEF Accept
  <2>2. damaged /\ checksum[1] # ESC => recv' = Meaning(packet)
    BY <2>1, WrongByteFound
  <2> QED BY <2>1, <2>2 DEF OneByteWrong, Ends
<1>6. CASE Reject
  BY <1>6 DEF Reject, OneByteWrong, Ends
<1>7. CASE Generate \/ EscapeByte \/ AppendChecksum \/ AppendTrailer
  <2>1. pc \in {"idle"} \cup Escaping /\ damaged' = damaged
    BY <1>7 DEF Generate, EscapeByte, AppendChecksum, AppendTrailer, Escaping
  <2>2. ~damaged
    BY <2>1 DEF OneByteWrong, Escaping, Ends
  <2> QED BY <2>1, <2>2 DEF OneByteWrong
<1>8. CASE Ended \/ UNCHANGED vars
  BY <1>8 DEF Ended, vars, OneByteWrong
<1> QED BY <1>2, <1>3, <1>4, <1>5, <1>6, <1>7, <1>8 DEF Next

\* The checksum that the code computes keeps a packet with a damaged byte from
\* being taken for another one, for every packet: unless the damage makes an
\* escape or unmakes one, whereupon the bytes behind it stand elsewhere.
THEOREM DamageIsDetected ==
  ASSUME NEW round, ComputedBy(round), Lossless(round)
  PROVE  Spec /\ [][EscapesStay]_vars => [](checksum[1] # ESC => DamageDetected)
<1> DEFINE Inv == LengthInv /\ RInv /\ OneByteWrong
<1>1. Init => Inv
  BY InitLength DEF Init, RInv, InPlace, OneByteWrong, Ends
<1>2. Inv /\ [Next]_vars /\ [EscapesStay]_vars => Inv'
  BY StepLength, StepRead, StepWrongByte
<1>3. Inv => (checksum[1] # ESC => DamageDetected)
  BY DEF RInv, Undisturbed, InPlace, OneByteWrong, DamageDetected, Ends
<1> HIDE DEF Inv
<1> QED BY <1>1, <1>2, <1>3, PTL DEF Spec

----------------------------------------------------------------------------
(* Types.  What strip_escapes leaves of a packet is long enough for all the *)
(* fields that packet_read takes, wherever a byte was damaged: each escape *)
(* that is taken out is one that add_escapes put in, the first byte of the *)
(* checksum or the damaged byte.                                           *)

LEMMA NoMore ==
  ASSUME NEW S, IsFiniteSet(S), NEW T, T \subseteq S
  PROVE  IsFiniteSet(T) /\ Cardinality(T) \in Nat /\ Cardinality(S) \in Nat
         /\ Cardinality(T) <= Cardinality(S)
<1>1. T \in SUBSET S
  OBVIOUS
<1> QED BY <1>1, FS_Subset, FS_CardinalityType

LEMMA OneMore ==
  ASSUME NEW S, IsFiniteSet(S), NEW x, NEW T, T \subseteq S \cup {x}
  PROVE  IsFiniteSet(T) /\ Cardinality(T) \in Nat /\ Cardinality(S) \in Nat
         /\ Cardinality(T) <= Cardinality(S) + 1
<1>1. /\ IsFiniteSet(S \cup {x}) /\ Cardinality(S) \in Nat
      /\ Cardinality(S \cup {x}) <= Cardinality(S) + 1
  <2>1. Cardinality(S) \in Nat
    BY FS_CardinalityType
  <2>2. /\ IsFiniteSet(S \cup {x})
        /\ Cardinality(S \cup {x}) = IF x \in S THEN Cardinality(S) ELSE Cardinality(S) + 1
    BY FS_AddElement
  <2> QED BY <2>1, <2>2
<1>2. /\ IsFiniteSet(T) /\ Cardinality(T) \in Nat /\ Cardinality(S \cup {x}) \in Nat
      /\ Cardinality(T) <= Cardinality(S \cup {x})
  BY <1>1, NoMore
<1> QED BY <1>1, <1>2

LEMMA OneLess ==
  ASSUME NEW S, IsFiniteSet(S), NEW x \in S, NEW T, T \subseteq S \ {x}
  PROVE  IsFiniteSet(T) /\ Cardinality(T) \in Nat /\ Cardinality(S) \in Nat
         /\ Cardinality(T) + 1 <= Cardinality(S)
<1>1. /\ IsFiniteSet(S \ {x}) /\ Cardinality(S) \in Nat
      /\ Cardinality(S \ {x}) = Cardinality(S) - 1
  BY FS_RemoveElement, FS_CardinalityType
<1>2. /\ IsFiniteSet(T) /\ Cardinality(T) \in Nat /\ Cardinality(S \ {x}) \in Nat
      /\ Cardinality(T) <= Cardinality(S \ {x})
  BY <1>1, NoMore
<1> QED BY <1>1, <1>2

\* Escapes up to a place, and those from a place on, told by their distance to
\* the end: taking out what is in front does not change it.
Passed(b, n) == {k \in 2 .. n : b[k] = ESC}
Behind(b, k) == {r \in 0 .. Len(b) - k : b[Len(b) - r] = ESC}

LEMMA EscapesFinite ==
  /\ \A b, n : n \in Int => IsFiniteSet(Passed(b, n))
  /\ \A b, k : Len(b) \in Nat /\ k \in Int => IsFiniteSet(Behind(b, k))
<1>1. ASSUME NEW b, NEW n \in Int PROVE IsFiniteSet(Passed(b, n))
  <2>1. IsFiniteSet(2 .. n)
    BY FS_Interval
  <2>2. Passed(b, n) \subseteq 2 .. n
    BY DEF Passed
  <2> QED BY <2>1, <2>2, NoMore
<1>2. ASSUME NEW b, NEW k \in Int, Len(b) \in Nat PROVE IsFiniteSet(Behind(b, k))
  <2>1. Len(b) - k \in Int
    BY <1>2
  <2>2. IsFiniteSet(0 .. Len(b) - k)
    BY <2>1, FS_Interval
  <2>3. Behind(b, k) \subseteq 0 .. Len(b) - k
    BY DEF Behind
  <2> QED BY <2>2, <2>3, NoMore
<1> QED BY <1>1, <1>2

LongEnough ==
  /\ pc = "escape" =>
       pos >= 2 /\ Len(buffer) >= 29 + Cardinality(Passed(buffer, pos - 1))
  /\ pc = "escapeChecksum" =>
       pos >= 2 /\ Len(buffer) >= 30 + Cardinality(Passed(buffer, pos - 1))
  /\ pc = "sent" =>
       Len(buffer) >= (IF damaged THEN 30 ELSE 31) + Cardinality(Behind(buffer, 2))
  /\ pc = "strip" => Len(buffer) >= 30 + Cardinality(Behind(buffer, pos))

\* A round of add_escapes makes at most the one escape by which it lengthens
\* the buffer.
LEMMA LongEscape ==
  ASSUME LengthInv, LongEnough, EscapeByte PROVE LongEnough'
<1>1. /\ buffer \in Seq(Byte) /\ Len(buffer) \in Nat /\ pos \in Nat /\ pos >= 2
      /\ pos <= Len(buffer) /\ pos' = pos + 1 /\ pc' = pc /\ pc \in Escaping
      /\ buffer' = IF buffer[pos] \in Special THEN Escaped(buffer, pos) ELSE buffer
  BY DEF LengthInv, LongEnough, EscapeByte, Escaping
<1> DEFINE S == Passed(buffer, pos - 1)
           T == Passed(buffer', pos)
<1>2. IsFiniteSet(S)
  BY <1>1, EscapesFinite
<1>3. /\ Cardinality(S) \in Nat /\ Cardinality(T) \in Nat /\ Len(buffer') \in Nat
      /\ Len(buffer') - Cardinality(T) >= Len(buffer) - Cardinality(S)
  <2>1. CASE buffer[pos] \in Special
    <3>1. /\ Len(buffer') = Len(buffer) + 1
          /\ \A i \in 1 .. pos - 1 : buffer'[i] = buffer[i]
      BY <1>1, <2>1, EscapedBytes
    <3>2. T \subseteq S \cup {pos}
      BY <1>1, <3>1 DEF Passed
    <3>3. /\ Cardinality(T) \in Nat /\ Cardinality(S) \in Nat
          /\ Cardinality(T) <= Cardinality(S) + 1
      BY <1>2, <3>2, OneMore
    <3> HIDE DEF S, T
    <3> QED BY <1>1, <3>1, <3>3
  <2>2. CASE buffer[pos] \notin Special
    <3>1. buffer' = buffer /\ buffer[pos] # ESC
      BY <1>1, <2>2 DEF Special, ESC
    <3>2. T \subseteq S
      BY <1>1, <3>1 DEF Passed
    <3>3. /\ Cardinality(T) \in Nat /\ Cardinality(S) \in Nat
          /\ Cardinality(T) <= Cardinality(S)
      BY <1>2, <3>2, NoMore
    <3> HIDE DEF S, T
    <3> QED BY <1>1, <3>1, <3>3
  <2> QED BY <2>1, <2>2
<1>4. pos' - 1 = pos /\ pos' >= 2
  BY <1>1
<1>5. Passed(buffer', pos' - 1) = T /\ Passed(buffer, pos - 1) = S
  BY <1>4
<1> HIDE DEF S, T
<1> QED BY <1>1, <1>3, <1>4, <1>5 DEF LongEnough, Escaping

\* The first byte of the checksum may be an escape that add_escapes made not.
LEMMA LongChecksum ==
  ASSUME LengthInv, LongEnough, AppendChecksum PROVE LongEnough'
<1>1. /\ buffer \in Seq(Byte) /\ checksum \in Seq(Byte) /\ Len(checksum) = 2
      /\ Len(buffer) \in Nat /\ pos \in Nat /\ pos > Len(buffer)
      /\ pc = "escape" /\ pc' = "escapeChecksum"
      /\ buffer' = buffer \o checksum /\ pos' = Len(buffer) + 2
  BY DEF LengthInv, AppendChecksum
<1> DEFINE S == Passed(buffer, pos - 1)
           T == Passed(buffer', Len(buffer) + 1)
<1>2. Len(buffer) >= 29 + Cardinality(S)
  BY <1>1 DEF LongEnough
<1>3. IsFiniteSet(S)
  BY <1>1, EscapesFinite
<1>4. /\ Len(buffer') = Len(buffer) + 2
      /\ \A i \in 1 .. Len(buffer) : buffer'[i] = buffer[i]
  <2>1. /\ Len(buffer \o checksum) = Len(buffer) + Len(checksum)
        /\ \A i \in 1 .. Len(buffer) + Len(checksum) :
             (buffer \o checksum)[i] =
               IF i <= Len(buffer) THEN buffer[i] ELSE checksum[i - Len(buffer)]
    BY <1>1, ConcatProperties
  <2> QED BY <1>1, <2>1
<1>5. T \subseteq S \cup {Len(buffer) + 1}
  BY <1>1, <1>4 DEF Passed
<1>6. /\ Cardinality(T) \in Nat /\ Cardinality(S) \in Nat
      /\ Cardinality(T) <= Cardinality(S) + 1
  BY <1>3, <1>5, OneMore
<1>7. pos' - 1 = Len(buffer) + 1 /\ pos' >= 2
  BY <1>1
<1>8. Passed(buffer', pos' - 1) = T
  BY <1>7
<1> HIDE DEF S, T
<1>9. Len(buffer') >= 30 + Cardinality(T)
  BY <1>1, <1>2, <1>4, <1>6
<1> QED BY <1>1, <1>7, <1>8, <1>9 DEF LongEnough

LEMMA LongTrailer ==
  ASSUME LengthInv, LongEnough, AppendTrailer PROVE LongEnough'
<1>1. /\ buffer \in Seq(Byte) /\ Len(buffer) \in Nat /\ pos \in Nat /\ pos > Len(buffer)
      /\ pc = "escapeChecksum" /\ pc' = "sent" /\ buffer' = Append(buffer, START)
  BY DEF LengthInv, AppendTrailer
<1> DEFINE S == Passed(buffer, pos - 1)
           T == Behind(buffer', 2)
           f == [r \in T |-> Len(buffer') - r]
<1>2. Len(buffer) >= 30 + Cardinality(S)
  BY <1>1 DEF LongEnough
<1>3. IsFiniteSet(S) /\ Cardinality(S) \in Nat
  BY <1>1, EscapesFinite, FS_CardinalityType
<1>4. /\ Len(buffer') = Len(buffer) + 1
      /\ \A i \in 1 .. Len(buffer) : buffer'[i] = buffer[i]
      /\ buffer'[Len(buffer) + 1] = START
  BY <1>1, AppendProperties DEF START, Byte
<1>5. ASSUME NEW r \in T PROVE r \in Nat /\ Len(buffer') - r \in S
  <2>1. r \in 0 .. Len(buffer') - 2 /\ buffer'[Len(buffer') - r] = ESC
    BY DEF Behind
  <2>2. r # 0
    BY <1>1, <1>4, <2>1 DEF START, ESC
  <2>3. Len(buffer') - r \in 2 .. pos - 1 /\ Len(buffer') - r \in 1 .. Len(buffer)
    BY <1>1, <1>4, <2>1, <2>2
  <2> QED BY <1>4, <2>1, <2>3 DEF Passed
<1>6. f \in Injection(T, S)
  <2>1. f \in [T -> S]
    BY <1>5
  <2>2. ASSUME NEW r \in T, NEW u \in T, f[r] = f[u] PROVE r = u
    <3>1. Len(buffer') - r = Len(buffer') - u /\ r \in Nat /\ u \in Nat
      BY <1>5, <2>2
    <3> QED BY <1>1, <1>4, <3>1
  <2> HIDE DEF f, T, S
  <2> QED BY <2>1, <2>2 DEF Injection, IsInjective
<1>7. IsFiniteSet(T) /\ Cardinality(T) <= Cardinality(S)
  <2> HIDE DEF f, T, S
  <2> QED BY <1>3, <1>6, FS_Injection
<1>8. Cardinality(T) \in Nat
  BY <1>7, FS_CardinalityType
<1>9. Behind(buffer', 2) = T
  OBVIOUS
<1> HIDE DEF S, T
<1>10. Len(buffer') >= 31 + Cardinality(T) /\ Len(buffer') >= 30 + Cardinality(T)
  BY <1>1, <1>2, <1>3, <1>4, <1>7, <1>8
<1> QED BY <1>1, <1>9, <1>10 DEF LongEnough

\* Damage makes at most one escape more.
LEMMA LongDamage ==
  ASSUME LengthInv, LongEnough, Damage PROVE LongEnough'
<1>1. PICK k \in 6 .. Len(buffer), b \in Damages : buffer' = [buffer EXCEPT ![k] = b]
  BY DEF Damage
<1>2. /\ buffer \in Seq(Byte) /\ Len(buffer) \in Nat /\ b \in Byte
      /\ pc = "sent" /\ pc' = pc /\ ~damaged /\ damaged' = TRUE
  BY <1>1, ConstantsAssumption DEF LengthInv, Damage
<1> DEFINE S == Behind(buffer, 2)
           T == Behind(buffer', 2)
           n == Len(buffer)
<1>3. Len(buffer) >= 31 + Cardinality(S)
  BY <1>2 DEF LongEnough
<1>4. k \in 1 .. n /\ n \in Nat
  BY <1>2
<1>5. Len(buffer') = n /\ \A i \in 1 .. n : i # k => buffer'[i] = buffer[i]
  BY <1>1, <1>2, <1>4, ExceptSeq
<1>6. IsFiniteSet(S)
  BY <1>2, EscapesFinite
<1> HIDE DEF n
<1>7. T \subseteq S \cup {n - k}
  <2> SUFFICES ASSUME NEW r \in T, r # n - k PROVE r \in S
    OBVIOUS
  <2>1. r \in 0 .. n - 2 /\ buffer'[n - r] = ESC
    BY <1>5 DEF Behind
  <2>2. n - r \in 1 .. n /\ n - r # k
    BY <1>4, <2>1
  <2>3. buffer[n - r] = ESC
    BY <1>5, <2>1, <2>2
  <2> QED BY <2>1, <2>3 DEF Behind, n
<1>8. /\ Cardinality(T) \in Nat /\ Cardinality(S) \in Nat
      /\ Cardinality(T) <= Cardinality(S) + 1
  BY <1>6, <1>7, OneMore
<1>9. Behind(buffer', 2) = T
  OBVIOUS
<1> HIDE DEF S, T
<1>10. Len(buffer') >= 30 + Cardinality(T)
  BY <1>2, <1>3, <1>4, <1>5, <1>8 DEF n
<1> QED BY <1>2, <1>9, <1>10 DEF LongEnough

\* A round of strip_escapes that shortens the buffer passes an escape.
LEMMA LongStrip ==
  ASSUME LengthInv, LongEnough, StripByte PROVE LongEnough'
<1>1. /\ buffer \in Seq(Byte) /\ Len(buffer) \in Nat /\ pos \in 1 .. Len(buffer)
      /\ pc = "strip" /\ pc' = pc /\ pos' = pos + 1
      /\ buffer' = IF buffer[pos] = ESC THEN Stripped(buffer, pos) ELSE buffer
  BY DEF LengthInv, StripByte
<1> DEFINE S == Behind(buffer, pos)
           T == Behind(buffer', pos + 1)
           n == Len(buffer)
<1>2. n >= 30 + Cardinality(S)
  BY <1>1 DEF LongEnough
<1>3. IsFiniteSet(S) /\ n \in Nat /\ pos \in 1 .. n
  BY <1>1, EscapesFinite
<1> HIDE DEF n
<1>4. CASE buffer[pos] = ESC
  <2>1. /\ Len(buffer') = n - 1
        /\ \A i \in pos + 2 .. n : buffer'[i - 1] = buffer[i]
    BY <1>1, <1>4, StrippedBytes DEF n
  <2>2. n - pos \in S
    <3>1. n - pos \in 0 .. n - pos /\ n - (n - pos) = pos
      BY <1>3
    <3> QED BY <1>4, <3>1 DEF Behind, n
  <2>3. T \subseteq S \ {n - pos}
    <3> SUFFICES ASSUME NEW r \in T PROVE r \in S /\ r # n - pos
      OBVIOUS
    <3>1. r \in 0 .. (n - 1) - (pos + 1) /\ buffer'[(n - 1) - r] = ESC
      BY <2>1 DEF Behind
    <3>2. /\ n - r \in pos + 2 .. n /\ (n - r) - 1 = (n - 1) - r
          /\ r \in 0 .. n - pos /\ r # n - pos
      BY <1>3, <3>1
    <3>3. buffer[n - r] = ESC
      BY <2>1, <3>1, <3>2
    <3> QED BY <3>2, <3>3 DEF Behind, n
  <2>4. /\ Cardinality(T) \in Nat /\ Cardinality(S) \in Nat
        /\ Cardinality(T) + 1 <= Cardinality(S)
    BY <1>3, <2>2, <2>3, OneLess
  <2>5. Behind(buffer', pos') = T
    BY <1>1
  <2> HIDE DEF S, T
  <2>6. Len(buffer') >= 30 + Cardinality(T)
    BY <1>2, <1>3, <2>1, <2>4
  <2> QED BY <1>1, <2>5, <2>6 DEF LongEnough
<1>5. CASE buffer[pos] # ESC
  <2>1. buffer' = buffer
    BY <1>1, <1>5
  <2>2. T \subseteq S
    BY <1>3, <2>1 DEF Behind, n
  <2>3. /\ Cardinality(T) \in Nat /\ Cardinality(S) \in Nat
        /\ Cardinality(T) <= Cardinality(S)
    BY <1>3, <2>2, NoMore
  <2>4. Behind(buffer', pos') = T
    BY <1>1
  <2> HIDE DEF S, T
  <2>5. Len(buffer') >= 30 + Cardinality(T)
    BY <1>2, <1>3, <2>1, <2>3 DEF n
  <2> QED BY <1>1, <2>4, <2>5 DEF LongEnough
<1> QED BY <1>4, <1>5

\* Every step.
LEMMA StepLong == LengthInv /\ LongEnough /\ [Next]_vars => LongEnough'
<1> SUFFICES ASSUME LengthInv, LongEnough, [Next]_vars PROVE LongEnough'
  OBVIOUS
<1>1. CASE Generate
  <2>1. /\ buffer' = Frame(packet) /\ pos' = 2 /\ pc' = "escape"
        /\ Len(Frame(packet)) \in Nat /\ Len(Frame(packet)) >= 29
    BY <1>1, FrameType DEF Generate, LengthInv
  <2>2. Passed(buffer', pos' - 1) = {}
    BY <2>1 DEF Passed
  <2>3. Cardinality(Passed(buffer', pos' - 1)) = 0
    BY <2>2, FS_EmptySet
  <2>4. pos' >= 2 /\ Len(buffer') >= 29 + Cardinality(Passed(buffer', pos' - 1))
    BY <2>1, <2>3
  <2> QED BY <2>1, <2>4 DEF LongEnough
<1>2. CASE Receive
  <2>1. Cardinality(Behind(buffer, 2)) \in Nat /\ Len(buffer) \in Nat
    <3>1. Len(buffer) \in Nat
      BY DEF LengthInv
    <3> QED BY <3>1, EscapesFinite, FS_CardinalityType
  <2>2. Len(buffer) >= 30 + Cardinality(Behind(buffer, 2))
    BY <1>2, <2>1 DEF Receive, LongEnough
  <2>3. pc' = "strip" /\ Len(buffer') = Len(buffer) /\ Behind(buffer', pos') = Behind(buffer, 2)
    BY <1>2 DEF Receive
  <2>4. Len(buffer') >= 30 + Cardinality(Behind(buffer', pos'))
    BY <2>2, <2>3
  <2>5. pc' # "escape" /\ pc' # "escapeChecksum" /\ pc' # "sent"
    BY <2>3
  <2> QED BY <2>4, <2>5 DEF LongEnough
<1>3. CASE Accept \/ Reject
  BY <1>3 DEF Accept, Reject, LongEnough
<1>4. CASE UNCHANGED vars
  BY <1>4 DEF vars, LongEnough
<1> QED BY <1>1, <1>2, <1>3, <1>4, LongEscape, LongChecksum, LongTrailer, LongDamage,
           LongStrip DEF Next, Ended

\* The fields of a frame that is long enough.
LEMMA FieldsType ==
  ASSUME NEW b \in Seq(Byte), Len(b) >= 23
  PROVE  Fields(b) \in Received
<1>1. Len(b) \in Nat /\ \A i \in 1 .. Len(b) : b[i] \in Byte
  BY LenProperties, ElementOfSeq
<1>2. \A i \in 1 .. 23 : b[i] \in Byte
  BY <1>1
<1>3. SubSeq(b, 30, Len(b)) \in Seq(Byte)
  <2>1. \A i \in 30 .. Len(b) : b[i] \in Byte
    BY <1>1
  <2> QED BY <1>1, <2>1, SubSeqProperties
<1>4. /\ [k \in 1 .. 6 |-> b[14 - k]] \in Address
      /\ [k \in 1 .. 6 |-> b[22 - k]] \in Address
  <2>1. \A k \in 1 .. 6 : 14 - k \in 1 .. 23 /\ 22 - k \in 1 .. 23
    OBVIOUS
  <2> QED BY <1>2, <2>1 DEF Address
<1>5. b[6] \in Byte /\ b[7] \in Byte /\ b[14] \in Byte /\ b[15] \in Byte /\ b[23] \in Byte
  BY <1>2
<1> QED BY <1>3, <1>4, <1>5 DEF Fields, Received

TInv ==
  /\ pc \in {"idle", "sent", "strip"} \cup Escaping \cup Ends
  /\ damaged \in BOOLEAN
  /\ recv \in Received

LEMMA StepTypes == LengthInv /\ LongEnough /\ TInv /\ [Next]_vars => TInv'
<1> SUFFICES ASSUME LengthInv, LongEnough, TInv, [Next]_vars PROVE TInv'
  OBVIOUS
<1>1. CASE Accept
  <2>1. /\ buffer \in Seq(Byte) /\ Len(buffer) \in Nat /\ pos \in Nat /\ pc = "strip"
        /\ \A i \in 1 .. Len(buffer) : buffer[i] \in Byte
    BY <1>1, ElementOfSeq, LenProperties DEF LengthInv, Accept
  <2>2. Len(buffer) >= 30
    <3>1. Cardinality(Behind(buffer, pos)) \in Nat
      BY <2>1, EscapesFinite, FS_CardinalityType
    <3>2. Len(buffer) >= 30 + Cardinality(Behind(buffer, pos))
      BY <2>1 DEF LongEnough
    <3> QED BY <2>1, <3>1, <3>2
  <2> DEFINE b == SubSeq(buffer, 1, FrameLen)
  <2>3. b \in Seq(Byte) /\ Len(b) >= 23
    <3>1. FrameLen \in Nat /\ FrameLen >= 27 /\ FrameLen <= Len(buffer)
      BY <2>1, <2>2 DEF FrameLen
    <3>2. \A i \in 1 .. FrameLen : buffer[i] \in Byte
      BY <2>1, <3>1
    <3>3. b \in Seq(Byte) /\ Len(b) = IF 1 <= FrameLen THEN FrameLen - 1 + 1 ELSE 0
      BY <3>1, <3>2, SubSeqProperties
    <3> HIDE DEF b
    <3> QED BY <3>1, <3>3
  <2>4. Fields(b) \in Received
    BY <2>3, FieldsType
  <2> QED BY <1>1, <2>4 DEF Accept, TInv, Ends
<1>2. CASE Generate \/ EscapeByte \/ AppendChecksum \/ AppendTrailer \/ Damage
  BY <1>2 DEF Generate, EscapeByte, AppendChecksum, AppendTrailer, Damage, TInv, Escaping
<1>3. CASE Receive \/ StripByte \/ Reject \/ UNCHANGED vars
  BY <1>3 DEF Receive, StripByte, Reject, vars, TInv, Ends
<1> QED BY <1>1, <1>2, <1>3 DEF Next, Ended

\* The variables have their types.  What is behind it: packet_read never looks
\* for a field behind the end of what it was given, even when a damaged byte
\* makes strip_escapes take out what was no escape.
THEOREM TypeCorrect == Spec => []TypeOK
<1>1. Init => LengthInv /\ LongEnough /\ TInv
  <2> SUFFICES ASSUME Init PROVE LongEnough /\ TInv
    BY InitLength
  <2>1. pc = "idle" /\ damaged = FALSE /\ recv = Cleared
    BY DEF Init
  <2>2. Cleared \in Received
    <3>1. NullAddress \in Address /\ 0 \in Byte /\ <<>> \in Seq(Byte)
      BY DEF NullAddress, Address, Byte
    <3> QED BY <3>1 DEF Cleared, Received
  <2>3. LongEnough
    BY <2>1 DEF LongEnough
  <2> QED BY <2>1, <2>2, <2>3 DEF TInv
<1>2. LengthInv /\ TInv => TypeOK
  <2> SUFFICES ASSUME LengthInv, TInv PROVE TypeOK
    OBVIOUS
  <2>1. packet \in Layouts /\ pos \in 1 .. Len(buffer) + 2
    BY ConstantsAssumption DEF LengthInv
  <2> QED BY <2>1 DEF LengthInv, TInv, TypeOK
<1> QED BY StepLength, StepLong, StepTypes, <1>1, <1>2, PTL DEF Spec

=============================================================================
