-------------------------- MODULE L1FramingProofs --------------------------
(***************************************************************************)
(* Proofs about L1Framing, for messages of any length, any ways to cut     *)
(* them into packets of fewer than 256 bytes, any number of packets under  *)
(* way, of disturbances and of packets in between: the types, what a       *)
(* disturbance costs, what the caller of cmdcode_wait finds, and what is   *)
(* delivered.  But for the types, all of it is about lines on which no     *)
(* start byte strays and no packet has another length than it says.        *)
(***************************************************************************)
EXTENDS L1Framing, TLAPS, SequenceTheorems

Commands == {LEVEL2, FRAGMENT, CMD12}

(* Sequences of bytes.                                                     *)

\* Two sequences in a row.
LEMMA Joined ==
  ASSUME NEW a \in Seq(Byte), NEW b \in Seq(Byte)
  PROVE  /\ a \o b \in Seq(Byte) /\ Len(a \o b) = Len(a) + Len(b)
         /\ \A i \in 1 .. Len(a) : (a \o b)[i] = a[i]
         /\ \A i \in 1 .. Len(b) : (a \o b)[Len(a) + i] = b[i]
<1> DEFINE c == a \o b
<1>1. Len(a) \in Nat /\ Len(b) \in Nat
  OBVIOUS
<1>2. /\ c \in Seq(Byte) /\ Len(c) = Len(a) + Len(b)
      /\ \A i \in 1 .. Len(a) + Len(b) : c[i] = IF i <= Len(a) THEN a[i] ELSE b[i - Len(a)]
  BY ConcatProperties
<1> HIDE DEF c
<1>3. ASSUME NEW i \in 1 .. Len(a) PROVE c[i] = a[i]
  <2>1. i \in 1 .. Len(a) + Len(b) /\ i <= Len(a)
    BY <1>1
  <2> QED BY <1>2, <2>1
<1>4. ASSUME NEW i \in 1 .. Len(b) PROVE c[Len(a) + i] = b[i]
  <2>1. /\ Len(a) + i \in 1 .. Len(a) + Len(b) /\ ~(Len(a) + i <= Len(a))
        /\ (Len(a) + i) - Len(a) = i
    BY <1>1
  <2> QED BY <1>2, <2>1
<1> QED BY <1>2, <1>3, <1>4 DEF c

\* A part of a sequence.
LEMMA PartOf ==
  ASSUME NEW a \in Seq(Byte), NEW i \in 1 .. Len(a) + 1, NEW j \in i - 1 .. Len(a)
  PROVE  /\ SubSeq(a, i, j) \in Seq(Byte) /\ Len(SubSeq(a, i, j)) = j - i + 1
         /\ \A k \in 1 .. j - i + 1 : SubSeq(a, i, j)[k] = a[i + k - 1]
<1>1. Len(a) \in Nat /\ \A k \in 1 .. Len(a) : a[k] \in Byte
  BY LenProperties, ElementOfSeq
<1>2. \A k \in i .. j : a[k] \in Byte
  BY <1>1
<1>3. /\ SubSeq(a, i, j) \in Seq(Byte)
      /\ Len(SubSeq(a, i, j)) = IF i <= j THEN j - i + 1 ELSE 0
      /\ \A k \in 1 .. j - i + 1 : SubSeq(a, i, j)[k] = a[i + k - 1]
  BY <1>1, <1>2, SubSeqProperties
<1>4. (IF i <= j THEN j - i + 1 ELSE 0) = j - i + 1
  BY <1>1
<1> QED BY <1>3, <1>4

\* Sequences of the same bytes are the same.
LEMMA SameBytes ==
  ASSUME NEW a \in Seq(Byte), NEW b \in Seq(Byte), Len(a) = Len(b),
         \A i \in 1 .. Len(a) : a[i] = b[i]
  PROVE  a = b
BY SeqEqual

----------------------------------------------------------------------------
(* Packets.                                                                *)

\* A message begins with its Level-2 header.
LEMMA MessageType ==
  ASSUME NEW m \in Messages
  PROVE  /\ Message(m) \in Seq(Byte)
         /\ Len(Message(m)) > 4
<1> DEFINE one == <<START>>
           front == one \o L2_HEADER
<1>1. one \in Seq(Byte) /\ Len(one) = 1 /\ L2_HEADER \in Seq(Byte) /\ Len(L2_HEADER) = 4
  BY DEF START, L2_HEADER, Byte
<1>2. Payload(m) \in Seq(Byte) /\ Len(Payload(m)) \in Nat
  BY ConstantsAssumption
<1> HIDE DEF one
<1>3. front \in Seq(Byte) /\ Len(front) = 5
  <2>1. front \in Seq(Byte) /\ Len(front) = Len(one) + Len(L2_HEADER)
    BY <1>1, Joined
  <2> QED BY <1>1, <2>1
<1> HIDE DEF front
<1>4. front \o Payload(m) \in Seq(Byte) /\ Len(front \o Payload(m)) = 5 + Len(Payload(m))
  BY <1>2, <1>3, Joined
<1>5. Message(m) = front \o Payload(m)
  BY DEF Message, front, one
<1> QED BY <1>2, <1>4, <1>5, ConstantsAssumption

\* Numbers below 256 are sent as they are meant.
LEMMA SmallNumbers == \A n \in 0 .. 255 : LowByte(n) = n /\ HighByte(n) = 0 /\ n \in Byte
BY DEF LowByte, HighByte, Byte

\* Where the parts of a packet are.
LEMMA PacketShape ==
  ASSUME NEW cmd \in Commands, NEW content \in Seq(Byte), HEADER_LEN + Len(content) < 256
  PROVE  LET b == PacketBytes(cmd, content)
         IN  /\ b \in Seq(Byte) /\ Len(b) = HEADER_LEN + Len(content)
             /\ b[1] = START /\ b[2] = HEADER_LEN + Len(content) /\ b[3] = 0
             /\ b[17] = cmd /\ b[18] = 0
             /\ \A j \in 1 .. Len(content) : b[HEADER_LEN + j] = content[j]
<1> DEFINE n == 18 + Len(content)
           front == <<START, LowByte(n), HighByte(n), CHECK>>
           code == <<LowByte(cmd), HighByte(cmd)>>
<1>1. n \in 0 .. 255 /\ n = 18 + Len(content) /\ cmd \in 0 .. 255 /\ Len(content) \in Nat
  <2>1. Len(content) \in Nat
    OBVIOUS
  <2>2. n \in 0 .. 255
    <3>1. \A k \in Nat : HEADER_LEN + k < 256 => 18 + k \in 0 .. 255
      BY DEF HEADER_LEN
    <3> QED BY <2>1, <3>1
  <2>3. cmd \in 0 .. 255
    BY DEF Commands, LEVEL2, FRAGMENT, CMD12
  <2> QED BY <2>1, <2>2, <2>3
<1>2. LowByte(n) = n /\ HighByte(n) = 0 /\ LowByte(cmd) = cmd /\ HighByte(cmd) = 0 /\ n \in Byte /\ cmd \in Byte
  BY <1>1, SmallNumbers
<1> HIDE DEF n
<1>3. /\ front \in Seq(Byte) /\ Len(front) = 4
      /\ front[1] = START /\ front[2] = n /\ front[3] = 0
  BY <1>2 DEF START, CHECK, Byte
<1>4. code \in Seq(Byte) /\ Len(code) = 2 /\ code[1] = cmd /\ code[2] = 0
  BY <1>2 DEF Byte
<1> DEFINE c == front \o Addresses
           d == c \o code
           e == d \o content
<1>5. e = PacketBytes(cmd, content)
  BY DEF PacketBytes, HEADER_LEN, n
<1> HIDE DEF front, code
<1>6. /\ c \in Seq(Byte) /\ Len(c) = 16
      /\ c[1] = START /\ c[2] = n /\ c[3] = 0
  <2>1. Addresses \in Seq(Byte) /\ Len(Addresses) = 12
    BY ConstantsAssumption
  <2>2. /\ c \in Seq(Byte) /\ Len(c) = Len(front) + Len(Addresses)
        /\ \A i \in 1 .. Len(front) : c[i] = front[i]
    BY <1>3, <2>1, Joined
  <2> QED BY <1>3, <2>1, <2>2
<1> HIDE DEF c
<1>7. /\ d \in Seq(Byte) /\ Len(d) = 18
      /\ d[1] = START /\ d[2] = n /\ d[3] = 0 /\ d[17] = cmd /\ d[18] = 0
  <2>1. /\ d \in Seq(Byte) /\ Len(d) = Len(c) + Len(code)
        /\ \A i \in 1 .. Len(c) : d[i] = c[i]
        /\ \A i \in 1 .. Len(code) : d[Len(c) + i] = code[i]
    BY <1>4, <1>6, Joined
  <2>2. 1 \in 1 .. 16 /\ 2 \in 1 .. 16 /\ 3 \in 1 .. 16 /\ 1 \in 1 .. 2 /\ 2 \in 1 .. 2
    OBVIOUS
  <2>3. d[16 + 1] = code[1] /\ d[16 + 2] = code[2] /\ 16 + 1 = 17 /\ 16 + 2 = 18
    BY <1>4, <1>6, <2>1, <2>2
  <2> QED BY <1>4, <1>6, <2>1, <2>2, <2>3
<1> HIDE DEF d
<1>8. /\ e \in Seq(Byte) /\ Len(e) = 18 + Len(content)
      /\ \A i \in 1 .. 18 : e[i] = d[i]
      /\ \A i \in 1 .. Len(content) : e[18 + i] = content[i]
  <2>1. /\ e \in Seq(Byte) /\ Len(e) = Len(d) + Len(content)
        /\ \A i \in 1 .. Len(d) : e[i] = d[i]
        /\ \A i \in 1 .. Len(content) : e[Len(d) + i] = content[i]
    BY <1>7, Joined
  <2> HIDE DEF e
  <2> QED BY <1>7, <2>1
<1> QED BY <1>1, <1>5, <1>7, <1>8, SMTT(30) DEF HEADER_LEN, n

----------------------------------------------------------------------------
(* Types.                                                                  *)

PacketType(r) ==
  /\ r \in [cmd_code : Int, length : Nat, content : Seq(Byte)]
  /\ r = Cleared \/ r.length = HEADER_LEN + Len(r.content)

\* What two bytes stand for.
LEMMA TwoBytes ==
  \A x, y \in 0 .. 255 : Value(x, y) \in Nat /\ Code(x, y) \in Int
BY DEF Value, Code, Char

LEMMA NoiseIsBytes == Junk \subseteq Byte /\ HeaderJunk \subseteq Byte /\ START \in Byte
BY ConstantsAssumption, SMTT(30) DEF START, Byte

\* What is there to be read, whatever its header says.
LEMMA ArrivedType ==
  ASSUME wire \in Seq(Byte), NEW bytes \in Arrived
  PROVE  /\ bytes \in Seq(Byte) /\ Len(bytes) \in Nat
         /\ PacketLen(bytes) \in Nat /\ CmdCode(bytes) \in Int
         /\ Shortfall(bytes) \in Nat
         /\ PacketLen(bytes) + Shortfall(bytes) <= Len(bytes)
         /\ PacketLen(bytes) + Shortfall(bytes) >= 18
         /\ Shortfall(bytes) > 0 => PacketLen(bytes) + Shortfall(bytes) = 18
         /\ Content(bytes) \in Seq(Byte)
         /\ 18 + Len(Content(bytes)) = PacketLen(bytes) + Shortfall(bytes)
<1>1. PICK i \in DOMAIN wire : bytes = SubSeq(wire, i, Len(wire))
  BY DEF Arrived, Hunted
<1>2. Len(bytes) >= 18 /\ Len(bytes) >= PacketLen(bytes)
  BY DEF Arrived, HEADER_LEN
<1>3. bytes \in Seq(Byte) /\ Len(bytes) \in Nat
  <2>1. i \in 1 .. Len(wire) + 1 /\ Len(wire) \in i - 1 .. Len(wire)
    BY <1>1, LenProperties
  <2>2. bytes \in Seq(Byte)
    BY <1>1, <2>1, PartOf
  <2> QED BY <2>2, LenProperties
<1>4. \A j \in 1 .. 18 : bytes[j] \in 0 .. 255
  <2>1. \A j \in 1 .. 18 : j \in 1 .. Len(bytes)
    BY <1>2, <1>3
  <2> QED BY <1>3, <2>1, ElementOfSeq, LenProperties DEF Byte
<1>5. /\ bytes[2] \in 0 .. 255 /\ bytes[3] \in 0 .. 255
      /\ bytes[17] \in 0 .. 255 /\ bytes[18] \in 0 .. 255
  BY <1>4
<1> DEFINE n == PacketLen(bytes)
<1>6. n \in Nat
  BY <1>5, TwoBytes DEF PacketLen
<1>7. CmdCode(bytes) \in Int
  BY <1>5, TwoBytes DEF CmdCode
<1>8. Len(bytes) >= n
  BY <1>2
<1>9. Shortfall(bytes) = IF n < 18 THEN 18 - n ELSE 0
  BY DEF Shortfall, HEADER_LEN
<1>10. Content(bytes) = SubSeq(bytes, 19, n)
  BY DEF Content, HEADER_LEN
<1> HIDE DEF n
<1>11. Shortfall(bytes) \in Nat /\ n + Shortfall(bytes) <= Len(bytes)
       /\ n + Shortfall(bytes) >= 18 /\ (Shortfall(bytes) > 0 => n + Shortfall(bytes) = 18)
  BY <1>2, <1>3, <1>6, <1>8, <1>9
<1>12. CASE n < 18
  <2>1. 19 > n
    BY <1>6, <1>12
  <2>2. Content(bytes) = <<>>
    BY <1>10, <2>1, <1>6, <1>3, SubSeqProperties
  <2>3. Len(<<>>) = 0 /\ <<>> \in Seq(Byte) /\ 18 + 0 = n + (18 - n)
    BY <1>6
  <2>4. Shortfall(bytes) = 18 - n
    BY <1>9, <1>12
  <2> QED BY <1>3, <1>6, <1>7, <1>11, <2>2, <2>3, <2>4 DEF n
<1>13. CASE ~(n < 18)
  <2>1. 19 \in 1 .. Len(bytes) + 1 /\ n \in 19 - 1 .. Len(bytes) /\ n - 19 + 1 = n - 18
    BY <1>2, <1>3, <1>6, <1>8, <1>13
  <2>2. Content(bytes) \in Seq(Byte) /\ Len(Content(bytes)) = n - 19 + 1
    BY <1>3, <1>10, <2>1, PartOf
  <2>3. Shortfall(bytes) = 0 /\ 18 + (n - 18) = n + 0
    BY <1>6, <1>9, <1>13
  <2> QED BY <1>3, <1>6, <1>7, <1>11, <2>1, <2>2, <2>3 DEF n
<1> QED BY <1>12, <1>13

\* What is read leaves a packet in p, unless it is shorter than nothing.
LEMMA TakenType ==
  ASSUME PacketType(p), wire \in Seq(Byte), NEW bytes \in Arrived,
         Taken(bytes).length >= HEADER_LEN
  PROVE  PacketType(Taken(bytes))
<1> DEFINE n == PacketLen(bytes)
           s == Shortfall(bytes)
           t == Content(bytes)
           l == Len(t)
<1>1. /\ n \in Nat /\ s \in Nat /\ t \in Seq(Byte) /\ l \in Nat /\ CmdCode(bytes) \in Int
      /\ 18 + l = n + s /\ (s > 0 => n + s = 18)
  BY ArrivedType, LenProperties
<1> HIDE DEF n, s, l, t
<1>2. CASE p.cmd_code = FRAGMENT
  <2> DEFINE a == Len(p.content)
             k == p.length - HEADER_LEN - s
             c == SubSeq(p.content, 1, k)
             z == p.length + n - HEADER_LEN
  <2>1. p # Cleared
    BY <1>2 DEF Cleared, FRAGMENT
  <2>2. p.content \in Seq(Byte) /\ a \in Nat /\ p.length = 18 + a
    BY <2>1, LenProperties DEF PacketType, HEADER_LEN
  <2>3. Taken(bytes) = [cmd_code |-> CmdCode(bytes), length |-> z, content |-> c \o t]
    BY <1>2 DEF Taken, Continued, n, s, t
  <2>4. z >= 18 /\ z = a + n /\ k = a - s
    <3>1. z = Taken(bytes).length
      BY <2>3
    <3>2. z >= 18
      BY <3>1 DEF HEADER_LEN
    <3> HIDE DEF a
    <3> QED BY <1>1, <2>2, <3>2 DEF HEADER_LEN
  <2> HIDE DEF a, k, z
  <2>5. k \in 0 .. a /\ z \in Nat /\ z = 18 + (k + l)
    BY <1>1, <2>2, <2>4
  <2>6. c \in Seq(Byte) /\ Len(c) = k
    <3>1. 1 \in 1 .. a + 1 /\ k \in 1 - 1 .. a /\ k - 1 + 1 = k
      BY <2>2, <2>5
    <3>2. c \in Seq(Byte) /\ Len(c) = k - 1 + 1
      BY <2>2, <3>1, PartOf DEF a
    <3> QED BY <3>1, <3>2
  <2> HIDE DEF c
  <2>7. c \o t \in Seq(Byte) /\ Len(c \o t) = k + l
    BY <1>1, <2>6, Joined DEF l
  <2> DEFINE r == [cmd_code |-> CmdCode(bytes), length |-> z, content |-> c \o t]
  <2>8. r \in [cmd_code : Int, length : Nat, content : Seq(Byte)]
    BY <1>1, <2>5, <2>7
  <2>9. r.length = HEADER_LEN + Len(r.content)
    BY <2>5, <2>7 DEF HEADER_LEN
  <2> HIDE DEF r
  <2>10. PacketType(r)
    BY <2>8, <2>9 DEF PacketType
  <2> QED BY <2>3, <2>10 DEF r
<1>3. CASE p.cmd_code # FRAGMENT
  <2> DEFINE r == [cmd_code |-> CmdCode(bytes), length |-> n, content |-> t]
  <2>1. Taken(bytes) = r
    BY <1>3 DEF Taken, Anew, n, t
  <2>2. n >= 18
    BY <2>1 DEF HEADER_LEN
  <2>3. n = 18 + l
    BY <1>1, <2>2
  <2>4. r \in [cmd_code : Int, length : Nat, content : Seq(Byte)]
    BY <1>1
  <2>5. r.length = HEADER_LEN + Len(r.content)
    BY <2>3 DEF HEADER_LEN, l
  <2> HIDE DEF r
  <2> QED BY <2>1, <2>4, <2>5 DEF PacketType
<1> QED BY <1>2, <1>3

\* The packets that are sent.
LEMMA PacketIsBytes ==
  ASSUME NEW cmd \in Commands, NEW content \in Seq(Byte), Len(content) <= MaxContent
  PROVE  PacketBytes(cmd, content) \in Seq(Byte)
<1>1. HEADER_LEN + Len(content) < 256
  BY ConstantsAssumption, LenProperties DEF HEADER_LEN
<1> QED BY <1>1, PacketShape

\* What goes out of a message, and what is left of it.
LEMMA CutType ==
  ASSUME left \in Seq(Byte), NEW n \in Nat, n <= Len(left)
  PROVE  /\ SubSeq(left, 1, n) \in Seq(Byte) /\ Len(SubSeq(left, 1, n)) = n
         /\ \A j \in 1 .. n : SubSeq(left, 1, n)[j] = left[j]
         /\ SubSeq(left, n + 1, Len(left)) \in Seq(Byte)
         /\ Len(SubSeq(left, n + 1, Len(left))) = Len(left) - n
         /\ \A j \in 1 .. Len(left) - n : SubSeq(left, n + 1, Len(left))[j] = left[n + j]
<1> DEFINE l == Len(left)
<1>0. l \in Nat
  BY LenProperties
<1>1. SubSeq(left, 1, n) \in Seq(Byte) /\ Len(SubSeq(left, 1, n)) = n
      /\ \A j \in 1 .. n : SubSeq(left, 1, n)[j] = left[j]
  <2>1. 1 \in 1 .. l + 1 /\ n \in 1 - 1 .. l /\ n - 1 + 1 = n
        /\ \A j \in 1 .. n : 1 + j - 1 = j
    BY <1>0
  <2> DEFINE c == SubSeq(left, 1, n)
  <2>2. /\ c \in Seq(Byte) /\ Len(c) = n - 1 + 1
        /\ \A j \in 1 .. n - 1 + 1 : c[j] = left[1 + j - 1]
    BY <2>1, PartOf
  <2> HIDE DEF c
  <2>3. c \in Seq(Byte) /\ Len(c) = n /\ \A j \in 1 .. n : c[j] = left[j]
    BY <2>1, <2>2
  <2> QED BY <2>3 DEF c
<1>2. SubSeq(left, n + 1, l) \in Seq(Byte) /\ Len(SubSeq(left, n + 1, l)) = l - n
      /\ \A j \in 1 .. l - n : SubSeq(left, n + 1, l)[j] = left[n + j]
  <2>1. n + 1 \in 1 .. l + 1 /\ l \in (n + 1) - 1 .. l /\ l - (n + 1) + 1 = l - n
        /\ \A j \in 1 .. l - n : (n + 1) + j - 1 = n + j
    BY <1>0
  <2> DEFINE r == SubSeq(left, n + 1, l)
  <2>2. /\ r \in Seq(Byte) /\ Len(r) = l - (n + 1) + 1
        /\ \A j \in 1 .. l - (n + 1) + 1 : r[j] = left[(n + 1) + j - 1]
    BY <1>0, <2>1, PartOf
  <2> HIDE DEF r
  <2>3. r \in Seq(Byte) /\ Len(r) = l - n /\ \A j \in 1 .. l - n : r[j] = left[n + j]
    BY <2>1, <2>2
  <2> QED BY <2>3 DEF r
<1> QED BY <1>1, <1>2

\* The steps that put a packet on the wire, and the others of the line.
LEMMA PutType ==
  ASSUME wire \in Seq(Byte), cut \in Seq(0 .. NMessages),
         NEW bytes \in Seq(Byte), NEW last \in 0 .. NMessages, Put(bytes, last)
  PROVE  wire' \in Seq(Byte) /\ cut' \in Seq(0 .. NMessages)
BY Joined, AppendProperties DEF Put

\* Of a packet with a damaged header.
LEMMA DamagedHeader ==
  ASSUME left \in Seq(Byte), DamageHeader
  PROVE  \E n \in Nat, k \in {1, 2, 3, 17, 18}, b \in Byte, cmd \in Commands :
           /\ n <= Len(left) /\ n <= MaxContent
           /\ cmd = IF n = 0 THEN CMD12 ELSE IF n = Len(left) THEN LEVEL2 ELSE FRAGMENT
           /\ Put([PacketBytes(cmd, SubSeq(left, 1, n)) EXCEPT ![k] = b],
                  IF cmd = LEVEL2 THEN begun ELSE 0)
           /\ left' = SubSeq(left, n + 1, Len(left))
           /\ stray' = (stray \/ k <= 3)
<1> DEFINE Cmd(n) == IF n = 0 THEN CMD12 ELSE IF n = Len(left) THEN LEVEL2 ELSE FRAGMENT
<1>1. PICK n \in {0, Len(left)} \cup Cuts, k \in {1, 2, 3, 17, 18}, b \in HeaderJunk :
           /\ n <= Len(left) /\ n <= MaxContent
           /\ Put([PacketBytes(Cmd(n), SubSeq(left, 1, n)) EXCEPT ![k] = b],
                  IF Cmd(n) = LEVEL2 THEN begun ELSE 0)
           /\ left' = SubSeq(left, n + 1, Len(left))
           /\ stray' = (stray \/ k <= 3)
  <2>1. \E n \in {0, Len(left)} \cup Cuts, k \in {1, 2, 3, 17, 18}, b \in HeaderJunk :
           /\ n <= Len(left) /\ n <= MaxContent
           /\ LET cmd == Cmd(n)
                  packet == PacketBytes(cmd, SubSeq(left, 1, n))
              IN  /\ packet[k] # b
                  /\ Put([packet EXCEPT ![k] = b], IF cmd = LEVEL2 THEN begun ELSE 0)
           /\ left' = SubSeq(left, n + 1, Len(left))
           /\ stray' = (stray \/ k <= 3)
    BY Zenon DEF DamageHeader
  <2> HIDE DEF Cmd
  <2> QED BY <2>1, Zenon
<1>2. n \in Nat /\ b \in Byte
  <2>1. Len(left) \in Nat
    BY LenProperties
  <2> QED BY <2>1, ConstantsAssumption
<1>3. Cmd(n) \in Commands
  BY DEF Commands
<1> QED BY <1>1, <1>2, <1>3

LEMMA StepTypeOK == TypeOK /\ [Next]_vars => TypeOK'
<1> SUFFICES ASSUME TypeOK, [Next]_vars PROVE TypeOK'
  OBVIOUS
<1>1. /\ pc \in {"wait", "done", "exit"} /\ PacketType(p) /\ p2 \in Messages \cup {0}
      /\ wire \in Seq(Byte) /\ begun \in 0 .. NMessages /\ left \in Seq(Byte)
      /\ disturbed \subseteq 0 .. NMessages /\ cut \in Seq(0 .. NMessages)
      /\ ended \subseteq Messages /\ accepted \in Seq(Messages) /\ stray \in BOOLEAN
      /\ faults \in 0 .. MaxFaults /\ chatter \in 0 .. MaxChatter
  BY DEF TypeOK, PacketType
<1>2. /\ NMessages \in Nat /\ MaxFaults \in Nat /\ MaxChatter \in Nat
      /\ MaxContent \in Nat /\ Cuts \subseteq Nat /\ 0 \in 0 .. NMessages
      /\ <<>> \in Seq(Byte) /\ <<>> \in Seq(0 .. NMessages)
  BY ConstantsAssumption
<1>3. ASSUME NEW n, Disturb PROVE faults' \in 0 .. MaxFaults
  BY <1>1, <1>2, <1>3 DEF Disturb
<1>4. disturbed \cup {begun} \subseteq 0 .. NMessages
  BY <1>1
<1>5. CASE ReadPacket
  <2>1. PICK bytes \in Arrived :
          /\ wire' = SubSeq(bytes, PacketLen(bytes) + Shortfall(bytes) + 1, Len(bytes))
          /\ Taken(bytes).length >= HEADER_LEN /\ p' = Taken(bytes)
    BY <1>5 DEF ReadPacket
  <2>2. PacketType(p')
    BY <1>1, <2>1, TakenType
  <2>3. wire' \in Seq(Byte)
    <3> DEFINE n == PacketLen(bytes) + Shortfall(bytes)
    <3>1. bytes \in Seq(Byte) /\ Len(bytes) \in Nat /\ n \in Nat /\ n <= Len(bytes)
      BY <1>1, ArrivedType
    <3> HIDE DEF n
    <3>2. n + 1 \in 1 .. Len(bytes) + 1 /\ Len(bytes) \in (n + 1) - 1 .. Len(bytes)
      BY <3>1
    <3>3. SubSeq(bytes, n + 1, Len(bytes)) \in Seq(Byte)
      BY <3>1, <3>2, PartOf
    <3> QED BY <2>1, <3>3 DEF n
  <2>4. cut' \in Seq(0 .. NMessages) /\ EndsHere \in 0 .. NMessages
    <3>1. cut' = IF cut = <<>> THEN cut ELSE Tail(cut)
      BY <1>5 DEF ReadPacket
    <3> QED BY <1>1, <1>2, <3>1, HeadTailProperties DEF EndsHere
  <2>5. ended' \subseteq Messages
    <3>1. ended' = ended \cup ({EndsHere} \ {0})
      BY <1>5 DEF ReadPacket
    <3>2. {EndsHere} \ {0} \subseteq Messages
      BY <1>2, <2>4 DEF Messages
    <3> QED BY <1>1, <3>1, <3>2
  <2>6. p2' \in Messages \cup {0} /\ accepted' \in Seq(Messages)
    <3>1. CASE UNCHANGED <<p2, accepted>>
      BY <1>1, <3>1
    <3>2. ASSUME NEW m \in Sound(p'), p2' = m, accepted' = Append(accepted, m)
          PROVE  p2' \in Messages \cup {0} /\ accepted' \in Seq(Messages)
      <4>1. m \in Messages
        BY <1>1, <1>2 DEF Sound, Messages
      <4> QED BY <1>1, <3>2, <4>1, AppendProperties
    <3> QED BY <1>5, <3>1, <3>2 DEF ReadPacket
  <2>7. pc' \in {"wait", "done", "exit"} /\ UNCHANGED sender
    BY <1>5 DEF ReadPacket
  <2> QED BY <1>1, <2>2, <2>3, <2>4, <2>5, <2>6, <2>7 DEF TypeOK, PacketType, sender
<1>6. CASE WaitAgain \/ Timeout \/ Overrun \/ UNCHANGED vars
  <2>1. /\ UNCHANGED <<p, p2, ended, accepted, sender>>
        /\ pc' \in {"wait", "done", "exit"} /\ cut' \in {cut, <<>>} /\ wire' \in {wire, <<>>}
    BY <1>1, <1>6 DEF WaitAgain, Timeout, Overrun, vars, program
  <2>2. cut' \in Seq(0 .. NMessages) /\ wire' \in Seq(Byte)
    BY <1>1, <1>2, <2>1
  <2> QED BY <1>1, <2>1, <2>2 DEF TypeOK, PacketType, sender
<1>7. CASE Begin
  <2>1. begun' \in 0 .. NMessages /\ begun' \in Messages
    BY <1>1, <1>2, <1>7 DEF Begin, Messages
  <2>2. left' \in Seq(Byte)
    <3>1. left' = Message(begun')
      BY <1>7 DEF Begin
    <3> QED BY <2>1, <3>1, MessageType
  <2> QED BY <1>1, <1>7, <2>1, <2>2 DEF TypeOK, PacketType, Begin, program
<1>8. CASE SendFragment
  <2>1. PICK n \in Cuts : /\ n < Len(left) /\ Put(PacketBytes(FRAGMENT, SubSeq(left, 1, n)), 0)
                          /\ left' = SubSeq(left, n + 1, Len(left))
    BY <1>8 DEF SendFragment
  <2>2. n \in Nat /\ n <= Len(left) /\ n <= MaxContent
    BY <1>2, <2>1, ConstantsAssumption, LenProperties
  <2>3. PacketBytes(FRAGMENT, SubSeq(left, 1, n)) \in Seq(Byte) /\ left' \in Seq(Byte)
    BY <1>1, <2>1, <2>2, CutType, PacketIsBytes DEF Commands
  <2>4. wire' \in Seq(Byte) /\ cut' \in Seq(0 .. NMessages)
    BY <1>1, <1>2, <2>1, <2>3, PutType
  <2> QED BY <1>1, <1>8, <2>3, <2>4 DEF TypeOK, PacketType, SendFragment, program
<1>9. CASE SendLast
  <2>1. PacketBytes(LEVEL2, left) \in Seq(Byte)
    BY <1>1, <1>9, PacketIsBytes DEF SendLast, Commands
  <2>2. wire' \in Seq(Byte) /\ cut' \in Seq(0 .. NMessages)
    BY <1>1, <1>9, <2>1, PutType DEF SendLast
  <2> QED BY <1>1, <1>2, <1>9, <2>2 DEF TypeOK, PacketType, SendLast, program
<1>10. CASE Chatter
  <2>1. PICK content \in {<<>>, <<START, 255>>} : Put(PacketBytes(CMD12, content), 0)
    BY <1>10 DEF Chatter
  <2>2. content \in Seq(Byte) /\ Len(content) <= MaxContent
    <3>1. CASE content = <<>>
      BY <3>1, <1>2
    <3>2. CASE content = <<START, 255>>
      BY <3>2, ConstantsAssumption DEF START, Byte
    <3> QED BY <3>1, <3>2
  <2>3. PacketBytes(CMD12, content) \in Seq(Byte)
    BY <2>2, PacketIsBytes DEF Commands
  <2>4. wire' \in Seq(Byte) /\ cut' \in Seq(0 .. NMessages)
    BY <1>1, <1>2, <2>1, <2>3, PutType
  <2>5. chatter' \in 0 .. MaxChatter /\ disturbed' \subseteq 0 .. NMessages
    BY <1>1, <1>2, <1>4, <1>10 DEF Chatter
  <2> QED BY <1>1, <1>10, <2>4, <2>5 DEF TypeOK, PacketType, Chatter, program
<1>11. CASE Noise \/ StrayStart
  <2>1. PICK b \in Byte : wire' = Append(wire, b)
    BY <1>11, NoiseIsBytes DEF Noise, StrayStart
  <2>2. wire' \in Seq(Byte) /\ stray' \in BOOLEAN
    BY <1>1, <1>11, <2>1, AppendProperties DEF Noise, StrayStart
  <2>3. /\ Disturb /\ UNCHANGED <<program, cut, begun, left, disturbed, chatter>>
    BY <1>11 DEF Noise, StrayStart
  <2> QED BY <1>1, <1>3, <2>2, <2>3 DEF TypeOK, PacketType, program
<1>12. CASE LosePart \/ DamagePart
  <2>1. left' \in Seq(Byte)
    <3>1. CASE LosePart
      <4>1. PICK n \in Cuts \cup {Len(left)} : n <= Len(left) /\ left' = SubSeq(left, n + 1, Len(left))
        BY <3>1 DEF LosePart
      <4>2. n \in Nat
        BY <1>1, <1>2, LenProperties
      <4> QED BY <1>1, <4>1, <4>2, CutType
    <3>2. CASE DamagePart
      <4>1. PICK k \in 1 .. Len(left), b \in Byte : left' = [left EXCEPT ![k] = b]
        BY <3>2, NoiseIsBytes DEF DamagePart
      <4> QED BY <1>1, <4>1, ExceptSeq
    <3> QED BY <1>12, <3>1, <3>2
  <2>2. Disturb /\ disturbed' = disturbed \cup {begun}
        /\ UNCHANGED <<program, wire, cut, begun, stray, chatter>>
    BY <1>12 DEF LosePart, DamagePart
  <2> QED BY <1>1, <1>3, <1>4, <2>1, <2>2 DEF TypeOK, PacketType, program
<1>13. CASE DamageHeader
  <2>1. PICK n \in Nat, k \in {1, 2, 3, 17, 18}, b \in Byte, cmd \in Commands :
           /\ n <= Len(left) /\ n <= MaxContent
           /\ cmd = IF n = 0 THEN CMD12 ELSE IF n = Len(left) THEN LEVEL2 ELSE FRAGMENT
           /\ Put([PacketBytes(cmd, SubSeq(left, 1, n)) EXCEPT ![k] = b],
                  IF cmd = LEVEL2 THEN begun ELSE 0)
           /\ left' = SubSeq(left, n + 1, Len(left))
           /\ stray' = (stray \/ k <= 3)
    <3>1. left \in Seq(Byte)
      BY <1>1
    <3> QED BY <1>13, <3>1, DamagedHeader, Zenon
  <2> DEFINE packet == PacketBytes(cmd, SubSeq(left, 1, n))
             damaged == [packet EXCEPT ![k] = b]
  <2>2. left' \in Seq(Byte) /\ SubSeq(left, 1, n) \in Seq(Byte) /\ Len(SubSeq(left, 1, n)) = n
    BY <1>1, <2>1, CutType
  <2>3. HEADER_LEN + n < 256
    BY <1>2, <2>1, ConstantsAssumption DEF HEADER_LEN
  <2>4. packet \in Seq(Byte) /\ Len(packet) = 18 + n
    <3>1. packet \in Seq(Byte) /\ Len(packet) = HEADER_LEN + Len(SubSeq(left, 1, n))
      BY <2>2, <2>3, PacketShape
    <3> QED BY <2>2, <3>1 DEF HEADER_LEN
  <2> HIDE DEF packet
  <2>5. damaged \in Seq(Byte)
    <3>1. k \in 1 .. Len(packet)
      BY <2>4
    <3> QED BY <2>4, <3>1, ExceptSeq
  <2> HIDE DEF damaged
  <2>6. wire' \in Seq(Byte) /\ cut' \in Seq(0 .. NMessages)
    <3>1. Put(damaged, IF cmd = LEVEL2 THEN begun ELSE 0)
      BY <2>1 DEF packet, damaged
    <3>2. (IF cmd = LEVEL2 THEN begun ELSE 0) \in 0 .. NMessages
      BY <1>1, <1>2
    <3> QED BY <1>1, <2>5, <3>1, <3>2, PutType
  <2>7. stray' \in BOOLEAN
    BY <2>1
  <2>8. Disturb /\ disturbed' = disturbed \cup {begun} /\ UNCHANGED <<program, begun, chatter>>
    BY <1>13 DEF DamageHeader
  <2> QED BY <1>1, <1>3, <1>4, <2>2, <2>6, <2>7, <2>8 DEF TypeOK, PacketType, program
<1> QED BY <1>5, <1>6, <1>7, <1>8, <1>9, <1>10, <1>11, <1>12, <1>13 DEF Next, Sender, Ended

\* The variables have their types, whatever headers say: in particular the
\* content of p is as long as its length says.
THEOREM TypeCorrect == Spec => []TypeOK
<1>1. Init => TypeOK
  <2> SUFFICES ASSUME Init PROVE TypeOK
    OBVIOUS
  <2>1. /\ pc = "wait" /\ p = Cleared /\ p2 = 0 /\ wire = <<>> /\ begun = 0 /\ left = <<>>
        /\ disturbed = {} /\ cut = <<>> /\ ended = {} /\ accepted = <<>> /\ stray = FALSE
        /\ faults = 0 /\ chatter = 0
    BY Zenon DEF Init
  <2>2. Cleared \in [cmd_code : Int, length : Nat, content : Seq(Byte)]
    BY DEF Cleared
  <2>3. /\ NMessages \in Nat /\ MaxFaults \in Nat /\ MaxChatter \in Nat
    BY ConstantsAssumption
  <2>4. stray \in BOOLEAN
    BY <2>1, Zenon
  <2>5. /\ pc \in {"wait", "done", "exit"} /\ p2 \in Messages \cup {0}
        /\ wire \in Seq(Byte) /\ left \in Seq(Byte) /\ cut \in Seq(0 .. NMessages)
        /\ accepted \in Seq(Messages) /\ ended \subseteq Messages
        /\ disturbed \subseteq 0 .. NMessages /\ begun \in 0 .. NMessages
        /\ faults \in 0 .. MaxFaults /\ chatter \in 0 .. MaxChatter
    BY <2>1, <2>3
  <2>6. p \in [cmd_code : Int, length : Nat, content : Seq(Byte)] /\ p = Cleared
    BY <2>1, <2>2
  <2> QED BY <2>4, <2>5, <2>6 DEF TypeOK
<1> QED BY <1>1, StepTypeOK, PTL DEF Spec

----------------------------------------------------------------------------
(* Packets on the wire.  A part is a packet under way: where it begins, its *)
(* command code and content, the message it belongs to, and how much of    *)
(* that message went out before it.                                        *)

Part == [at : Nat \ {0}, cmd : Int, content : Seq(Byte), of : Nat, off : Nat]
Size(q) == HEADER_LEN + Len(q.content)

\* The bytes of a part.  A damaged command code is the one they have.
Shape(b, q) ==
  /\ b \in Seq(Byte) /\ Len(b) = Size(q)
  /\ b[1] = START /\ b[2] = Size(q) /\ b[3] = 0
  /\ Code(b[17], b[18]) = q.cmd
  /\ \A j \in 1 .. Len(q.content) : b[HEADER_LEN + j] = q.content[j]

OnWire(q, w) ==
  /\ Size(q) < 256
  /\ q.at + Size(q) <= Len(w) + 1
  /\ w[q.at] = START /\ w[q.at + 1] = Size(q) /\ w[q.at + 2] = 0
  /\ Code(w[q.at + 16], w[q.at + 17]) = q.cmd
  /\ \A j \in 1 .. Len(q.content) : w[q.at + 17 + j] = q.content[j]

Within(i, q) == q.at <= i /\ i < q.at + Size(q)

\* The parts lie one behind the other, and start bytes are found in them only.
Layout(parts, w) ==
  /\ \A k \in DOMAIN parts : OnWire(parts[k], w)
  /\ \A k, l \in DOMAIN parts : k < l => parts[k].at + Size(parts[k]) <= parts[l].at
  /\ \A i \in DOMAIN w : w[i] = START => \E k \in DOMAIN parts : Within(i, parts[k])

\* The sizes of parts are numbers.
LEMMA PartType ==
  ASSUME NEW q \in Part
  PROVE  /\ q.at \in Nat /\ q.at > 0 /\ q.of \in Nat /\ q.off \in Nat
         /\ q.cmd \in Int
         /\ q.content \in Seq(Byte) /\ Len(q.content) \in Nat
         /\ Size(q) = 18 + Len(q.content) /\ Size(q) \in Nat
<1>1. q.content \in Seq(Byte) /\ Len(q.content) \in Nat
  BY DEF Part
<1>2. Size(q) = 18 + Len(q.content)
  BY DEF Size, HEADER_LEN
<1>3. \A k \in Nat : 18 + k \in Nat
  OBVIOUS
<1> QED BY <1>1, <1>2, <1>3 DEF Part

\* An undamaged packet.
LEMMA PacketShaped ==
  ASSUME NEW q \in Part, q.cmd \in Commands, Size(q) < 256
  PROVE  Shape(PacketBytes(q.cmd, q.content), q)
<1> DEFINE b == PacketBytes(q.cmd, q.content)
<1>1. q.content \in Seq(Byte) /\ HEADER_LEN + Len(q.content) < 256
  BY PartType DEF Size
<1>2. /\ b \in Seq(Byte) /\ Len(b) = HEADER_LEN + Len(q.content)
      /\ b[1] = START /\ b[2] = HEADER_LEN + Len(q.content) /\ b[3] = 0
      /\ b[17] = q.cmd /\ b[18] = 0
      /\ \A j \in 1 .. Len(q.content) : b[HEADER_LEN + j] = q.content[j]
  BY <1>1, PacketShape
<1> HIDE DEF b
<1>3. Code(q.cmd, 0) = q.cmd
  BY DEF Code, Char, Value, Commands, LEVEL2, FRAGMENT, CMD12
<1> QED BY <1>2, <1>3 DEF Shape, Size, b

\* The hunt for a start byte stops at the first part, and what is read there
\* is what was put there.
LEMMA FirstPart ==
  ASSUME wire \in Seq(Byte), NEW parts \in Seq(Part), Layout(parts, wire),
         NEW bytes \in Arrived
  PROVE  /\ parts # <<>>
         /\ bytes = SubSeq(wire, parts[1].at, Len(wire))
         /\ bytes \in Seq(Byte) /\ Len(bytes) = Len(wire) + 1 - parts[1].at
         /\ PacketLen(bytes) = Size(parts[1])
         /\ CmdCode(bytes) = parts[1].cmd
         /\ Content(bytes) = parts[1].content
<1>0. Len(wire) \in Nat /\ DOMAIN wire = 1 .. Len(wire)
      /\ Len(parts) \in Nat /\ DOMAIN parts = 1 .. Len(parts)
      /\ \A k \in DOMAIN parts : parts[k] \in Part
  BY LenProperties, ElementOfSeq
<1>1. PICK i \in DOMAIN wire :
        /\ wire[i] = START /\ \A j \in 1 .. i - 1 : wire[j] # START
        /\ bytes = SubSeq(wire, i, Len(wire))
  BY DEF Arrived, Hunted
<1>2. PICK k \in DOMAIN parts : Within(i, parts[k])
  BY <1>1 DEF Layout
<1>3. 1 \in DOMAIN parts /\ parts # <<>>
  BY <1>0, <1>2
<1> DEFINE q == parts[1]
<1>4. q \in Part /\ OnWire(q, wire)
  BY <1>0, <1>3 DEF Layout
<1>5. /\ q.at \in Nat /\ q.at > 0 /\ q.cmd \in Int /\ q.content \in Seq(Byte)
      /\ Len(q.content) \in Nat /\ Size(q) = 18 + Len(q.content) /\ Size(q) \in Nat
  BY <1>4, PartType
<1>6. q.at <= i
  <2>1. CASE k = 1
    BY <1>2, <2>1 DEF Within
  <2>2. CASE k # 1
    <3>1. 1 < k
      BY <1>0, <1>2, <2>2
    <3>2. q.at + Size(q) <= parts[k].at /\ parts[k].at <= i
      BY <1>2, <1>3, <3>1 DEF Layout, Within
    <3>3. parts[k].at \in Nat /\ i \in Nat
      BY <1>0, <1>2, PartType
    <3> QED BY <1>5, <3>2, <3>3
  <2> QED BY <2>1, <2>2
<1>7. i = q.at
  <2>1. wire[q.at] = START
    BY <1>4 DEF OnWire
  <2> QED BY <1>0, <1>1, <1>5, <1>6, <2>1
<1>8. q.at + Size(q) <= Len(wire) + 1 /\ Size(q) < 256
  BY <1>4 DEF OnWire
<1> HIDE DEF q
<1> DEFINE n == Len(wire) + 1 - q.at
<1>9. /\ q.at \in 1 .. Len(wire) + 1 /\ Len(wire) \in q.at - 1 .. Len(wire)
      /\ Len(wire) - q.at + 1 = n /\ n \in Nat /\ Size(q) <= n
  <2>1. \A l, a, z \in Nat : a > 0 /\ a + z <= l + 1 =>
          /\ a \in 1 .. l + 1 /\ l \in a - 1 .. l
          /\ l - a + 1 = l + 1 - a /\ l + 1 - a \in Nat /\ z <= l + 1 - a
    OBVIOUS
  <2> QED BY <1>0, <1>5, <1>8, <2>1
<1>10. bytes = SubSeq(wire, q.at, Len(wire))
  BY <1>1, <1>7
<1>11. /\ bytes \in Seq(Byte) /\ Len(bytes) = n
       /\ \A j \in 1 .. n : bytes[j] = wire[q.at + j - 1]
  BY <1>9, <1>10, PartOf
<1>12. \A j \in 1 .. Size(q) : bytes[j] = wire[q.at + j - 1]
  BY <1>5, <1>9, <1>11, SMTT(30)
<1>13. bytes[2] = Size(q) /\ bytes[3] = 0 /\ Code(bytes[17], bytes[18]) = q.cmd
  <2>1. /\ 2 \in 1 .. Size(q) /\ 3 \in 1 .. Size(q) /\ 17 \in 1 .. Size(q) /\ 18 \in 1 .. Size(q)
        /\ q.at + 2 - 1 = q.at + 1 /\ q.at + 3 - 1 = q.at + 2
        /\ q.at + 17 - 1 = q.at + 16 /\ q.at + 18 - 1 = q.at + 17
    BY <1>5
  <2> QED BY <1>4, <1>12, <2>1, Zenon DEF OnWire, q
<1>14. PacketLen(bytes) = Size(q) /\ CmdCode(bytes) = q.cmd
  BY <1>5, <1>13 DEF PacketLen, CmdCode, Value
<1>15. Content(bytes) = q.content
  <2> DEFINE c == SubSeq(bytes, 19, Size(q))
  <2>1. 19 \in 1 .. Len(bytes) + 1 /\ Size(q) \in 19 - 1 .. Len(bytes) /\ Size(q) - 19 + 1 = Len(q.content)
    <3>1. \A l, z, u \in Nat : z <= l /\ z = 18 + u =>
            19 \in 1 .. l + 1 /\ z \in 19 - 1 .. l /\ z - 19 + 1 = u
      OBVIOUS
    <3>2. Len(bytes) = n /\ n \in Nat /\ Size(q) <= n
      BY <1>9, <1>11
    <3> HIDE DEF n
    <3> QED BY <1>5, <3>1, <3>2
  <2>2. /\ c \in Seq(Byte) /\ Len(c) = Len(q.content)
        /\ \A j \in 1 .. Len(q.content) : c[j] = bytes[19 + j - 1]
    BY <1>11, <2>1, PartOf, SMTT(60)
  <2>3. ASSUME NEW j \in 1 .. Len(q.content) PROVE c[j] = q.content[j]
    <3>1. 19 + j - 1 \in 1 .. Size(q) /\ q.at + (19 + j - 1) - 1 = q.at + 17 + j
      BY <1>5
    <3>2. wire[q.at + 17 + j] = q.content[j]
      BY <1>4 DEF OnWire, q
    <3> QED BY <1>12, <2>2, <3>1, <3>2
  <2>4. c = q.content
    <3> HIDE DEF c
    <3> QED BY <1>5, <2>2, <2>3, SameBytes
  <2> QED BY <1>14, <2>4 DEF Content, HEADER_LEN
<1> QED BY <1>3, <1>10, <1>11, <1>14, <1>15 DEF q

\* What is left on the wire when the first part has been read.
Moved(parts, d) ==
  [k \in 1 .. Len(parts) - 1 |-> [parts[k + 1] EXCEPT !.at = @ - d]]

LEMMA RestOfWire ==
  ASSUME NEW w \in Seq(Byte), NEW parts \in Seq(Part), Layout(parts, w), parts # <<>>,
         NEW d, d = parts[1].at + Size(parts[1]) - 1
  PROVE  /\ d \in 0 .. Len(w)
         /\ Moved(parts, d) \in Seq(Part) /\ Len(Moved(parts, d)) = Len(parts) - 1
         /\ SubSeq(w, d + 1, Len(w)) \in Seq(Byte)
         /\ Layout(Moved(parts, d), SubSeq(w, d + 1, Len(w)))
<1> DEFINE v == SubSeq(w, d + 1, Len(w))
           ms == Moved(parts, d)
<1>0. Len(w) \in Nat /\ DOMAIN w = 1 .. Len(w)
      /\ Len(parts) \in Nat /\ DOMAIN parts = 1 .. Len(parts) /\ 1 \in DOMAIN parts
      /\ \A k \in DOMAIN parts : parts[k] \in Part
  BY LenProperties, ElementOfSeq, EmptySeq
<1>1. d \in 0 .. Len(w) /\ d >= parts[1].at
  <2>1. OnWire(parts[1], w) /\ parts[1] \in Part
    BY <1>0 DEF Layout
  <2>2. parts[1].at + Size(parts[1]) <= Len(w) + 1
    BY <2>1 DEF OnWire
  <2>3. parts[1].at \in Nat /\ parts[1].at > 0 /\ Size(parts[1]) \in Nat /\ Size(parts[1]) >= 18
    BY <2>1, PartType, SMTT(60)
  <2> QED BY <1>0, <2>2, <2>3
<1>2. /\ v \in Seq(Byte) /\ Len(v) = Len(w) - d
      /\ \A j \in 1 .. Len(w) - d : v[j] = w[d + j]
  <2>1. d + 1 \in 1 .. Len(w) + 1 /\ Len(w) \in (d + 1) - 1 .. Len(w) /\ Len(w) - (d + 1) + 1 = Len(w) - d
    BY <1>0, <1>1
  <2>2. /\ v \in Seq(Byte) /\ Len(v) = Len(w) - d
        /\ \A j \in 1 .. Len(w) - d : v[j] = w[(d + 1) + j - 1]
    BY <2>1, PartOf, SMTT(30)
  <2>3. \A j \in 1 .. Len(w) - d : (d + 1) + j - 1 = d + j
    BY <1>0, <1>1
  <2> QED BY <2>2, <2>3
<1>3. ASSUME NEW k \in 1 .. Len(parts) - 1
      PROVE  /\ k + 1 \in DOMAIN parts /\ parts[k + 1] \in Part
             /\ parts[k + 1].at > d /\ parts[k + 1].at - d \in Nat \ {0}
             /\ ms[k] = [parts[k + 1] EXCEPT !.at = @ - d]
             /\ ms[k] \in Part /\ ms[k].at = parts[k + 1].at - d
             /\ ms[k].cmd = parts[k + 1].cmd /\ ms[k].content = parts[k + 1].content
             /\ ms[k].of = parts[k + 1].of /\ ms[k].off = parts[k + 1].off
             /\ Size(ms[k]) = Size(parts[k + 1])
  <2>1. k + 1 \in DOMAIN parts /\ 1 < k + 1
    BY <1>0
  <2>2. parts[k + 1] \in Part /\ parts[1] \in Part
    BY <1>0, <2>1
  <2>3. parts[1].at + Size(parts[1]) <= parts[k + 1].at
    BY <1>0, <2>1 DEF Layout
  <2>4. /\ parts[1].at \in Nat /\ Size(parts[1]) \in Nat /\ parts[k + 1].at \in Nat
    BY <2>2, PartType
  <2>5. parts[k + 1].at > d /\ parts[k + 1].at - d \in Nat \ {0}
    BY <1>1, <2>3, <2>4, SMTT(30)
  <2>6. ms[k] = [parts[k + 1] EXCEPT !.at = @ - d]
    BY DEF Moved
  <2> HIDE DEF ms
  <2>7. /\ ms[k] \in Part /\ ms[k].at = parts[k + 1].at - d
        /\ ms[k].cmd = parts[k + 1].cmd /\ ms[k].content = parts[k + 1].content
        /\ ms[k].of = parts[k + 1].of /\ ms[k].off = parts[k + 1].off
    BY <2>2, <2>5, <2>6 DEF Part
  <2> QED BY <2>1, <2>2, <2>5, <2>6, <2>7 DEF Size
<1>4. ms \in Seq(Part) /\ Len(ms) = Len(parts) - 1 /\ DOMAIN ms = 1 .. Len(parts) - 1
  <2>1. Len(parts) - 1 \in Nat
    BY <1>0
  <2>2. ms \in [1 .. Len(parts) - 1 -> Part]
    BY <1>3 DEF Moved
  <2> QED BY <2>1, <2>2
<1> HIDE DEF ms, v
<1>5. ASSUME NEW k \in DOMAIN ms PROVE OnWire(ms[k], v)
  <2> DEFINE q == parts[k + 1]
  <2>0. k \in 1 .. Len(parts) - 1
    BY <1>4
  <2>1. /\ OnWire(q, w) /\ q \in Part /\ q.at > d
        /\ ms[k].at = q.at - d /\ ms[k].cmd = q.cmd /\ ms[k].content = q.content /\ Size(ms[k]) = Size(q)
    BY <1>3, <2>0 DEF Layout
  <2>2. /\ q.at \in Nat /\ Len(q.content) \in Nat /\ Size(q) = 18 + Len(q.content)
        /\ Size(q) \in Nat
    BY <2>1, PartType
  <2>3. /\ q.at + Size(q) <= Len(w) + 1 /\ Size(q) < 256
        /\ w[q.at] = START /\ w[q.at + 1] = Size(q) /\ w[q.at + 2] = 0
        /\ Code(w[q.at + 16], w[q.at + 17]) = q.cmd
        /\ \A j \in 1 .. Len(q.content) : w[q.at + 17 + j] = q.content[j]
    BY <2>1 DEF OnWire
  <2> HIDE DEF q
  <2>4. ASSUME NEW j \in 0 .. Size(q) - 1 PROVE v[(q.at - d) + j] = w[q.at + j]
    <3>1. (q.at - d) + j \in 1 .. Len(w) - d /\ d + ((q.at - d) + j) = q.at + j
      <4>1. d \in Nat /\ j \in Nat /\ j < Size(q)
        BY <1>0, <1>1, <2>2
      <4>2. /\ Len(w) \in Nat /\ q.at \in Nat /\ Size(q) \in Nat
            /\ q.at > d /\ q.at + Size(q) <= Len(w) + 1
        BY <1>0, <2>1, <2>2, <2>3
      <4> QED BY <4>1, <4>2, SMTT(30)
    <3> QED BY <1>2, <3>1
  <2>5. /\ v[q.at - d] = START /\ v[(q.at - d) + 1] = Size(q) /\ v[(q.at - d) + 2] = 0
        /\ Code(v[(q.at - d) + 16], v[(q.at - d) + 17]) = q.cmd
    <3>1. /\ 0 \in 0 .. Size(q) - 1 /\ 1 \in 0 .. Size(q) - 1 /\ 2 \in 0 .. Size(q) - 1
          /\ 16 \in 0 .. Size(q) - 1 /\ 17 \in 0 .. Size(q) - 1
          /\ (q.at - d) + 0 = q.at - d /\ q.at + 0 = q.at
      BY <1>1, <2>2
    <3> QED BY <2>3, <2>4, <3>1
  <2>6. ASSUME NEW j \in 1 .. Len(q.content) PROVE v[(q.at - d) + 17 + j] = q.content[j]
    <3>1. /\ 17 + j \in 0 .. Size(q) - 1 /\ (q.at - d) + (17 + j) = (q.at - d) + 17 + j
          /\ q.at + (17 + j) = q.at + 17 + j
      <4>1. d \in Nat /\ j \in Nat /\ j <= Len(q.content)
        BY <1>0, <1>1, <2>2
      <4>2. Size(q) - 1 = 17 + Len(q.content) /\ 17 + j <= 17 + Len(q.content) /\ 17 + j \in Nat
        BY <2>2, <4>1
      <4>3. 17 + j \in 0 .. Size(q) - 1
        BY <2>2, <4>2
      <4>4. /\ (q.at - d) + (17 + j) = (q.at - d) + 17 + j
            /\ q.at + (17 + j) = q.at + 17 + j
        BY <2>2, <4>1
      <4> QED BY <4>3, <4>4
    <3> QED BY <2>3, <2>4, <3>1
  <2>7. (q.at - d) + Size(q) <= Len(v) + 1
    <3>1. \A l, e, a, z \in Nat : a + z <= l + 1 => (a - e) + z <= (l - e) + 1
      OBVIOUS
    <3>2. d \in Nat
      BY <1>0, <1>1
    <3> QED BY <1>0, <1>2, <2>2, <2>3, <3>1, <3>2
  <2> QED BY <2>1, <2>3, <2>5, <2>6, <2>7 DEF OnWire, q
<1>6. ASSUME NEW k \in DOMAIN ms, NEW l \in DOMAIN ms, k < l
      PROVE  ms[k].at + Size(ms[k]) <= ms[l].at
  <2>0. k \in 1 .. Len(parts) - 1 /\ l \in 1 .. Len(parts) - 1
    BY <1>4
  <2>1. /\ k + 1 \in DOMAIN parts /\ l + 1 \in DOMAIN parts /\ k + 1 < l + 1
        /\ parts[k + 1] \in Part /\ parts[l + 1] \in Part
        /\ ms[k].at = parts[k + 1].at - d /\ ms[l].at = parts[l + 1].at - d
        /\ Size(ms[k]) = Size(parts[k + 1])
    <3>1. k + 1 < l + 1
      BY <1>0, <1>6, <2>0
    <3> QED BY <1>3, <2>0, <3>1
  <2>2. parts[k + 1].at + Size(parts[k + 1]) <= parts[l + 1].at
    BY <2>1 DEF Layout
  <2>3. parts[k + 1].at \in Nat /\ Size(parts[k + 1]) \in Nat /\ parts[l + 1].at \in Nat
    BY <2>1, PartType
  <2> QED BY <1>1, <2>1, <2>2, <2>3
<1>7. ASSUME NEW i \in DOMAIN v, v[i] = START PROVE \E k \in DOMAIN ms : Within(i, ms[k])
  <2>0. DOMAIN v = 1 .. Len(w) - d
    BY <1>2, LenProperties
  <2>1. i \in 1 .. Len(w) - d /\ d + i \in DOMAIN w /\ w[d + i] = START
    <3>1. i \in 1 .. Len(w) - d /\ d \in Nat /\ Len(w) \in Nat /\ v[i] = w[d + i]
      BY <1>0, <1>1, <1>2, <1>7, <2>0
    <3>2. d + i \in 1 .. Len(w)
      BY <3>1
    <3> QED BY <1>0, <1>7, <3>1, <3>2, Zenon
  <2>2. PICK l \in DOMAIN parts : Within(d + i, parts[l])
    BY <2>1 DEF Layout
  <2>3. l # 1
    <3>1. parts[1].at \in Nat /\ Size(parts[1]) \in Nat
      BY <1>0, PartType
    <3>2. ~(d + i < parts[1].at + Size(parts[1]))
      <4>1. \A a, z, j \in Nat : j >= 1 => ~((a + z - 1) + j < a + z)
        OBVIOUS
      <4>2. i \in Nat /\ i >= 1
        BY <2>1
      <4>3. d = parts[1].at + Size(parts[1]) - 1
        OBVIOUS
      <4> QED BY <3>1, <4>1, <4>2, <4>3
    <3> QED BY <2>2, <3>2 DEF Within
  <2>4. l - 1 \in 1 .. Len(parts) - 1 /\ (l - 1) + 1 = l
    BY <1>0, <2>2, <2>3
  <2>5. ms[l - 1].at = parts[l].at - d /\ Size(ms[l - 1]) = Size(parts[l]) /\ parts[l] \in Part
    BY <1>3, <2>4
  <2>6. parts[l].at \in Nat /\ Size(parts[l]) \in Nat
    BY <2>5, PartType
  <2>7. Within(i, ms[l - 1])
    BY <1>1, <2>1, <2>2, <2>5, <2>6, SMTT(30) DEF Within
  <2> QED BY <1>4, <2>4, <2>7
<1> QED BY <1>1, <1>2, <1>4, <1>5, <1>6, <1>7 DEF Layout, ms, v

\* A part stays where it is when the wire gets longer.
LEMMA OnLongerWire ==
  ASSUME NEW w \in Seq(Byte), NEW v \in Seq(Byte), NEW q \in Part, OnWire(q, w),
         Len(w) <= Len(v), \A i \in 1 .. Len(w) : v[i] = w[i]
  PROVE  OnWire(q, v)
<1>1. /\ q.at \in Nat /\ q.at > 0 /\ Len(q.content) \in Nat
      /\ Size(q) = 18 + Len(q.content) /\ Size(q) \in Nat /\ Len(w) \in Nat /\ Len(v) \in Nat
  BY PartType
<1>2. /\ Size(q) < 256 /\ q.at + Size(q) <= Len(w) + 1
      /\ w[q.at] = START /\ w[q.at + 1] = Size(q) /\ w[q.at + 2] = 0
      /\ Code(w[q.at + 16], w[q.at + 17]) = q.cmd
      /\ \A j \in 1 .. Len(q.content) : w[q.at + 17 + j] = q.content[j]
  BY DEF OnWire
<1>3. ASSUME NEW j \in Nat, j < Size(q) PROVE v[q.at + j] = w[q.at + j]
  <2>1. q.at + j \in 1 .. Len(w)
    <3>1. q.at + Size(q) <= Len(w) + 1
      BY <1>2
    <3> QED BY <1>1, <1>3, <3>1
  <2> QED BY <2>1
<1>4. 0 < Size(q) /\ 1 < Size(q) /\ 2 < Size(q) /\ 16 < Size(q) /\ 17 < Size(q) /\ q.at + 0 = q.at
  BY <1>1
<1>5. /\ v[q.at] = START /\ v[q.at + 1] = Size(q) /\ v[q.at + 2] = 0
      /\ Code(v[q.at + 16], v[q.at + 17]) = q.cmd
  <2>0. 0 \in Nat /\ 1 \in Nat /\ 2 \in Nat /\ 16 \in Nat /\ 17 \in Nat
    OBVIOUS
  <2>1. /\ v[q.at + 0] = w[q.at + 0] /\ v[q.at + 1] = w[q.at + 1] /\ v[q.at + 2] = w[q.at + 2]
        /\ v[q.at + 16] = w[q.at + 16] /\ v[q.at + 17] = w[q.at + 17]
    BY <1>3, <1>4, <2>0, Zenon
  <2> QED BY <1>2, <1>4, <2>1, Zenon
<1>6. ASSUME NEW j \in 1 .. Len(q.content) PROVE v[q.at + 17 + j] = q.content[j]
  <2>1. 17 + j \in Nat /\ 17 + j < Size(q) /\ q.at + (17 + j) = q.at + 17 + j
    <3>1. \A l \in Nat : \A i \in 1 .. l : 17 + i \in Nat /\ 17 + i < 18 + l
      OBVIOUS
    <3>2. \A a, i \in Nat : a + (17 + i) = a + 17 + i
      OBVIOUS
    <3>3. Len(q.content) \in Nat /\ q.at \in Nat /\ j \in Nat /\ Size(q) = 18 + Len(q.content)
      BY <1>1
    <3> QED BY <3>1, <3>2, <3>3, Zenon
  <2> QED BY <1>2, <1>3, <2>1
<1>7. q.at + Size(q) <= Len(v) + 1
  <2>1. q.at + Size(q) <= Len(w) + 1 /\ Len(w) <= Len(v)
    BY <1>2
  <2> QED BY <1>1, <2>1
<1> QED BY <1>2, <1>5, <1>6, <1>7 DEF OnWire

\* A byte that is no start byte changes nothing.
LEMMA QuietByte ==
  ASSUME NEW w \in Seq(Byte), NEW parts \in Seq(Part), Layout(parts, w),
         NEW b \in Byte, b # START
  PROVE  Append(w, b) \in Seq(Byte) /\ Layout(parts, Append(w, b))
<1> DEFINE v == Append(w, b)
<1>1. /\ v \in Seq(Byte) /\ Len(v) = Len(w) + 1 /\ Len(w) \in Nat
      /\ \A i \in 1 .. Len(w) : v[i] = w[i]
      /\ v[Len(w) + 1] = b
  BY AppendProperties
<1> HIDE DEF v
<1>2. \A k \in DOMAIN parts : parts[k] \in Part
  BY ElementOfSeq, LenProperties
<1>3. Len(w) <= Len(v)
  BY <1>1
<1>4. ASSUME NEW k \in DOMAIN parts PROVE OnWire(parts[k], v)
  BY <1>1, <1>2, <1>3, OnLongerWire DEF Layout
<1>5. ASSUME NEW i \in DOMAIN v, v[i] = START
      PROVE  \E k \in DOMAIN parts : Within(i, parts[k])
  <2>1. i \in 1 .. Len(w) + 1 /\ i # Len(w) + 1
    BY <1>1, <1>5
  <2>2. i \in DOMAIN w /\ w[i] = START
    BY <1>1, <1>5, <2>1
  <2> QED BY <2>2 DEF Layout
<1> QED BY <1>1, <1>4, <1>5 DEF Layout, v

\* A packet is put behind what is there.
LEMMA OnePartMore ==
  ASSUME NEW w \in Seq(Byte), NEW parts \in Seq(Part), Layout(parts, w),
         NEW q \in Part, Size(q) < 256, q.at = Len(w) + 1, NEW b, Shape(b, q)
  PROVE  LET v == w \o b
         IN  /\ v \in Seq(Byte) /\ Append(parts, q) \in Seq(Part)
             /\ Layout(Append(parts, q), v)
<1> DEFINE v == w \o b
           more == Append(parts, q)
<1>0. /\ q.content \in Seq(Byte) /\ Len(q.content) \in Nat
      /\ Size(q) = 18 + Len(q.content) /\ Size(q) \in Nat /\ Len(w) \in Nat
      /\ HEADER_LEN + Len(q.content) = Size(q)
  BY PartType DEF Part, Size
<1>1. /\ b \in Seq(Byte) /\ Len(b) = Size(q)
      /\ b[1] = START /\ b[2] = Size(q) /\ b[3] = 0
      /\ Code(b[17], b[18]) = q.cmd
      /\ \A j \in 1 .. Len(q.content) : b[18 + j] = q.content[j]
  BY DEF Shape, HEADER_LEN
<1>2. /\ v \in Seq(Byte) /\ Len(v) = Len(w) + Len(b)
      /\ \A i \in 1 .. Len(w) : v[i] = w[i]
      /\ \A i \in 1 .. Len(b) : v[Len(w) + i] = b[i]
  BY <1>1, Joined
<1> HIDE DEF v
<1>3. /\ more \in Seq(Part) /\ Len(more) = Len(parts) + 1 /\ Len(parts) \in Nat
      /\ \A k \in 1 .. Len(parts) : more[k] = parts[k] /\ parts[k] \in Part
      /\ more[Len(parts) + 1] = q
  BY AppendProperties, ElementOfSeq, LenProperties
<1> HIDE DEF more
<1>4. Len(v) = Len(w) + Size(q) /\ Len(w) <= Len(v)
  BY <1>0, <1>1, <1>2
<1>5. OnWire(q, v)
  <2>1. ASSUME NEW j \in Nat, j < Size(q) PROVE v[q.at + j] = b[1 + j]
    <3>1. 1 + j \in 1 .. Len(b) /\ Len(w) + (1 + j) = q.at + j
      <4>1. Len(b) = Size(q)
        BY <1>1
      <4> QED BY <1>0, <2>1, <4>1
    <3> QED BY <1>2, <3>1
  <2>2. /\ 0 < Size(q) /\ 1 < Size(q) /\ 2 < Size(q) /\ 16 < Size(q) /\ 17 < Size(q)
        /\ q.at + 0 = q.at
    BY <1>0
  <2>3. /\ v[q.at] = START /\ v[q.at + 1] = Size(q) /\ v[q.at + 2] = 0
        /\ Code(v[q.at + 16], v[q.at + 17]) = q.cmd
    <3>1. /\ v[q.at + 0] = b[1 + 0] /\ v[q.at + 1] = b[1 + 1] /\ v[q.at + 2] = b[1 + 2]
          /\ v[q.at + 16] = b[1 + 16] /\ v[q.at + 17] = b[1 + 17]
      BY <2>1, <2>2
    <3> QED BY <1>1, <2>2, <3>1
  <2>4. ASSUME NEW j \in 1 .. Len(q.content) PROVE v[q.at + 17 + j] = q.content[j]
    <3>1. /\ 17 + j \in Nat /\ 17 + j < Size(q) /\ q.at + (17 + j) = q.at + 17 + j
          /\ 1 + (17 + j) = 18 + j
      BY <1>0
    <3> QED BY <1>1, <2>1, <3>1
  <2>5. q.at + Size(q) <= Len(v) + 1
    <3>1. /\ q.at = Len(w) + 1 /\ Len(v) = Len(w) + Size(q)
          /\ Len(w) \in Nat /\ Size(q) \in Nat
      BY <1>0, <1>4
    <3>2. (Len(w) + 1) + Size(q) <= (Len(w) + Size(q)) + 1
      BY <3>1
    <3> QED BY <3>1, <3>2
  <2> QED BY <2>3, <2>4, <2>5 DEF OnWire
<1>6. ASSUME NEW k \in DOMAIN more PROVE OnWire(more[k], v)
  <2>1. CASE k = Len(parts) + 1
    BY <1>3, <1>5, <2>1
  <2>2. CASE k # Len(parts) + 1
    <3>1. k \in 1 .. Len(parts) /\ k \in DOMAIN parts
      BY <1>3, <2>2
    <3> QED BY <1>2, <1>3, <1>4, <3>1, OnLongerWire DEF Layout
  <2> QED BY <2>1, <2>2
<1>7. ASSUME NEW k \in DOMAIN more, NEW l \in DOMAIN more, k < l
      PROVE  more[k].at + Size(more[k]) <= more[l].at
  <2>0. k \in 1 .. Len(parts) /\ k \in DOMAIN parts /\ more[k] = parts[k] /\ parts[k] \in Part
    BY <1>3, <1>7
  <2>1. CASE l = Len(parts) + 1
    <3>1. parts[k].at + Size(parts[k]) <= Len(w) + 1
      BY <2>0 DEF Layout, OnWire
    <3> QED BY <1>3, <2>0, <2>1, <3>1
  <2>2. CASE l # Len(parts) + 1
    <3>1. l \in 1 .. Len(parts) /\ l \in DOMAIN parts
      BY <1>3, <2>2
    <3> QED BY <1>3, <1>7, <2>0, <3>1 DEF Layout
  <2> QED BY <2>1, <2>2
<1>8. ASSUME NEW i \in DOMAIN v, v[i] = START PROVE \E k \in DOMAIN more : Within(i, more[k])
  <2>0. i \in 1 .. Len(w) + Size(q)
    BY <1>2, <1>4
  <2>1. CASE i <= Len(w)
    <3>1. i \in DOMAIN w /\ w[i] = START
      BY <1>0, <1>2, <1>8, <2>0, <2>1
    <3>2. PICK k \in DOMAIN parts : Within(i, parts[k])
      BY <3>1 DEF Layout
    <3>3. k \in 1 .. Len(parts) /\ k \in DOMAIN more
      BY <1>3
    <3> QED BY <1>3, <3>2, <3>3
  <2>2. CASE ~(i <= Len(w))
    <3>1. Within(i, q)
      <4>1. /\ q.at = Len(w) + 1 /\ Len(w) \in Nat /\ Size(q) \in Nat
        BY <1>0
      <4>2. Len(w) + 1 <= i /\ i < (Len(w) + 1) + Size(q)
        BY <2>0, <2>2, <4>1
      <4> QED BY <4>1, <4>2 DEF Within
    <3>2. Len(parts) + 1 \in DOMAIN more
      BY <1>3
    <3> QED BY <1>3, <3>1, <3>2
  <2> QED BY <2>1, <2>2
<1> QED BY <1>2, <1>3, <1>6, <1>7, <1>8 DEF Layout, v, more

----------------------------------------------------------------------------
(* What the parts mean.                                                    *)

\* What a receiver remembers of a part: its command code, the message it
\* belongs to, and how much of that has come.
State == [cmd : Int, of : Nat, end : Nat]
After(q) == [cmd |-> q.cmd, of |-> q.of, end |-> q.off + Len(q.content)]
Before(parts, e, k) == IF k = 1 THEN e ELSE After(parts[k - 1])

\* A part of an undisturbed message carries the bytes that are next, and comes
\* behind the part that carries those before, or behind no fragment.  A packet
\* of another kind is short, and comes behind no fragment either.
Follows(e, q, ds) ==
  /\ e.of <= q.of
  /\ q.of \notin ds =>
       /\ q.cmd # CMD12 =>
            /\ q.off + Len(q.content) <= Len(Message(q.of))
            /\ \A j \in 1 .. Len(q.content) : q.content[j] = Message(q.of)[q.off + j]
            /\ q.cmd = LEVEL2 => q.off + Len(q.content) = Len(Message(q.of))
            /\ q.off > 0 => e.cmd = FRAGMENT /\ e.of = q.of /\ e.end = q.off
            /\ q.off = 0 /\ q.of - 1 \notin ds => e.cmd # FRAGMENT
       /\ q.cmd = CMD12 =>
            /\ Len(q.content) <= 2
            /\ q.of - 1 \notin ds => e.cmd # FRAGMENT

\* No message ends with a part but its own, and an undisturbed one ends where
\* its command code says so.
Ends(c, q, ds) ==
  /\ c \in {0, q.of}
  /\ q.of \notin ds =>
       /\ q.cmd \in Commands /\ (q.cmd # CMD12 => q.of > 0)
       /\ c = IF q.cmd = LEVEL2 THEN q.of ELSE 0

Chain(parts, e, c, b, ds) ==
  /\ Len(c) = Len(parts)
  /\ e.of <= b
  /\ \A k \in DOMAIN parts :
       /\ parts[k].of <= b
       /\ Ends(c[k], parts[k], ds)
       /\ Follows(Before(parts, e, k), parts[k], ds)

\* What is left of the newest message is a part that is still to come.
Rest(l, b) ==
  [at |-> 1, cmd |-> LEVEL2, content |-> l, of |-> b, off |-> Len(Message(b)) - Len(l)]

Ahead(e, l, b, ds) ==
  /\ l = <<>> => (b \notin ds => e.cmd # FRAGMENT)
  /\ l # <<>> => b > 0 /\ Len(l) <= Len(Message(b)) /\ Follows(e, Rest(l, b), ds)

\* The beginning of a message waits in p.
Held(r, e, ds) ==
  /\ e.cmd = r.cmd_code
  /\ r.cmd_code = FRAGMENT =>
       /\ r.content \in Seq(Byte) /\ r.length = HEADER_LEN + Len(r.content)
       /\ e.of \notin ds /\ e.of - 1 \notin ds =>
            /\ Len(r.content) = e.end /\ e.end <= Len(Message(e.of))
            /\ \A j \in 1 .. e.end : r.content[j] = Message(e.of)[j]

\* All of this asks less when more is disturbed.
LEMMA MoreDisturbed ==
  ASSUME NEW ds, NEW E, ds \subseteq E
  PROVE  /\ \A e, q : Follows(e, q, ds) => Follows(e, q, E)
         /\ \A parts, e, c, b : Chain(parts, e, c, b, ds) => Chain(parts, e, c, b, E)
         /\ \A e, l, b : Ahead(e, l, b, ds) => Ahead(e, l, b, E)
         /\ \A r, e : Held(r, e, ds) => Held(r, e, E)
<1>1. \A e, q : Follows(e, q, ds) => Follows(e, q, E)
  BY DEF Follows
<1>2. \A parts, e, c, b : Chain(parts, e, c, b, ds) => Chain(parts, e, c, b, E)
  <2> SUFFICES ASSUME NEW parts, NEW e, NEW c, NEW b, Chain(parts, e, c, b, ds)
               PROVE  Chain(parts, e, c, b, E)
    OBVIOUS
  <2>1. ASSUME NEW k \in DOMAIN parts
        PROVE  /\ parts[k].of <= b
               /\ Ends(c[k], parts[k], E)
               /\ Follows(Before(parts, e, k), parts[k], E)
    BY <1>1 DEF Chain, Ends
  <2> QED BY <2>1 DEF Chain
<1>3. \A e, l, b : Ahead(e, l, b, ds) => Ahead(e, l, b, E)
  BY <1>1, Zenon DEF Ahead
<1>4. \A r, e : Held(r, e, ds) => Held(r, e, E)
  BY DEF Held
<1> QED BY <1>1, <1>2, <1>3, <1>4

LEMMA AfterType == \A q \in Part : After(q) \in State
<1> SUFFICES ASSUME NEW q \in Part PROVE After(q) \in State
  OBVIOUS
<1>1. /\ q.cmd \in Int /\ q.of \in Nat /\ q.off \in Nat /\ Len(q.content) \in Nat
  BY PartType
<1>2. \A a, c \in Nat : a + c \in Nat
  OBVIOUS
<1>3. q.off + Len(q.content) \in Nat
  BY <1>1, <1>2
<1> QED BY <1>1, <1>3 DEF After, State

\* A part more at the end of the chain.
LEMMA LongerChain ==
  ASSUME NEW parts \in Seq(Part), NEW e \in State, NEW c \in Seq(Nat), NEW b, NEW ds,
         Chain(parts, e, c, b, ds),
         NEW q \in Part, q.of <= b, NEW last, Ends(last, q, ds),
         Follows(Before(parts, e, Len(parts) + 1), q, ds)
  PROVE  /\ Chain(Append(parts, q), e, Append(c, last), b, ds)
         /\ Append(c, last) \in Seq(Nat)
         /\ Before(Append(parts, q), e, Len(Append(parts, q)) + 1) = After(q)
<1> DEFINE more == Append(parts, q)
           d == Append(c, last)
<1>1. last \in Nat
  BY PartType DEF Ends
<1>2. /\ Len(parts) \in Nat /\ Len(c) = Len(parts) /\ DOMAIN parts = 1 .. Len(parts)
      /\ more \in Seq(Part) /\ Len(more) = Len(parts) + 1
      /\ \A k \in 1 .. Len(parts) : more[k] = parts[k]
      /\ more[Len(parts) + 1] = q
  BY AppendProperties, LenProperties DEF Chain
<1>3. /\ d \in Seq(Nat) /\ Len(d) = Len(parts) + 1
      /\ \A k \in 1 .. Len(parts) : d[k] = c[k]
      /\ d[Len(parts) + 1] = last
  BY <1>1, <1>2, AppendProperties
<1> HIDE DEF more, d
<1>4. ASSUME NEW k \in 1 .. Len(parts) + 1 PROVE Before(more, e, k) = Before(parts, e, k)
  <2>1. CASE k = 1
    BY <2>1 DEF Before
  <2>2. CASE k # 1
    <3>1. k - 1 \in 1 .. Len(parts)
      BY <1>2, <2>2
    <3> QED BY <1>2, <2>2, <3>1 DEF Before
  <2> QED BY <2>1, <2>2
<1>5. ASSUME NEW k \in DOMAIN more
      PROVE  /\ more[k].of <= b
             /\ Ends(d[k], more[k], ds)
             /\ Follows(Before(more, e, k), more[k], ds)
  <2>0. k \in 1 .. Len(parts) + 1
    BY <1>2
  <2>1. CASE k = Len(parts) + 1
    BY <1>2, <1>3, <1>4, <2>0, <2>1
  <2>2. CASE k # Len(parts) + 1
    <3>1. k \in 1 .. Len(parts) /\ k \in DOMAIN parts
      BY <1>2, <2>0, <2>2
    <3>2. more[k] = parts[k] /\ d[k] = c[k] /\ Before(more, e, k) = Before(parts, e, k)
      BY <1>2, <1>3, <1>4, <2>0, <3>1
    <3> QED BY <3>1, <3>2 DEF Chain
  <2> QED BY <2>1, <2>2
<1>6. Before(more, e, Len(more) + 1) = After(q)
  <2>1. Len(more) + 1 # 1 /\ (Len(more) + 1) - 1 = Len(parts) + 1
    BY <1>2
  <2> QED BY <1>2, <2>1 DEF Before
<1> QED BY <1>2, <1>3, <1>5, <1>6 DEF Chain, more, d

\* Where a part is on the wire does not matter for its meaning.
LEMMA SameMeaning ==
  ASSUME NEW q, NEW r, q.cmd = r.cmd, q.content = r.content, q.of = r.of, q.off = r.off
  PROVE  /\ After(q) = After(r)
         /\ \A e, ds : Follows(e, q, ds) <=> Follows(e, r, ds)
         /\ \A c, ds : Ends(c, q, ds) <=> Ends(c, r, ds)
BY DEF After, Follows, Ends

\* The chain behind its first part.
LEMMA ShorterChain ==
  ASSUME NEW parts \in Seq(Part), NEW e \in State, NEW c \in Seq(Nat), NEW b, NEW ds,
         Chain(parts, e, c, b, ds), NEW w \in Seq(Byte), Layout(parts, w), parts # <<>>,
         NEW d, d = parts[1].at + Size(parts[1]) - 1
  PROVE  LET ms == Moved(parts, d)
         IN  /\ Chain(ms, After(parts[1]), Tail(c), b, ds)
             /\ Before(ms, After(parts[1]), Len(ms) + 1) = Before(parts, e, Len(parts) + 1)
<1> DEFINE ms == Moved(parts, d)
           t == Tail(c)
<1>1. /\ Len(parts) \in Nat /\ Len(parts) > 0 /\ DOMAIN parts = 1 .. Len(parts)
      /\ \A k \in DOMAIN parts : parts[k] \in Part
  BY LenProperties, ElementOfSeq, EmptySeq
<1>2. ms \in Seq(Part) /\ Len(ms) = Len(parts) - 1
  BY RestOfWire
<1>3. ASSUME NEW k \in 1 .. Len(parts) - 1
      PROVE  /\ ms[k].cmd = parts[k + 1].cmd /\ ms[k].content = parts[k + 1].content
             /\ ms[k].of = parts[k + 1].of /\ ms[k].off = parts[k + 1].off
  <2>1. k + 1 \in DOMAIN parts
    BY <1>1
  <2>2. ms[k] = [parts[k + 1] EXCEPT !.at = @ - d]
    BY DEF Moved
  <2> HIDE DEF ms
  <2> QED BY <1>1, <2>1, <2>2 DEF Part
<1>4. /\ Len(c) = Len(parts) /\ t \in Seq(Nat) /\ Len(t) = Len(parts) - 1
      /\ \A k \in 1 .. Len(parts) - 1 : t[k] = c[k + 1]
  <2>1. Len(c) = Len(parts) /\ c # <<>>
    BY <1>1, EmptySeq DEF Chain
  <2> QED BY <1>1, <2>1, HeadTailProperties
<1> HIDE DEF ms, t
<1>5. ASSUME NEW k \in 1 .. Len(parts)
      PROVE  Before(ms, After(parts[1]), k) = Before(parts, e, k + 1)
  <2>1. CASE k = 1
    BY <2>1 DEF Before
  <2>2. CASE k # 1
    <3>1. k - 1 \in 1 .. Len(parts) - 1 /\ (k - 1) + 1 = k /\ k + 1 # 1 /\ (k + 1) - 1 = k
      BY <1>1, <2>2
    <3>2. After(ms[k - 1]) = After(parts[k])
      BY <1>3, <3>1, SameMeaning
    <3> QED BY <2>2, <3>1, <3>2 DEF Before
  <2> QED BY <2>1, <2>2
<1>6. ASSUME NEW k \in DOMAIN ms
      PROVE  /\ ms[k].of <= b
             /\ Ends(t[k], ms[k], ds)
             /\ Follows(Before(ms, After(parts[1]), k), ms[k], ds)
  <2>1. k \in 1 .. Len(parts) - 1 /\ k \in 1 .. Len(parts) /\ k + 1 \in DOMAIN parts
    BY <1>1, <1>2
  <2>2. /\ parts[k + 1].of <= b
        /\ Ends(c[k + 1], parts[k + 1], ds)
        /\ Follows(Before(parts, e, k + 1), parts[k + 1], ds)
    BY <2>1 DEF Chain
  <2>3. Follows(Before(parts, e, k + 1), ms[k], ds) /\ Ends(c[k + 1], ms[k], ds)
    BY <1>3, <2>1, <2>2, SameMeaning
  <2> QED BY <1>3, <1>4, <1>5, <2>1, <2>2, <2>3
<1>7. After(parts[1]).of <= b
  <2>1. 1 \in DOMAIN parts
    BY <1>1
  <2> QED BY <2>1 DEF Chain, After
<1>8. Before(ms, After(parts[1]), Len(ms) + 1) = Before(parts, e, Len(parts) + 1)
  <2>1. Len(ms) + 1 = Len(parts) /\ Len(parts) \in 1 .. Len(parts)
    BY <1>1, <1>2
  <2> QED BY <1>5, <2>1
<1> QED BY <1>2, <1>4, <1>6, <1>7, <1>8 DEF Chain, ms, t

----------------------------------------------------------------------------
(* Reading.                                                                *)

\* A fragment goes on in p where the fragment before it ended, and with the
\* last part of a message, if nothing was disturbed, all of it is in p.
LEMMA TakenPart ==
  ASSUME NEW e \in State, NEW q \in Part, NEW ds,
         q.of \in 0 .. NMessages, q.of \notin ds => (q.cmd # CMD12 => q.of > 0),
         Held(p, e, ds), Follows(e, q, ds),
         NEW bytes, PacketLen(bytes) = Size(q), CmdCode(bytes) = q.cmd,
         Content(bytes) = q.content
  PROVE  /\ Taken(bytes).cmd_code = q.cmd
         /\ Held(Taken(bytes), After(q), ds)
         /\ q.cmd = LEVEL2 /\ q.of \notin ds /\ q.of - 1 \notin ds =>
              /\ Taken(bytes).content = Message(q.of)
              /\ Taken(bytes).length = HEADER_LEN + Len(Message(q.of))
<1> DEFINE r == Taken(bytes)
           msg == Message(q.of)
<1>1. /\ q.content \in Seq(Byte) /\ Len(q.content) \in Nat /\ q.off \in Nat /\ q.of \in Nat
      /\ Size(q) = HEADER_LEN + Len(q.content)
  BY PartType DEF Size
<1>0. Shortfall(bytes) = 0
  BY PartType, SMTT(30) DEF Shortfall, HEADER_LEN
<1>2. CASE p.cmd_code = FRAGMENT
  <2> DEFINE c == p.content \o q.content
  <2>1. p.content \in Seq(Byte) /\ p.length = HEADER_LEN + Len(p.content) /\ Len(p.content) \in Nat
    BY <1>2 DEF Held
  <2>2. p.length - HEADER_LEN - Shortfall(bytes) = Len(p.content)
    BY <1>0, <2>1 DEF HEADER_LEN
  <2>3. SubSeq(p.content, 1, p.length - HEADER_LEN - Shortfall(bytes)) = p.content
    BY <2>1, <2>2, SubSeqFull
  <2>4. p.length + PacketLen(bytes) - HEADER_LEN = HEADER_LEN + (Len(p.content) + Len(q.content))
    <3>1. \A a, z \in Nat : (18 + a) + (18 + z) - 18 = 18 + (a + z)
      OBVIOUS
    <3>2. p.length = 18 + Len(p.content) /\ PacketLen(bytes) = 18 + Len(q.content)
      BY <1>1, <2>1 DEF HEADER_LEN
    <3>3. (18 + Len(p.content)) + (18 + Len(q.content)) - 18
             = 18 + (Len(p.content) + Len(q.content))
      BY <1>1, <2>1, <3>1
    <3> QED BY <3>2, <3>3 DEF HEADER_LEN
  <2>5. r = [cmd_code |-> q.cmd, length |-> HEADER_LEN + (Len(p.content) + Len(q.content)),
             content |-> c]
    BY <1>2, <2>3, <2>4 DEF Taken, Continued
  <2>6. /\ c \in Seq(Byte) /\ Len(c) = Len(p.content) + Len(q.content)
        /\ \A j \in 1 .. Len(p.content) : c[j] = p.content[j]
        /\ \A j \in 1 .. Len(q.content) : c[Len(p.content) + j] = q.content[j]
    BY <1>1, <2>1, Joined
  <2> HIDE DEF c
  <2>7. r.cmd_code = q.cmd /\ r.content = c /\ r.length = HEADER_LEN + Len(c)
    BY <2>5, <2>6
  <2> HIDE DEF r
  <2>8. ASSUME q.cmd # CMD12, q.of \notin ds, q.of - 1 \notin ds
        PROVE  /\ Len(c) = q.off + Len(q.content) /\ Len(c) <= Len(msg)
               /\ \A j \in 1 .. Len(c) : c[j] = msg[j]
    <3>1. e.cmd = FRAGMENT
      BY <1>2 DEF Held
    <3>2. /\ q.off > 0 /\ e.of = q.of /\ e.end = q.off
          /\ q.off + Len(q.content) <= Len(msg)
          /\ \A j \in 1 .. Len(q.content) : q.content[j] = msg[q.off + j]
      BY <1>1, <2>8, <3>1 DEF Follows
    <3>3. /\ Len(p.content) = q.off
          /\ \A j \in 1 .. q.off : p.content[j] = msg[j]
      BY <1>2, <2>8, <3>2 DEF Held
    <3>4. Len(c) = q.off + Len(q.content)
      BY <2>6, <3>3
    <3>5. ASSUME NEW j \in 1 .. Len(c) PROVE c[j] = msg[j]
      <4>1. CASE j <= q.off
        <5>1. j \in 1 .. q.off
          BY <1>1, <3>4, <4>1
        <5> QED BY <2>6, <3>3, <5>1
      <4>2. CASE ~(j <= q.off)
        <5>1. j - q.off \in 1 .. Len(q.content) /\ q.off + (j - q.off) = j
          BY <1>1, <3>4, <4>2
        <5> QED BY <2>6, <3>2, <3>3, <5>1
      <4> QED BY <4>1, <4>2
    <3> QED BY <3>2, <3>4, <3>5
  <2>9. Held(r, After(q), ds)
    <3>1. After(q).cmd = q.cmd /\ After(q).of = q.of /\ After(q).end = q.off + Len(q.content)
      BY DEF After
    <3>2. FRAGMENT # CMD12
      BY DEF FRAGMENT, CMD12
    <3> QED BY <2>6, <2>7, <2>8, <3>1, <3>2 DEF Held
  <2>10. ASSUME q.cmd = LEVEL2, q.of \notin ds, q.of - 1 \notin ds
         PROVE  c = msg
    <3>1. LEVEL2 # CMD12
      BY DEF LEVEL2, CMD12
    <3>2. Len(c) = q.off + Len(q.content) /\ \A j \in 1 .. Len(c) : c[j] = msg[j]
      BY <2>8, <2>10, <3>1
    <3>3. q.off + Len(q.content) = Len(msg)
      BY <2>10, <3>1 DEF Follows
    <3>4. msg \in Seq(Byte)
      BY <1>1, <2>10, <3>1, MessageType DEF Messages
    <3> HIDE DEF msg
    <3> QED BY <2>6, <3>2, <3>3, <3>4, SameBytes
  <2> QED BY <2>7, <2>9, <2>10 DEF r
<1>3. CASE p.cmd_code # FRAGMENT
  <2>1. r = [cmd_code |-> q.cmd, length |-> Size(q), content |-> q.content]
    BY <1>3 DEF Taken, Anew
  <2>2. r.cmd_code = q.cmd /\ r.content = q.content /\ r.length = HEADER_LEN + Len(q.content)
    BY <1>1, <2>1
  <2> HIDE DEF r
  <2>3. ASSUME q.cmd # CMD12, q.of \notin ds, q.of - 1 \notin ds
        PROVE  /\ q.off = 0 /\ Len(q.content) <= Len(msg)
               /\ \A j \in 1 .. Len(q.content) : q.content[j] = msg[j]
    <3>1. e.cmd # FRAGMENT
      BY <1>3 DEF Held
    <3>2. /\ q.off = 0 /\ q.off + Len(q.content) <= Len(msg)
          /\ \A j \in 1 .. Len(q.content) : q.content[j] = msg[q.off + j]
      BY <1>1, <2>3, <3>1 DEF Follows
    <3>3. 0 + Len(q.content) = Len(q.content) /\ \A j \in 1 .. Len(q.content) : 0 + j = j
      BY <1>1
    <3> QED BY <3>2, <3>3
  <2>4. Held(r, After(q), ds)
    <3>1. After(q).cmd = q.cmd /\ After(q).of = q.of /\ After(q).end = q.off + Len(q.content)
      BY DEF After
    <3>2. FRAGMENT # CMD12 /\ 0 + Len(q.content) = Len(q.content)
      BY <1>1 DEF FRAGMENT, CMD12
    <3> QED BY <1>1, <2>2, <2>3, <3>1, <3>2 DEF Held
  <2>5. ASSUME q.cmd = LEVEL2, q.of \notin ds, q.of - 1 \notin ds
        PROVE  q.content = msg
    <3>1. LEVEL2 # CMD12
      BY DEF LEVEL2, CMD12
    <3>2. q.off = 0 /\ \A j \in 1 .. Len(q.content) : q.content[j] = msg[j]
      BY <2>3, <2>5, <3>1
    <3>3. q.off + Len(q.content) = Len(msg)
      BY <2>5, <3>1 DEF Follows
    <3>4. msg \in Seq(Byte) /\ Len(q.content) = Len(msg)
      BY <1>1, <2>5, <3>1, <3>2, <3>3, MessageType DEF Messages
    <3> HIDE DEF msg
    <3> QED BY <1>1, <3>2, <3>4, SameBytes
  <2> QED BY <2>2, <2>4, <2>5 DEF r
<1> QED BY <1>2, <1>3

\* A whole message in p is the only one that packet_read finds there.
LEMMA WholeMessage ==
  ASSUME begun \in 0 .. NMessages, NEW m \in 1 .. begun, NEW r,
         r.cmd_code = LEVEL2, r.content = Message(m), r.length = HEADER_LEN + Len(Message(m))
  PROVE  Sound(r) = {m}
<1>1. NMessages \in Nat /\ m \in Messages /\ \A n \in 1 .. begun : n \in Messages
  BY ConstantsAssumption DEF Messages
<1>2. r.length - HEADER_LEN > 4
  <2>1. Len(Message(m)) > 4 /\ Len(Message(m)) \in Nat
    BY <1>1, MessageType
  <2>2. \A a \in Nat : a > 4 => (18 + a) - 18 > 4
    OBVIOUS
  <2> QED BY <2>1, <2>2 DEF HEADER_LEN
<1>3. \A n \in 1 .. begun : r.content = Message(n) => n = m
  BY <1>1, ConstantsAssumption
<1> QED BY <1>2, <1>3 DEF Sound, LEVEL2, FRAGMENT

----------------------------------------------------------------------------
(* The invariant.                                                          *)

Flow(parts, e) ==
  /\ Layout(parts, wire)
  /\ Chain(parts, e, cut, begun, disturbed)
  /\ Ahead(Before(parts, e, Len(parts) + 1), left, begun, disturbed)
  /\ Held(p, e, disturbed)
  /\ \A n \in ended : n <= e.of

Flowing == \E parts \in Seq(Part), e \in State : Flow(parts, e)

Types ==
  /\ wire \in Seq(Byte) /\ left \in Seq(Byte) /\ cut \in Seq(Nat)
  /\ begun \in 0 .. NMessages
  /\ ended \subseteq Nat /\ accepted \in Seq(Nat)

LEMMA TypesHold == TypeOK => Types
<1> SUFFICES ASSUME TypeOK PROVE Types
  OBVIOUS
<1>1. /\ 0 .. NMessages \subseteq Nat /\ Messages \subseteq Nat
  BY ConstantsAssumption DEF Messages
<1>2. cut \in Seq(Nat) /\ accepted \in Seq(Nat)
  <2>1. cut \in Seq(0 .. NMessages) /\ accepted \in Seq(Messages)
    BY DEF TypeOK
  <2>2. /\ Len(cut) \in Nat /\ cut \in [1 .. Len(cut) -> Nat]
        /\ Len(accepted) \in Nat /\ accepted \in [1 .. Len(accepted) -> Nat]
    BY <1>1, <2>1, LenProperties, ElementOfSeq
  <2> QED BY <2>2, SeqDef
<1> QED BY <1>1, <1>2 DEF TypeOK, Types

Read(m) == m \in Accepted \/ m \in disturbed \/ m - 1 \in disturbed

Fresh ==
  pc = "done" =>
    \/ p2 \in ended /\ \A m \in ended : m <= p2
    \/ LatelyDisturbed

LInv ==
  ~stray =>
    /\ pc # "exit" => Flowing
    /\ \A m \in ended : Read(m)
    /\ Fresh

\* What has strayed is not made good.
LEMMA StrayStays == stray /\ [Next]_vars => stray'
<1> SUFFICES ASSUME stray, [Next]_vars PROVE stray'
  OBVIOUS
<1>1. CASE DamageHeader
  BY <1>1 DEF DamageHeader
<1> QED BY <1>1 DEF Next, ReadPacket, Overrun, WaitAgain, Timeout, Sender, Begin, SendFragment,
     SendLast, Chatter, Noise, LosePart, DamagePart, StrayStart, Ended, sender, vars

\* Before anything is sent.
LEMMA InitFlow == Init => LInv
<1> SUFFICES ASSUME Init PROVE Flowing /\ ended = {} /\ pc # "done"
  BY DEF LInv, Fresh
<1> DEFINE e == [cmd |-> 0, of |-> 0, end |-> 0]
<1>1. /\ pc = "wait" /\ p = Cleared /\ wire = <<>> /\ begun = 0 /\ left = <<>>
      /\ disturbed = {} /\ cut = <<>> /\ ended = {}
  BY Zenon DEF Init
<1>2. Flow(<<>>, e)
  <2>1. Layout(<<>>, <<>>)
    BY DEF Layout
  <2>2. Chain(<<>>, e, <<>>, 0, {})
    BY DEF Chain
  <2>3. Before(<<>>, e, Len(<<>>) + 1) = e
    BY DEF Before
  <2>4. Ahead(e, <<>>, 0, {})
    BY DEF Ahead, FRAGMENT
  <2>5. Held(Cleared, e, {})
    BY DEF Held, Cleared, FRAGMENT
  <2> HIDE DEF e
  <2> QED BY <1>1, <2>1, <2>2, <2>3, <2>4, <2>5 DEF Flow
<1>3. <<>> \in Seq(Part) /\ e \in State
  BY DEF State
<1> QED BY <1>1, <1>2, <1>3 DEF Flowing

\* One packet is read.
LEMMA ReadFlow ==
  ASSUME Types, Flowing, \A m \in ended : Read(m), ReadPacket
  PROVE  /\ Flowing' /\ (\A m \in ended : Read(m))' /\ Fresh'
         /\ (Sound(p') = {EndsHere} \ {0}) \/ LatelyDisturbed'
<1>1. PICK parts \in Seq(Part), e \in State : Flow(parts, e)
  BY DEF Flowing
<1>2. PICK bytes \in Arrived :
        /\ wire' = SubSeq(bytes, PacketLen(bytes) + Shortfall(bytes) + 1, Len(bytes))
        /\ p' = Taken(bytes)
  BY DEF ReadPacket
<1>3. /\ pc' = (IF Awaited(p') THEN "done" ELSE "wait")
      /\ cut' = (IF cut = <<>> THEN cut ELSE Tail(cut))
      /\ ended' = ended \cup ({EndsHere} \ {0})
      /\ UNCHANGED <<begun, left, disturbed>>
      /\ \/ \E m \in Sound(p') : p2' = m /\ accepted' = Append(accepted, m)
         \/ Sound(p') = {} /\ UNCHANGED <<p2, accepted>>
  BY DEF ReadPacket, sender
<1>4. /\ wire \in Seq(Byte) /\ left \in Seq(Byte) /\ cut \in Seq(Nat)
      /\ begun \in 0 .. NMessages /\ begun \in Nat
      /\ ended \subseteq Nat /\ accepted \in Seq(Nat)
  BY ConstantsAssumption DEF Types
<1> DEFINE q == parts[1]
           d == q.at + Size(q) - 1
           ms == Moved(parts, d)
<1>5. /\ parts # <<>> /\ bytes = SubSeq(wire, q.at, Len(wire))
      /\ bytes \in Seq(Byte) /\ Len(bytes) = Len(wire) + 1 - q.at
      /\ PacketLen(bytes) = Size(q) /\ CmdCode(bytes) = q.cmd /\ Content(bytes) = q.content
  BY <1>1, <1>2, <1>4, FirstPart DEF Flow
<1>6. 1 \in DOMAIN parts /\ q \in Part /\ Len(parts) \in Nat
  BY <1>5, EmptySeq, ElementOfSeq, LenProperties
<1>7. /\ d \in 0 .. Len(wire) /\ ms \in Seq(Part)
      /\ SubSeq(wire, d + 1, Len(wire)) \in Seq(Byte)
      /\ Layout(ms, SubSeq(wire, d + 1, Len(wire)))
  BY <1>1, <1>4, <1>5, RestOfWire DEF Flow
<1>8. wire' = SubSeq(wire, d + 1, Len(wire))
  <2>1. /\ q.at \in Nat /\ q.at > 0 /\ Size(q) \in Nat /\ Len(wire) \in Nat /\ q.at <= Len(wire) + 1
        /\ d = q.at + Size(q) - 1
    <3>1. OnWire(q, wire)
      BY <1>1, <1>6 DEF Flow, Layout
    <3>2. /\ q.at \in Nat /\ q.at > 0 /\ Size(q) \in Nat /\ Len(wire) \in Nat
          /\ q.at + Size(q) <= Len(wire) + 1
      BY <1>4, <1>6, <3>1, PartType DEF OnWire
    <3>3. q.at <= Len(wire) + 1
      BY <3>2
    <3> QED BY <3>2, <3>3
  <2> DEFINE v == SubSeq(wire, d + 1, Len(wire))
             u == SubSeq(bytes, Size(q) + 1, Len(bytes))
  <2> HIDE DEF d, q
  <2>2. q.at \in 1 .. Len(wire) + 1 /\ Len(wire) \in q.at - 1 .. Len(wire)
    BY <2>1
  <2>3. /\ \A j \in 1 .. Len(wire) - q.at + 1 : bytes[j] = wire[q.at + j - 1]
        /\ Len(bytes) = Len(wire) - q.at + 1
    BY <1>4, <1>5, <2>2, PartOf
  <2>4. d \in 0 .. Len(wire)
    BY <1>7
  <2>5. d + 1 \in 1 .. Len(wire) + 1 /\ Len(wire) \in (d + 1) - 1 .. Len(wire)
    BY <2>1, <2>4
  <2>6. /\ v \in Seq(Byte) /\ Len(v) = Len(wire) - (d + 1) + 1
        /\ \A j \in 1 .. Len(wire) - (d + 1) + 1 : v[j] = wire[(d + 1) + j - 1]
    BY <1>4, <2>5, PartOf
  <2>7. Size(q) + 1 \in 1 .. Len(bytes) + 1 /\ Len(bytes) \in (Size(q) + 1) - 1 .. Len(bytes)
    <3>1. q.at + Size(q) - 1 <= Len(wire)
      BY <2>1, <2>4
    <3>2. Len(bytes) = Len(wire) - q.at + 1
      BY <2>3
    <3> DEFINE size == Size(q)
               at == q.at
               long == Len(wire)
               rest == Len(bytes)
    <3>3. /\ size \in Nat /\ at \in Nat /\ long \in Nat
          /\ at + size - 1 <= long /\ rest = long - at + 1
      BY <2>1, <3>1, <3>2
    <3> HIDE DEF size, at, long, rest
    <3>4. size + 1 \in 1 .. rest + 1 /\ rest \in (size + 1) - 1 .. rest
      BY <3>3
    <3> QED BY <3>4 DEF size, rest
  <2>8. /\ u \in Seq(Byte) /\ Len(u) = Len(bytes) - (Size(q) + 1) + 1
        /\ \A j \in 1 .. Len(bytes) - (Size(q) + 1) + 1 : u[j] = bytes[(Size(q) + 1) + j - 1]
    BY <1>5, <2>7, PartOf
  <2> HIDE DEF u, v
  <2>9. Len(u) = Len(v)
    <3>1. \A a, z, l \in Nat :
            (l - a + 1) - (z + 1) + 1 = l - ((a + z - 1) + 1) + 1
      OBVIOUS
    <3>2. /\ q.at \in Nat /\ Size(q) \in Nat /\ Len(wire) \in Nat
          /\ d = q.at + Size(q) - 1 /\ Len(bytes) = Len(wire) - q.at + 1
          /\ Len(v) = Len(wire) - (d + 1) + 1 /\ Len(u) = Len(bytes) - (Size(q) + 1) + 1
      BY <2>1, <2>3, <2>6, <2>8
    <3>3. /\ Len(v) = Len(wire) - ((q.at + Size(q) - 1) + 1) + 1
          /\ Len(u) = (Len(wire) - q.at + 1) - (Size(q) + 1) + 1
      BY <3>2, Zenon
    <3> QED BY <3>1, <3>2, <3>3
  <2>10. ASSUME NEW j \in 1 .. Len(u) PROVE u[j] = v[j]
    <3>1. /\ j \in 1 .. Len(bytes) - (Size(q) + 1) + 1
          /\ j \in 1 .. Len(wire) - (d + 1) + 1
      BY <2>6, <2>8, <2>9
    <3>2. /\ (Size(q) + 1) + j - 1 \in 1 .. Len(wire) - q.at + 1
          /\ q.at + ((Size(q) + 1) + j - 1) - 1 = (d + 1) + j - 1
      <4>1. \A a, z, l \in Nat : \A i \in 1 .. (l - a + 1) - (z + 1) + 1 :
              /\ (z + 1) + i - 1 \in 1 .. l - a + 1
              /\ a + ((z + 1) + i - 1) - 1 = ((a + z - 1) + 1) + i - 1
        OBVIOUS
      <4>2. /\ q.at \in Nat /\ Size(q) \in Nat /\ Len(wire) \in Nat
            /\ d = q.at + Size(q) - 1 /\ Len(bytes) = Len(wire) - q.at + 1
        BY <2>1, <2>3
      <4>3. j \in 1 .. (Len(wire) - q.at + 1) - (Size(q) + 1) + 1
        BY <3>1, <4>2, Zenon
      <4>4. /\ (Size(q) + 1) + j - 1 \in 1 .. Len(wire) - q.at + 1
            /\ q.at + ((Size(q) + 1) + j - 1) - 1 = ((q.at + Size(q) - 1) + 1) + j - 1
        BY <4>1, <4>2, <4>3
      <4> QED BY <4>2, <4>4, Zenon
    <3> QED BY <2>3, <2>6, <2>8, <3>1, <3>2
  <2>11. u = v
    BY <2>6, <2>8, <2>9, <2>10, SameBytes
  <2>12. PacketLen(bytes) + Shortfall(bytes) = Size(q)
    <3>1. Size(q) \in Nat /\ Size(q) >= 18
      BY <1>6, PartType, SMTT(30) DEF q
    <3>2. PacketLen(bytes) = Size(q)
      BY <1>5 DEF q
    <3> QED BY <3>1, <3>2 DEF Shortfall, HEADER_LEN
  <2> QED BY <1>2, <2>11, <2>12 DEF u, v
<1>9. /\ Chain(ms, After(q), Tail(cut), begun, disturbed)
      /\ Before(ms, After(q), Len(ms) + 1) = Before(parts, e, Len(parts) + 1)
  BY <1>1, <1>4, <1>5, ShorterChain DEF Flow
<1>10. /\ q.of <= begun /\ Ends(cut[1], q, disturbed)
       /\ Follows(e, q, disturbed)
       /\ Len(cut) = Len(parts)
  <2>1. Before(parts, e, 1) = e
    BY DEF Before
  <2> QED BY <1>1, <1>6, <2>1 DEF Flow, Chain
<1>11. cut' = Tail(cut) /\ EndsHere = cut[1] /\ EndsHere \in {0, q.of}
  <2>1. cut # <<>>
    BY <1>4, <1>5, <1>6, <1>10, EmptySeq
  <2> QED BY <1>3, <1>4, <1>10, <2>1, HeadTailProperties DEF EndsHere, Ends
<1>12. q.of \in 0 .. NMessages /\ q.of \in Nat
  <2>1. q.of \in Nat /\ NMessages \in Nat
    BY <1>6, PartType, ConstantsAssumption, Zenon
  <2> HIDE DEF q
  <2> QED BY <1>4, <1>10, <2>1
<1>13. /\ p'.cmd_code = q.cmd /\ Held(p', After(q), disturbed)
       /\ q.cmd = LEVEL2 /\ q.of \notin disturbed /\ q.of - 1 \notin disturbed =>
            /\ p'.content = Message(q.of)
            /\ p'.length = HEADER_LEN + Len(Message(q.of))
  <2>1. Held(p, e, disturbed) /\ (q.of \notin disturbed => (q.cmd # CMD12 => q.of > 0))
    BY <1>1, <1>10 DEF Flow, Ends
  <2> HIDE DEF q
  <2> QED BY <1>2, <1>5, <1>6, <1>10, <1>12, <2>1, TakenPart
<1>14. e.of <= q.of /\ e.of \in Nat /\ After(q).of = q.of /\ After(q) \in State
  BY <1>6, <1>10, AfterType DEF Follows, After, State
<1> HIDE DEF q, d, ms
<1>15. Accepted \subseteq Accepted'
  <2>1. CASE Sound(p') = {} /\ UNCHANGED <<p2, accepted>>
    BY <2>1 DEF Accepted
  <2>2. ASSUME NEW m \in Sound(p'), accepted' = Append(accepted, m)
        PROVE  Accepted \subseteq Accepted'
    <3>1. m \in Nat
      BY <1>4 DEF Sound
    <3>2. /\ accepted' \in Seq(Nat) /\ Len(accepted') = Len(accepted) + 1 /\ Len(accepted) \in Nat
          /\ \A i \in 1 .. Len(accepted) : accepted'[i] = accepted[i]
      BY <1>4, <2>2, <3>1, AppendProperties
    <3>3. DOMAIN accepted = 1 .. Len(accepted) /\ DOMAIN accepted' = 1 .. Len(accepted')
      BY <1>4, <3>2, LenProperties
    <3>4. ASSUME NEW i \in DOMAIN accepted
          PROVE  i \in DOMAIN accepted' /\ accepted'[i] = accepted[i]
      <4>1. i \in 1 .. Len(accepted) /\ i \in 1 .. Len(accepted')
        BY <3>2, <3>3
      <4> QED BY <3>2, <3>3, <4>1
    <3> QED BY <3>4 DEF Accepted
  <2> QED BY <1>3, <2>1, <2>2
<1>16. \A n \in ended' : n <= q.of
  <2>1. \A n \in ended : n <= q.of
    BY <1>1, <1>4, <1>12, <1>14 DEF Flow
  <2> QED BY <1>3, <1>11, <1>12, <2>1
<1>17. Flowing'
  <2>1. Ahead(Before(ms, After(q), Len(ms) + 1), left, begun, disturbed)
    BY <1>1, <1>9 DEF Flow
  <2>2. Flow(ms, After(q))'
    BY <1>3, <1>7, <1>8, <1>9, <1>11, <1>13, <1>14, <1>16, <2>1 DEF Flow
  <2> QED BY <1>7, <1>14, <2>2 DEF Flowing
<1> DEFINE whole == q.of \notin disturbed /\ q.of - 1 \notin disturbed
<1>18. ASSUME whole, q.cmd = LEVEL2
       PROVE  /\ q.of \in ended' /\ p2' = q.of /\ q.of \in Accepted'
              /\ Sound(p') = {EndsHere} \ {0}
  <2>1. q.of > 0 /\ EndsHere = q.of
    BY <1>10, <1>11, <1>18 DEF Ends, LEVEL2, CMD12
  <2>2. q.of \in ended'
    BY <1>3, <1>12, <2>1
  <2>3. q.of \in 1 .. begun
    BY <1>4, <1>10, <1>12, <2>1
  <2>4. Sound(p') = {q.of}
    BY <1>4, <1>13, <1>18, <2>3, WholeMessage
  <2>5. p2' = q.of /\ accepted' = Append(accepted, q.of)
    BY <1>3, <2>4
  <2>6. /\ Len(accepted') = Len(accepted) + 1 /\ Len(accepted) \in Nat
        /\ accepted' \in Seq(Nat) /\ accepted'[Len(accepted) + 1] = q.of
    BY <1>4, <1>12, <2>5, AppendProperties
  <2>7. Len(accepted) + 1 \in DOMAIN accepted'
    BY <2>6
  <2>8. {EndsHere} \ {0} = {q.of}
    BY <2>1
  <2> QED BY <2>2, <2>4, <2>5, <2>6, <2>7, <2>8 DEF Accepted
<1>19. ASSUME whole, q.cmd # LEVEL2 PROVE EndsHere = 0 /\ Sound(p') = {}
  <2>1. q.cmd \in Commands /\ EndsHere = 0
    BY <1>10, <1>11, <1>19 DEF Ends
  <2>2. CASE q.cmd = FRAGMENT
    BY <1>13, <2>1, <2>2 DEF Sound
  <2>3. CASE q.cmd = CMD12
    <3>1. Len(q.content) <= 2 /\ e.cmd # FRAGMENT
      BY <1>10, <1>19, <2>3 DEF Follows
    <3>2. Held(p, e, disturbed)
      BY <1>1 DEF Flow
    <3>3. p.cmd_code # FRAGMENT
      BY <3>1, <3>2 DEF Held
    <3>4. p'.length = Size(q)
      BY <1>2, <1>5, <3>3 DEF Taken, Anew
    <3>5. Size(q) = 18 + Len(q.content) /\ Len(q.content) \in Nat
      BY <1>6, PartType
    <3>6. ~(p'.length - HEADER_LEN > 4)
      BY <3>1, <3>4, <3>5 DEF HEADER_LEN
    <3> QED BY <2>1, <3>6 DEF Sound
  <2> QED BY <1>19, <2>1, <2>2, <2>3 DEF Commands
<1>20. ASSUME ~whole PROVE LatelyDisturbed'
  <2>1. PICK k \in disturbed' : k = q.of \/ k = q.of - 1
    BY <1>3, <1>20
  <2>2. ended' \subseteq Nat
    BY <1>3, <1>4, <1>11, <1>12
  <2>3. \A n \in ended' : n <= k + 1
    BY <1>12, <1>16, <2>1, <2>2
  <2> QED BY <2>1, <2>3 DEF LatelyDisturbed
<1>21. (\A m \in ended : Read(m))'
  <2>1. \A m \in ended : Read(m)'
    BY <1>3, <1>15 DEF Read
  <2>2. ASSUME q.of # 0, EndsHere = q.of PROVE Read(q.of)'
    <3>1. CASE whole
      BY <1>18, <1>19, <2>2, <3>1 DEF Read
    <3>2. CASE ~whole
      BY <1>3, <3>2 DEF Read
    <3> QED BY <3>1, <3>2
  <2> QED BY <1>3, <1>11, <2>1, <2>2
<1>22. Fresh'
  <2> SUFFICES ASSUME pc' = "done"
               PROVE  (p2' \in ended' /\ \A m \in ended' : m <= p2') \/ LatelyDisturbed'
    BY DEF Fresh
  <2>1. q.cmd = LEVEL2
    BY <1>3, <1>13 DEF Awaited
  <2> QED BY <1>16, <1>18, <1>20, <2>1
<1>23. Sound(p') = {EndsHere} \ {0} \/ LatelyDisturbed'
  BY <1>18, <1>19, <1>20
<1> QED BY <1>17, <1>21, <1>22, <1>23

----------------------------------------------------------------------------
(* Steps in which nothing is read.                                         *)

\* What has been read stays read, and an answer stays fresh.
LEMMA Kept ==
  ASSUME UNCHANGED <<p2, ended, accepted>>, disturbed \subseteq disturbed',
         pc' = "done" => pc = "done"
  PROVE  /\ (\A m \in ended : Read(m)) => (\A m \in ended : Read(m))'
         /\ Fresh => Fresh'
<1>1. Accepted' = Accepted
  BY DEF Accepted
<1>2. ASSUME NEW m, Read(m) PROVE Read(m)'
  BY <1>1, <1>2 DEF Read
<1>3. (\A m \in ended : Read(m)) => (\A m \in ended : Read(m))'
  BY <1>2
<1>4. ASSUME Fresh PROVE Fresh'
  BY <1>4 DEF Fresh, LatelyDisturbed
<1> QED BY <1>3, <1>4

\* What the receiver will remember when it has read all parts.
LEMMA BeforeType ==
  ASSUME NEW parts \in Seq(Part), NEW e \in State, NEW c, NEW b, NEW ds,
         Chain(parts, e, c, b, ds)
  PROVE  /\ Before(parts, e, Len(parts) + 1) \in State
         /\ Before(parts, e, Len(parts) + 1).of <= b
<1> DEFINE n == Len(parts)
<1>0. n \in Nat /\ DOMAIN parts = 1 .. n
  BY LenProperties
<1> HIDE DEF n
<1>1. CASE n = 0
  <2>1. Before(parts, e, n + 1) = e
    BY <1>1 DEF Before
  <2> QED BY <2>1 DEF Chain, n
<1>2. CASE n # 0
  <2>1. n \in DOMAIN parts /\ n + 1 # 1 /\ (n + 1) - 1 = n
    BY <1>0, <1>2
  <2>2. Before(parts, e, n + 1) = After(parts[n])
    BY <2>1 DEF Before
  <2>3. parts[n] \in Part /\ parts[n].of <= b
    BY <2>1, ElementOfSeq, LenProperties DEF Chain
  <2>4. After(parts[n]) \in State /\ After(parts[n]).of = parts[n].of
    BY <2>3, AfterType DEF After
  <2> QED BY <2>2, <2>3, <2>4 DEF n
<1> QED BY <1>1, <1>2

\* The numbers that a message under way has.
LEMMA UnderWay ==
  ASSUME Types, begun > 0
  PROVE  /\ begun \in Messages /\ begun \in Nat
         /\ Message(begun) \in Seq(Byte) /\ Len(Message(begun)) \in Nat
         /\ Len(Message(begun)) > 4
<1>1. begun \in Messages /\ begun \in Nat
  BY ConstantsAssumption DEF Types, Messages
<1> QED BY <1>1, MessageType

\* The next message begins.
LEMMA BeginFlow ==
  ASSUME Types, Flowing, Begin
  PROVE  Flowing'
<1>1. PICK parts \in Seq(Part), e \in State : Flow(parts, e)
  BY DEF Flowing
<1> DEFINE f == Before(parts, e, Len(parts) + 1)
           b == begun + 1
<1>2. /\ left = <<>> /\ begun < NMessages /\ begun' = b /\ left' = Message(b)
      /\ UNCHANGED <<wire, cut, disturbed, p, ended, accepted>>
  <2>1. left' = Message(begun')
    BY DEF Begin
  <2> QED BY <2>1 DEF Begin, program
<1>3. /\ begun \in Nat /\ b \in 0 .. NMessages /\ b \in Messages /\ b > 0 /\ b - 1 = begun
  BY <1>2, ConstantsAssumption DEF Types, Messages
<1> HIDE DEF b
<1>4. Message(b) \in Seq(Byte) /\ Len(Message(b)) \in Nat /\ Len(Message(b)) > 4
  BY <1>3, MessageType
<1>6. \A n \in Int : n <= begun => n <= b
  BY <1>3
<1>7. f \in State /\ f.of <= begun /\ f.of \in Nat /\ f.of <= b
  <2>1. f \in State /\ f.of <= begun
    BY <1>1, BeforeType DEF Flow
  <2>2. f.of \in Nat
    BY <2>1 DEF State
  <2> QED BY <1>6, <2>1, <2>2
<1>8. Chain(parts, e, cut, b, disturbed)
  <2>1. Chain(parts, e, cut, begun, disturbed)
    BY <1>1 DEF Flow
  <2>2. \A k \in DOMAIN parts : parts[k].of \in Nat
    BY ElementOfSeq, LenProperties, PartType
  <2>3. e.of \in Nat
    BY DEF State
  <2>4. e.of <= b
    BY <1>6, <2>1, <2>3 DEF Chain
  <2>5. ASSUME NEW k \in DOMAIN parts
        PROVE  /\ parts[k].of <= b
               /\ Ends(cut[k], parts[k], disturbed)
               /\ Follows(Before(parts, e, k), parts[k], disturbed)
    BY <1>6, <2>1, <2>2 DEF Chain
  <2> QED BY <2>1, <2>4, <2>5 DEF Chain
<1>9. Ahead(f, Message(b), b, disturbed)
  <2> DEFINE q == Rest(Message(b), b)
  <2>1. q.cmd = LEVEL2 /\ q.content = Message(b) /\ q.of = b /\ q.off = 0
    BY <1>4 DEF Rest
  <2>2. Message(b) # <<>>
    BY <1>4
  <2>3. begun \notin disturbed => f.cmd # FRAGMENT
    BY <1>1, <1>2 DEF Flow, Ahead
  <2> HIDE DEF q, f
  <2>4. 0 + Len(Message(b)) = Len(Message(b)) /\ \A j \in 1 .. Len(Message(b)) : 0 + j = j
    BY <1>4
  <2>5. Follows(f, q, disturbed)
    <3>1. /\ q.off + Len(q.content) = Len(Message(q.of)) /\ ~(q.off > 0)
          /\ q.off + Len(q.content) <= Len(Message(q.of))
          /\ \A j \in 1 .. Len(q.content) : q.content[j] = Message(q.of)[q.off + j]
      BY <1>4, <2>1, <2>4
    <3>2. q.of - 1 \notin disturbed => f.cmd # FRAGMENT
      BY <1>3, <2>1, <2>3
    <3>3. f.of <= q.of
      BY <1>7, <2>1
    <3>4. q.cmd # CMD12
      BY <2>1 DEF LEVEL2, CMD12
    <3> QED BY <3>1, <3>2, <3>3, <3>4 DEF Follows
  <2> QED BY <1>3, <1>4, <2>2, <2>5 DEF Ahead, q
<1> HIDE DEF f
<1>10. Flow(parts, e)'
  <2>1. Ahead(Before(parts, e, Len(parts) + 1), Message(b), b, disturbed)
    BY <1>9 DEF f
  <2> QED BY <1>1, <1>2, <1>8, <2>1 DEF Flow
<1> QED BY <1>10 DEF Flowing

\* A packet goes out.
LEMMA PutFlow ==
  ASSUME Types, NEW parts \in Seq(Part), NEW e \in State, Flow(parts, e),
         NEW q \in Part, q.at = Len(wire) + 1, Size(q) < 256, q.of = begun,
         NEW bytes, Shape(bytes, q), NEW last, Put(bytes, last),
         UNCHANGED <<p, ended, begun>>, disturbed \subseteq disturbed',
         Ends(last, q, disturbed'),
         Follows(Before(parts, e, Len(parts) + 1), q, disturbed'),
         Ahead(After(q), left', begun, disturbed')
  PROVE  Flowing'
<1> DEFINE more == Append(parts, q)
<1>1. /\ wire \in Seq(Byte) /\ cut \in Seq(Nat) /\ begun \in Nat
      /\ Layout(parts, wire)
      /\ wire' = wire \o bytes /\ cut' = Append(cut, last)
  BY ConstantsAssumption DEF Types, Flow, Put
<1>2. more \in Seq(Part) /\ Layout(more, wire')
  BY <1>1, OnePartMore
<1>3. Chain(parts, e, cut, begun, disturbed') /\ Held(p, e, disturbed')
  BY MoreDisturbed DEF Flow
<1>4. /\ Chain(more, e, Append(cut, last), begun, disturbed')
      /\ Before(more, e, Len(more) + 1) = After(q)
  <2>1. q.of <= begun
    BY <1>1
  <2> QED BY <1>1, <1>3, <2>1, LongerChain
<1> HIDE DEF more
<1>5. Flow(more, e)'
  BY <1>1, <1>2, <1>3, <1>4 DEF Flow
<1> QED BY <1>2, <1>5 DEF Flowing

\* What is left to be sent, and what it continues.
LEMMA LeftOver ==
  ASSUME Types, NEW parts \in Seq(Part), NEW e \in State, Flow(parts, e)
  PROVE  LET f == Before(parts, e, Len(parts) + 1)
             o == Len(Message(begun)) - Len(left)
         IN  /\ f \in State /\ f.of <= begun /\ begun \in Nat
             /\ left # <<>> =>
                  /\ begun > 0 /\ Len(left) <= Len(Message(begun)) /\ o \in Nat
                  /\ begun \notin disturbed =>
                       /\ \A j \in 1 .. Len(left) : left[j] = Message(begun)[o + j]
                       /\ o > 0 => f.cmd = FRAGMENT /\ f.of = begun /\ f.end = o
                       /\ o = 0 /\ begun - 1 \notin disturbed => f.cmd # FRAGMENT
<1> DEFINE f == Before(parts, e, Len(parts) + 1)
           o == Len(Message(begun)) - Len(left)
           q == Rest(left, begun)
<1>1. f \in State /\ f.of <= begun /\ begun \in Nat
  BY BeforeType, ConstantsAssumption DEF Flow, Types
<1>2. ASSUME left # <<>>
      PROVE  /\ begun > 0 /\ Len(left) <= Len(Message(begun)) /\ o \in Nat
             /\ Follows(f, q, disturbed)
  <2>1. begun > 0 /\ Len(left) <= Len(Message(begun)) /\ Follows(f, q, disturbed)
    BY <1>2 DEF Flow, Ahead
  <2>2. Len(Message(begun)) \in Nat /\ Len(left) \in Nat
    BY <2>1, UnderWay DEF Types
  <2> QED BY <2>1, <2>2
<1>3. q.cmd = LEVEL2 /\ q.content = left /\ q.of = begun /\ q.off = o /\ LEVEL2 # CMD12
  BY DEF Rest, LEVEL2, CMD12
<1> HIDE DEF f, o, q
<1>4. ASSUME left # <<>>, begun \notin disturbed
      PROVE  /\ \A j \in 1 .. Len(left) : left[j] = Message(begun)[o + j]
             /\ o > 0 => f.cmd = FRAGMENT /\ f.of = begun /\ f.end = o
             /\ o = 0 /\ begun - 1 \notin disturbed => f.cmd # FRAGMENT
  BY <1>2, <1>3, <1>4 DEF Follows
<1> QED BY <1>1, <1>2, <1>4 DEF f, o

\* A fragment of what is left goes out.
LEMMA SendFragmentFlow ==
  ASSUME Types, Flowing, SendFragment
  PROVE  Flowing'
<1>1. PICK parts \in Seq(Part), e \in State : Flow(parts, e)
  BY DEF Flowing
<1>2. PICK n \in Cuts :
        /\ n < Len(left)
        /\ Put(PacketBytes(FRAGMENT, SubSeq(left, 1, n)), 0)
        /\ left' = SubSeq(left, n + 1, Len(left))
  BY DEF SendFragment
<1>3. UNCHANGED <<p, ended, begun, disturbed>>
  BY DEF SendFragment, program
<1> DEFINE f == Before(parts, e, Len(parts) + 1)
           msg == Message(begun)
           l == Len(left)
           o == Len(msg) - l
           c == SubSeq(left, 1, n)
           q == [at |-> Len(wire) + 1, cmd |-> FRAGMENT, content |-> c, of |-> begun, off |-> o]
<1>4. /\ n \in Nat /\ n > 0 /\ l \in Nat /\ left # <<>> /\ wire \in Seq(Byte) /\ Len(wire) \in Nat
      /\ left \in Seq(Byte)
  <2>1. n \in Nat \ {0}
    BY ConstantsAssumption
  <2>2. left \in Seq(Byte) /\ wire \in Seq(Byte)
    BY DEF Types
  <2>3. left # <<>>
    BY <1>2, <2>1, <2>2
  <2> QED BY <2>1, <2>2, <2>3
<1>5. /\ f \in State /\ f.of <= begun /\ begun \in Nat
      /\ begun > 0 /\ l <= Len(msg) /\ o \in Nat
      /\ begun \notin disturbed =>
           /\ \A j \in 1 .. l : left[j] = msg[o + j]
           /\ o > 0 => f.cmd = FRAGMENT /\ f.of = begun /\ f.end = o
           /\ o = 0 /\ begun - 1 \notin disturbed => f.cmd # FRAGMENT
  BY <1>1, <1>4, LeftOver
<1>6. Len(msg) \in Nat /\ 18 + n < 256
  BY <1>5, UnderWay, ConstantsAssumption DEF HEADER_LEN
<1>7. n \in Nat /\ n <= Len(left)
  BY <1>2, <1>4
<1>8. /\ c \in Seq(Byte) /\ Len(c) = n /\ \A j \in 1 .. n : c[j] = left[j]
      /\ left' \in Seq(Byte) /\ Len(left') = l - n /\ left' # <<>>
      /\ \A j \in 1 .. l - n : left'[j] = left[n + j]
  <2>1. /\ c \in Seq(Byte) /\ Len(c) = n /\ \A j \in 1 .. n : c[j] = left[j]
        /\ left' \in Seq(Byte) /\ Len(left') = l - n
        /\ \A j \in 1 .. l - n : left'[j] = left[n + j]
    BY <1>2, <1>4, <1>7, CutType
  <2>2. l - n # 0
    BY <1>2, <1>4
  <2>3. left' = <<>> => Len(left') = 0
    OBVIOUS
  <2> QED BY <2>1, <2>2, <2>3
<1> HIDE DEF c, f, o, l
<1>9. /\ q \in Part /\ q.at = Len(wire) + 1 /\ q.cmd = FRAGMENT /\ q.content = c
      /\ q.of = begun /\ q.off = o
  BY <1>4, <1>5, <1>8 DEF Part, FRAGMENT
<1> HIDE DEF q
<1>10. Size(q) < 256
  BY <1>6, <1>8, <1>9 DEF Size, HEADER_LEN
<1>11. o + l = Len(msg) /\ n < l
  <2>1. \A a, b \in Nat : (a - b) + b = a
    OBVIOUS
  <2> QED BY <1>2, <1>4, <1>6, <2>1 DEF o, l
<1>12. Follows(f, q, disturbed)
  <2>1. ASSUME begun \notin disturbed
        PROVE  /\ o + n <= Len(msg)
               /\ \A j \in 1 .. n : c[j] = msg[o + j]
    <3>1. o + n <= Len(msg)
      BY <1>4, <1>5, <1>11
    <3>2. \A j \in 1 .. n : j \in 1 .. l
      BY <1>4, <1>11
    <3> QED BY <1>5, <1>8, <2>1, <3>1, <3>2
  <2>2. FRAGMENT # LEVEL2 /\ FRAGMENT # CMD12
    BY DEF FRAGMENT, LEVEL2, CMD12
  <2> QED BY <1>5, <1>8, <1>9, <2>1, <2>2 DEF Follows
<1>13. Ahead(After(q), left', begun, disturbed)
  <2> DEFINE r == Rest(left', begun)
             g == After(q)
  <2>1. Len(left') = l - n /\ l - n \in Nat /\ l - n <= Len(msg)
    BY <1>4, <1>5, <1>8, <1>11
  <2>2. Len(msg) - (l - n) = o + n
    <3>1. \A a, b, k \in Nat : (a + b) - (b - k) = a + k
      OBVIOUS
    <3>2. o \in Nat /\ l \in Nat /\ n \in Nat /\ Len(msg) = o + l
      BY <1>4, <1>5, <1>11
    <3> HIDE DEF msg
    <3>3. (o + l) - (l - n) = o + n
      BY <3>1, <3>2
    <3> QED BY <3>2, <3>3, Zenon
  <2>3. r.cmd = LEVEL2 /\ r.content = left' /\ r.of = begun /\ r.off = o + n
    BY <2>1, <2>2 DEF Rest
  <2>4. g.cmd = FRAGMENT /\ g.of = begun /\ g.end = o + n
    BY <1>8, <1>9 DEF After
  <2> HIDE DEF r, g, msg
  <2>5. (o + n) + (l - n) = Len(msg) /\ o + n > 0
    <3>1. \A a, b, k, m \in Nat : a + b = m /\ k > 0 => (a + k) + (b - k) = m /\ a + k > 0
      OBVIOUS
    <3> QED BY <1>4, <1>5, <1>6, <1>11, <3>1
  <2>6. ASSUME begun \notin disturbed, NEW j \in 1 .. l - n
        PROVE  left'[j] = msg[(o + n) + j]
    <3>1. n + j \in 1 .. l /\ o + (n + j) = (o + n) + j
      BY <1>4, <1>5, <1>11
    <3>2. left[n + j] = msg[o + (n + j)]
      BY <1>5, <2>6, <3>1
    <3> QED BY <1>8, <3>1, <3>2
  <2>7. Follows(g, r, disturbed)
    <3>1. /\ r.off > 0 /\ r.off # 0 /\ g.of <= r.of
          /\ r.off + Len(r.content) = Len(msg) /\ Len(msg) <= Len(msg)
      <4>1. o + n # 0 /\ begun <= begun /\ Len(msg) <= Len(msg)
        BY <1>4, <1>5, <1>6
      <4> QED BY <2>1, <2>3, <2>4, <2>5, <4>1
    <3>2. r.of \notin disturbed =>
            \A j \in 1 .. Len(r.content) : r.content[j] = msg[r.off + j]
      BY <2>1, <2>3, <2>6
    <3>3. msg = Message(r.of)
      BY <2>3 DEF msg
    <3>4. r.cmd # CMD12
      BY <2>3 DEF LEVEL2, CMD12
    <3> QED BY <2>3, <2>4, <3>1, <3>2, <3>3, <3>4 DEF Follows
  <2> QED BY <1>5, <1>8, <2>1, <2>7 DEF Ahead, r, g, msg
<1>14. Shape(PacketBytes(FRAGMENT, c), q) /\ Ends(0, q, disturbed)
  <2>1. q.cmd \in Commands /\ q.cmd # LEVEL2 /\ q.of > 0
    BY <1>5, <1>9 DEF Commands, FRAGMENT, LEVEL2
  <2> QED BY <1>9, <1>10, <2>1, PacketShaped DEF Ends
<1>15. Put(PacketBytes(FRAGMENT, c), 0)
  BY <1>2 DEF c
<1>16. /\ Follows(Before(parts, e, Len(parts) + 1), q, disturbed')
       /\ Ahead(After(q), left', begun, disturbed')
       /\ Ends(0, q, disturbed') /\ disturbed \subseteq disturbed'
  BY <1>3, <1>12, <1>13, <1>14 DEF f
<1> QED BY <1>1, <1>3, <1>9, <1>10, <1>14, <1>15, <1>16, PutFlow

\* All that is left goes out.
LEMMA SendLastFlow ==
  ASSUME Types, Flowing, SendLast
  PROVE  Flowing'
<1>1. PICK parts \in Seq(Part), e \in State : Flow(parts, e)
  BY DEF Flowing
<1>2. /\ left # <<>> /\ Len(left) <= MaxContent /\ left' = <<>>
      /\ Put(PacketBytes(LEVEL2, left), begun)
      /\ UNCHANGED <<p, ended, begun, disturbed>>
  BY DEF SendLast, program
<1> DEFINE f == Before(parts, e, Len(parts) + 1)
           o == Len(Message(begun)) - Len(left)
           r == Rest(left, begun)
           q == [at |-> Len(wire) + 1, cmd |-> LEVEL2, content |-> left, of |-> begun, off |-> o]
<1>3. /\ begun \in Nat /\ begun > 0 /\ Len(left) <= Len(Message(begun)) /\ o \in Nat
      /\ left \in Seq(Byte) /\ Len(left) \in Nat /\ wire \in Seq(Byte) /\ Len(wire) \in Nat
  BY <1>1, <1>2, LeftOver DEF Types
<1>4. 18 + Len(left) < 256
  BY <1>2, <1>3, ConstantsAssumption DEF HEADER_LEN
<1>5. Follows(f, r, disturbed)
  BY <1>1, <1>2 DEF Flow, Ahead
<1>6. r = [at |-> 1, cmd |-> LEVEL2, content |-> left, of |-> begun, off |-> o]
  BY DEF Rest
<1> HIDE DEF o, r
<1>7. /\ q \in Part /\ q.at = Len(wire) + 1 /\ q.cmd = LEVEL2 /\ q.content = left
      /\ q.of = begun /\ q.off = o
      /\ r.cmd = LEVEL2 /\ r.content = left /\ r.of = begun /\ r.off = o
  BY <1>3, <1>6 DEF Part, LEVEL2
<1> HIDE DEF f, q
<1>8. Size(q) < 256
  BY <1>4, <1>7 DEF Size, HEADER_LEN
<1>9. Follows(f, q, disturbed)
  BY <1>5, <1>7, SameMeaning
<1>10. Ahead(After(q), <<>>, begun, disturbed)
  BY <1>7 DEF Ahead, After, LEVEL2, FRAGMENT
<1>11. Shape(PacketBytes(LEVEL2, left), q) /\ Ends(begun, q, disturbed)
  <2>1. q.cmd \in Commands /\ q.of > 0
    BY <1>3, <1>7 DEF Commands
  <2> QED BY <1>7, <1>8, <2>1, PacketShaped DEF Ends
<1>12. /\ Follows(Before(parts, e, Len(parts) + 1), q, disturbed')
       /\ Ahead(After(q), left', begun, disturbed')
       /\ Ends(begun, q, disturbed') /\ disturbed \subseteq disturbed'
  BY <1>2, <1>9, <1>10, <1>11 DEF f
<1> QED BY <1>1, <1>2, <1>7, <1>8, <1>11, <1>12, PutFlow

\* A packet of another kind goes out.  In the middle of a message it disturbs
\* the message.
LEMMA ChatterFlow ==
  ASSUME Types, Flowing, Chatter
  PROVE  Flowing'
<1>1. PICK parts \in Seq(Part), e \in State : Flow(parts, e)
  BY DEF Flowing
<1>2. PICK content \in {<<>>, <<START, 255>>} :
        Put(PacketBytes(CMD12, content), 0)
  BY DEF Chatter
<1>3. /\ UNCHANGED <<p, ended, begun, left>>
      /\ disturbed' = IF left # <<>> /\ left # Message(begun)
                      THEN disturbed \cup {begun} ELSE disturbed
  BY DEF Chatter, program
<1> DEFINE f == Before(parts, e, Len(parts) + 1)
           q == [at |-> Len(wire) + 1, cmd |-> CMD12, content |-> content, of |-> begun, off |-> 0]
           o == Len(Message(begun)) - Len(left)
<1>4. /\ left \in Seq(Byte) /\ wire \in Seq(Byte) /\ Len(wire) \in Nat
      /\ disturbed \subseteq disturbed'
      /\ content \in Seq(Byte) /\ Len(content) \in Nat /\ Len(content) <= 2
  <2>1. content \in Seq(Byte) /\ Len(content) \in Nat /\ Len(content) <= 2
    <3>1. CASE content = <<>>
      BY <3>1
    <3>2. CASE content = <<START, 255>>
      BY <3>2 DEF START, Byte
    <3> QED BY <3>1, <3>2
  <2>2. disturbed \subseteq disturbed'
    BY <1>3
  <2> QED BY <2>1, <2>2 DEF Types
<1>5. /\ f \in State /\ f.of <= begun /\ begun \in Nat
      /\ left # <<>> =>
           /\ begun > 0 /\ Len(left) <= Len(Message(begun)) /\ o \in Nat
           /\ begun \notin disturbed => \A j \in 1 .. Len(left) : left[j] = Message(begun)[o + j]
  BY <1>1, LeftOver
<1> HIDE DEF f
<1>6. /\ q \in Part /\ q.at = Len(wire) + 1 /\ q.cmd = CMD12 /\ q.content = content
      /\ q.of = begun /\ q.off = 0
  BY <1>4, <1>5 DEF Part, CMD12
<1> HIDE DEF q
<1>7. Size(q) < 256
  BY <1>4, <1>6 DEF Size, HEADER_LEN
<1>8. Follows(f, q, disturbed')
  <2>1. begun \notin disturbed' /\ begun - 1 \notin disturbed' => f.cmd # FRAGMENT
    <3> SUFFICES ASSUME begun \notin disturbed', begun - 1 \notin disturbed'
                 PROVE  f.cmd # FRAGMENT
      OBVIOUS
    <3>1. begun \notin disturbed /\ begun - 1 \notin disturbed
      BY <1>4
    <3>2. CASE left = <<>>
      BY <1>1, <3>1, <3>2 DEF Flow, Ahead, f
    <3>3. CASE left # <<>>
      <4>1. left = Message(begun)
        BY <1>3, <3>3
      <4>2. Len(left) \in Nat
        BY <1>4
      <4>3. o = 0
        BY <4>1, <4>2
      <4> HIDE DEF o
      <4> QED BY <1>1, <3>1, <3>3, <4>3, LeftOver DEF f, o
    <3> QED BY <3>2, <3>3
  <2> QED BY <1>4, <1>5, <1>6, <2>1 DEF Follows
<1>9. Ahead(After(q), left, begun, disturbed')
  <2> DEFINE r == Rest(left, begun)
             g == After(q)
  <2>1. g.cmd = CMD12 /\ g.of = begun /\ CMD12 # FRAGMENT
    BY <1>6 DEF After, CMD12, FRAGMENT
  <2>2. r.cmd = LEVEL2 /\ r.content = left /\ r.of = begun /\ r.off = o
    BY DEF Rest
  <2> HIDE DEF r, g
  <2>3. ASSUME left # <<>> PROVE Follows(g, r, disturbed')
    <3>1. g.of <= r.of
      BY <1>5, <2>1, <2>2
    <3>2. ASSUME begun \notin disturbed'
          PROVE  /\ begun \notin disturbed /\ o = 0 /\ left = Message(begun)
                 /\ Len(left) = Len(Message(begun)) /\ Len(left) \in Nat
      <4>1. begun \notin disturbed /\ left = Message(begun)
        BY <1>3, <2>3, <3>2
      <4>2. Len(left) \in Nat
        BY <1>4
      <4> QED BY <4>1, <4>2
    <3>3. ASSUME begun \notin disturbed'
          PROVE  /\ r.off + Len(r.content) <= Len(Message(r.of))
                 /\ r.off + Len(r.content) = Len(Message(r.of))
                 /\ ~(r.off > 0)
                 /\ \A j \in 1 .. Len(r.content) : r.content[j] = Message(r.of)[r.off + j]
      <4>1. 0 + Len(left) = Len(left) /\ Len(left) <= Len(left)
        BY <3>2, <3>3
      <4>2. \A j \in 1 .. Len(left) : left[j] = Message(begun)[0 + j]
        BY <1>5, <2>3, <3>2, <3>3
      <4>3. ~(0 > 0)
        OBVIOUS
      <4> HIDE DEF o
      <4> QED BY <2>2, <3>2, <3>3, <4>1, <4>2, <4>3
    <3>4. r.cmd # CMD12
      BY <2>2 DEF LEVEL2, CMD12
    <3> QED BY <2>1, <2>2, <3>1, <3>3, <3>4 DEF Follows
  <2> QED BY <1>5, <2>1, <2>3 DEF Ahead, r, g
<1>10. Shape(PacketBytes(CMD12, content), q) /\ Ends(0, q, disturbed')
  <2>1. q.cmd \in Commands /\ q.cmd # LEVEL2
    BY <1>6 DEF Commands, CMD12, LEVEL2
  <2> QED BY <1>6, <1>7, <2>1, PacketShaped DEF Ends
<1>11. /\ Follows(Before(parts, e, Len(parts) + 1), q, disturbed')
       /\ Ahead(After(q), left', begun, disturbed')
  BY <1>3, <1>8, <1>9 DEF f
<1> QED BY <1>1, <1>2, <1>3, <1>4, <1>6, <1>7, <1>10, <1>11, PutFlow

\* A packet goes out with a damaged header.  If its length is sound, it is a
\* packet of another kind; what it belongs to is disturbed.
LEMMA DamageHeaderFlow ==
  ASSUME Types, Flowing, DamageHeader, ~stray'
  PROVE  Flowing'
<1>1. PICK parts \in Seq(Part), e \in State : Flow(parts, e)
  BY DEF Flowing
<1>0. left \in Seq(Byte) /\ wire \in Seq(Byte) /\ Len(left) \in Nat /\ Len(wire) \in Nat
  BY LenProperties DEF Types
<1>2. PICK n \in Nat, k \in {1, 2, 3, 17, 18}, b \in Byte, cmd \in Commands :
         /\ n <= Len(left) /\ n <= MaxContent
         /\ cmd = IF n = 0 THEN CMD12 ELSE IF n = Len(left) THEN LEVEL2 ELSE FRAGMENT
         /\ Put([PacketBytes(cmd, SubSeq(left, 1, n)) EXCEPT ![k] = b],
                IF cmd = LEVEL2 THEN begun ELSE 0)
         /\ left' = SubSeq(left, n + 1, Len(left))
         /\ stray' = (stray \/ k <= 3)
  BY <1>0, DamagedHeader
<1>3. UNCHANGED <<p, ended, begun>> /\ disturbed' = disturbed \cup {begun}
  BY DEF DamageHeader, program
<1> DEFINE c == SubSeq(left, 1, n)
           packet == PacketBytes(cmd, c)
           damaged == [packet EXCEPT ![k] = b]
           code == Code(damaged[17], damaged[18])
           f == Before(parts, e, Len(parts) + 1)
           q == [at |-> Len(wire) + 1, cmd |-> code, content |-> c, of |-> begun, off |-> 0]
<1>4. k \in {17, 18}
  <2>1. ~(k <= 3)
    BY <1>2
  <2>2. \A j \in {1, 2, 3, 17, 18} : ~(j <= 3) => j \in {17, 18}
    OBVIOUS
  <2> QED BY <2>1, <2>2
<1>5. c \in Seq(Byte) /\ Len(c) = n /\ left' \in Seq(Byte) /\ Len(left') = Len(left) - n
  BY <1>0, <1>2, CutType
<1>6. 18 + n < 256
  BY <1>2, ConstantsAssumption DEF HEADER_LEN
<1>7. /\ packet \in Seq(Byte) /\ Len(packet) = 18 + n
      /\ packet[1] = START /\ packet[2] = 18 + n /\ packet[3] = 0
      /\ \A j \in 1 .. n : packet[18 + j] = c[j]
  <2>1. HEADER_LEN + Len(c) < 256
    BY <1>5, <1>6 DEF HEADER_LEN
  <2> HIDE DEF c
  <2>2. /\ packet \in Seq(Byte) /\ Len(packet) = HEADER_LEN + Len(c)
        /\ packet[1] = START /\ packet[2] = HEADER_LEN + Len(c) /\ packet[3] = 0
        /\ packet[17] = cmd /\ packet[18] = 0
        /\ \A j \in 1 .. Len(c) : packet[HEADER_LEN + j] = c[j]
    <3>1. c \in Seq(Byte)
      BY <1>5
    <3>2. cmd \in Commands
      OBVIOUS
    <3> QED BY <2>1, <3>1, <3>2, PacketShape, Zenon
  <2> HIDE DEF packet
  <2> QED BY <1>5, <2>2 DEF HEADER_LEN
<1> HIDE DEF packet
<1>8. /\ damaged \in Seq(Byte) /\ Len(damaged) = 18 + n
      /\ \A j \in 1 .. 18 + n : j # k => damaged[j] = packet[j]
  <2>1. k \in 1 .. Len(packet)
    BY <1>4, <1>7
  <2>2. damaged \in Seq(Byte) /\ Len(damaged) = Len(packet)
    BY <1>7, <2>1, ExceptSeq
  <2>3. DOMAIN packet = 1 .. 18 + n
    BY <1>7, LenProperties
  <2> QED BY <1>7, <2>2, <2>3
<1> HIDE DEF damaged
<1>9. code \in Int
  <2>1. 17 \in 1 .. 18 + n /\ 18 \in 1 .. 18 + n
    OBVIOUS
  <2>2. damaged[17] \in Byte /\ damaged[18] \in Byte
    BY <1>8, <2>1, ElementOfSeq
  <2> QED BY <2>2, TwoBytes DEF Byte
<1>10. /\ f \in State /\ f.of <= begun /\ begun \in Nat
       /\ left # <<>> => begun > 0 /\ Len(left) <= Len(Message(begun))
  BY <1>1, LeftOver
<1> HIDE DEF code, f, c
<1>11. /\ q \in Part /\ q.at = Len(wire) + 1 /\ q.cmd = code /\ q.content = c
       /\ q.of = begun /\ q.off = 0
  <2>1. Len(wire) + 1 \in Nat \ {0}
    BY <1>0, LenProperties
  <2>2. c \in Seq(Byte) /\ begun \in Nat /\ code \in Int /\ 0 \in Nat
    BY <1>5, <1>9, <1>10
  <2> QED BY <2>1, <2>2 DEF Part
<1> HIDE DEF q
<1>12. Size(q) = 18 + n /\ Size(q) < 256
  BY <1>5, <1>6, <1>11 DEF Size, HEADER_LEN
<1>13. Shape(damaged, q)
  <2>1. \A j \in 1 .. 3 : j \in 1 .. 18 + n /\ j # k
    BY <1>4
  <2>2. damaged[1] = START /\ damaged[2] = 18 + n /\ damaged[3] = 0
    BY <1>7, <1>8, <2>1
  <2>3. ASSUME NEW j \in 1 .. n PROVE damaged[18 + j] = c[j]
    <3>1. 18 + j \in 1 .. 18 + n /\ 18 + j # k
      BY <1>4
    <3> QED BY <1>7, <1>8, <3>1
  <2> QED BY <1>5, <1>8, <1>11, <1>12, <2>2, <2>3 DEF Shape, HEADER_LEN, code
<1>14. begun \in disturbed' /\ disturbed \subseteq disturbed'
  BY <1>3
<1> DEFINE last == IF cmd = LEVEL2 THEN begun ELSE 0
<1>15. /\ Ends(last, q, disturbed') /\ Follows(f, q, disturbed')
  <2>1. Ends(last, q, disturbed')
    BY <1>11, <1>14, Zenon DEF Ends
  <2>2. Follows(f, q, disturbed')
    BY <1>10, <1>11, <1>14, Zenon DEF Follows
  <2> QED BY <2>1, <2>2
<1>16. Ahead(After(q), left', begun, disturbed')
  <2>1. ASSUME left' # <<>>
        PROVE  begun > 0 /\ Len(left') <= Len(Message(begun))
    <3>1. left # <<>>
      <4>1. left = <<>> => Len(left) = 0
        OBVIOUS
      <4>2. Len(left') # 0
        BY <1>5, <2>1, EmptySeq
      <4> QED BY <1>0, <1>2, <1>5, <4>1, <4>2
    <3>2. Len(Message(begun)) \in Nat
      BY <1>10, <3>1, UnderWay
    <3>3. Len(left) \in Nat /\ Len(left') <= Len(left)
      BY <1>0, <1>2, <1>5, LenProperties
    <3>4. Len(left) <= Len(Message(begun)) /\ begun > 0 /\ Len(left') \in Nat
      BY <1>5, <1>10, <3>1, LenProperties
    <3> QED BY <3>2, <3>3, <3>4
  <2>2. Follows(After(q), Rest(left', begun), disturbed')
    <3>1. After(q).of = begun /\ Rest(left', begun).of = begun /\ begun <= begun
      BY <1>10, <1>11 DEF After, Rest
    <3> QED BY <1>14, <3>1, Zenon DEF Follows
  <2> QED BY <1>14, <2>1, <2>2 DEF Ahead
<1>17. Put(damaged, last)
  BY <1>2 DEF c, packet, damaged
<1> HIDE DEF last
<1> QED BY <1>1, <1>3, <1>11, <1>12, <1>13, <1>14, <1>15, <1>16, <1>17, PutFlow DEF f

\* Noise between packets is passed over.
LEMMA NoiseFlow ==
  ASSUME Types, Flowing, Noise
  PROVE  Flowing'
<1>1. PICK parts \in Seq(Part), e \in State : Flow(parts, e)
  BY DEF Flowing
<1>2. PICK b \in Junk : wire' = Append(wire, b)
  BY DEF Noise
<1>3. UNCHANGED <<p, ended, cut, begun, left, disturbed>>
  BY DEF Noise, program
<1>4. b \in Byte /\ b # START /\ wire \in Seq(Byte) /\ Layout(parts, wire)
  BY <1>1, ConstantsAssumption DEF Types, Flow
<1>5. Layout(parts, wire')
  BY <1>2, <1>4, QuietByte
<1>6. Flow(parts, e)'
  BY <1>1, <1>3, <1>5 DEF Flow
<1> QED BY <1>6 DEF Flowing

\* A part of a message is lost or damaged.
LEMMA LeftDisturbed ==
  ASSUME Types, Flowing, left # <<>>,
         left' \in Seq(Byte), Len(left') <= Len(left), disturbed' = disturbed \cup {begun},
         UNCHANGED <<p, ended, wire, cut, begun>>
  PROVE  Flowing'
<1>1. PICK parts \in Seq(Part), e \in State : Flow(parts, e)
  BY DEF Flowing
<1> DEFINE f == Before(parts, e, Len(parts) + 1)
<1>2. /\ f \in State /\ f.of <= begun /\ begun \in Nat /\ begun > 0
      /\ Len(left) <= Len(Message(begun))
  BY <1>1, LeftOver
<1>3. Len(left) \in Nat /\ Len(left') \in Nat /\ Len(Message(begun)) \in Nat
  BY <1>2, UnderWay DEF Types
<1>4. Len(left') <= Len(Message(begun))
  <2>1. \A a, b, c \in Nat : a <= b /\ b <= c => a <= c
    OBVIOUS
  <2> QED BY <1>2, <1>3, <2>1
<1> HIDE DEF f
<1>5. Ahead(f, left', begun, disturbed')
  <2>1. Follows(f, Rest(left', begun), disturbed')
    <3>1. LEVEL2 # CMD12
      BY DEF LEVEL2, CMD12
    <3> QED BY <1>2, <3>1 DEF Follows, Rest
  <2> QED BY <1>2, <1>4, <2>1 DEF Ahead
<1>6. Chain(parts, e, cut, begun, disturbed') /\ Held(p, e, disturbed')
  <2>1. disturbed \subseteq disturbed'
    OBVIOUS
  <2> QED BY <1>1, <2>1, MoreDisturbed DEF Flow
<1>7. Flow(parts, e)'
  BY <1>1, <1>5, <1>6 DEF Flow, f
<1> QED BY <1>7 DEF Flowing

LEMMA LosePartFlow ==
  ASSUME Types, Flowing, LosePart
  PROVE  Flowing'
<1>1. PICK n \in Cuts \cup {Len(left)} : n <= Len(left) /\ left' = SubSeq(left, n + 1, Len(left))
  BY DEF LosePart
<1>2. /\ left # <<>> /\ disturbed' = disturbed \cup {begun}
      /\ UNCHANGED <<p, ended, wire, cut, begun>>
  BY DEF LosePart, program
<1>3. left \in Seq(Byte) /\ Len(left) \in Nat /\ n \in Nat
  BY ConstantsAssumption DEF Types
<1>4. left' \in Seq(Byte) /\ Len(left') <= Len(left)
  <2>1. left' \in Seq(Byte) /\ Len(left') = Len(left) - n
    BY <1>1, <1>3, CutType
  <2> QED BY <1>3, <2>1
<1> QED BY <1>2, <1>4, LeftDisturbed

LEMMA DamagePartFlow ==
  ASSUME Types, Flowing, DamagePart
  PROVE  Flowing'
<1>1. PICK k \in 1 .. Len(left), b \in Junk \cup {START} : left' = [left EXCEPT ![k] = b]
  BY DEF DamagePart
<1>2. /\ disturbed' = disturbed \cup {begun}
      /\ UNCHANGED <<p, ended, wire, cut, begun>>
  BY DEF DamagePart, program
<1>3. left \in Seq(Byte) /\ Len(left) \in Nat /\ b \in Byte /\ left # <<>>
  BY NoiseIsBytes, LenProperties DEF Types
<1>4. left' \in Seq(Byte) /\ Len(left') = Len(left)
  BY <1>1, <1>3, ExceptSeq
<1>5. Len(left') <= Len(left)
  BY <1>3, <1>4
<1> QED BY <1>2, <1>3, <1>4, <1>5, LeftDisturbed

\* Every step of the program, of the sender and of the line.
LEMMA StepFlow == TypeOK /\ LInv /\ [Next]_vars => LInv'
<1> SUFFICES ASSUME TypeOK, LInv, [Next]_vars, ~stray'
             PROVE  /\ (pc # "exit" => Flowing)'
                    /\ (\A m \in ended : Read(m))'
                    /\ Fresh'
  BY DEF LInv
<1> DEFINE Rests == /\ UNCHANGED <<p2, ended, accepted>>
                    /\ disturbed \subseteq disturbed'
                    /\ pc' = "done" => pc = "done"
<1>1. ~stray
  BY StrayStays
<1>2. /\ Types /\ (pc # "exit" => Flowing)
      /\ (\A m \in ended : Read(m)) /\ Fresh
  BY <1>1, TypesHold DEF LInv
<1>3. ASSUME Rests
      PROVE  (\A m \in ended : Read(m))' /\ Fresh'
  BY <1>2, <1>3, Kept
<1>4. CASE ReadPacket
  <2>1. Flowing
    BY <1>2, <1>4 DEF ReadPacket
  <2> QED BY <1>2, <1>4, <2>1, ReadFlow
<1>5. CASE WaitAgain
  <2>1. UNCHANGED <<p, p2, ended, accepted, wire, cut, begun, left, disturbed>> /\ pc = "done" /\ pc' = "wait"
    BY <1>5 DEF WaitAgain, sender
  <2>2. Flowing'
    BY <1>2, <2>1 DEF Flowing, Flow
  <2>3. Rests
    BY <2>1
  <2> QED BY <1>3, <2>2, <2>3
<1>6. CASE Timeout \/ Overrun
  <2>1. UNCHANGED <<p2, ended, accepted, disturbed>> /\ pc' = "exit"
    BY <1>6 DEF Timeout, Overrun, sender
  <2>2. Rests
    BY <2>1
  <2> QED BY <1>3, <2>1, <2>2
<1>7. CASE \/ Begin \/ SendFragment \/ SendLast \/ Chatter
           \/ Noise \/ LosePart \/ DamagePart \/ DamageHeader
  <2>1. Alive /\ UNCHANGED program
    BY <1>7 DEF Begin, SendFragment, SendLast, Chatter, Noise, LosePart, DamagePart, DamageHeader
  <2>2. disturbed \subseteq disturbed'
    BY <1>7 DEF Begin, SendFragment, SendLast, Chatter, Noise, LosePart, DamagePart, DamageHeader
  <2>3. Rests
    BY <2>1, <2>2 DEF program
  <2>4. Flowing
    BY <1>2, <2>1 DEF Alive
  <2>5. Flowing'
    BY <1>2, <1>7, <2>4, BeginFlow, SendFragmentFlow, SendLastFlow, ChatterFlow, NoiseFlow,
       LosePartFlow, DamagePartFlow, DamageHeaderFlow
  <2> QED BY <1>3, <2>3, <2>5
<1>8. CASE UNCHANGED vars
  <2>1. UNCHANGED <<pc, p, p2, ended, accepted, wire, cut, begun, left, disturbed>>
    BY <1>8 DEF vars, program, sender
  <2>2. (pc # "exit" => Flowing)'
    BY <1>2, <2>1 DEF Flowing, Flow
  <2>3. Rests
    BY <2>1
  <2> QED BY <1>3, <2>2, <2>3
<1>9. ~StrayStart
  BY DEF StrayStart
<1> QED BY <1>4, <1>5, <1>6, <1>7, <1>8, <1>9 DEF Next, Sender, Ended

----------------------------------------------------------------------------
(* What the invariant gives.                                               *)

\* What _cmdcode_wait has left in the Level-1 struct when a message ends: a
\* message is lost only to a disturbance of its own or of the message before,
\* whatever the fragments, unless a start byte strays or a length is damaged.
THEOREM DamageStaysLocal == Spec => []DamageIsLocal
<1>1. LInv => DamageIsLocal
  BY DEF LInv, Read, DamageIsLocal
<1> QED BY InitFlow, StepFlow, TypeCorrect, <1>1, PTL DEF Spec

\* The caller of _cmdcode_wait finds the newest message in the Level-2 struct,
\* unless that or the one before was disturbed.
THEOREM AnswersAreFresh == Spec => []AnswerIsFresh
<1>1. LInv => AnswerIsFresh
  BY DEF LInv, Fresh, AnswerIsFresh
<1> QED BY InitFlow, StepFlow, TypeCorrect, <1>1, PTL DEF Spec

----------------------------------------------------------------------------
(* The order of the messages under way.  Message numbers grow along the    *)
(* wire, and those that have been read are smaller still.                  *)

\* All of a message has gone out.
Out(m, b, open) == m <= b /\ (open => m < b)

Ordered(c, en, b, open) ==
  /\ \A i \in 1 .. Len(c) : c[i] # 0 => Out(c[i], b, open) /\ \A n \in en : n < c[i]
  /\ \A i, j \in 1 .. Len(c) : i < j /\ c[i] # 0 /\ c[j] # 0 => c[i] < c[j]
  /\ \A n \in en : Out(n, b, open)

\* The first packet is read.
LEMMA OrderedTail ==
  ASSUME NEW c \in Seq(Nat), c # <<>>, NEW en \in SUBSET Nat, NEW b \in Nat, NEW open,
         Ordered(c, en, b, open)
  PROVE  Ordered(Tail(c), en \cup ({Head(c)} \ {0}), b, open)
<1> DEFINE t == Tail(c)
           more == en \cup ({Head(c)} \ {0})
<1>1. /\ Len(c) \in Nat /\ Len(c) > 0 /\ Head(c) = c[1]
      /\ Len(t) = Len(c) - 1 /\ \A i \in 1 .. Len(c) - 1 : t[i] = c[i + 1]
      /\ \A i \in 1 .. Len(c) : c[i] \in Nat
  BY HeadTailProperties, EmptySeq, ElementOfSeq, LenProperties
<1>2. ASSUME NEW n \in more PROVE n \in en \/ (n = c[1] /\ c[1] # 0)
  BY <1>1
<1> HIDE DEF t, more
<1>3. ASSUME NEW i \in 1 .. Len(t)
      PROVE  i + 1 \in 1 .. Len(c) /\ 1 \in 1 .. Len(c) /\ 1 < i + 1 /\ t[i] = c[i + 1]
  BY <1>1
<1>4. ASSUME NEW i \in 1 .. Len(t), t[i] # 0
      PROVE  Out(t[i], b, open) /\ \A n \in more : n < t[i]
  BY <1>2, <1>3, <1>4 DEF Ordered
<1>5. ASSUME NEW i \in 1 .. Len(t), NEW j \in 1 .. Len(t), i < j, t[i] # 0, t[j] # 0
      PROVE  t[i] < t[j]
  <2>1. i + 1 < j + 1
    BY <1>1, <1>5
  <2> QED BY <1>3, <1>5, <2>1 DEF Ordered
<1>6. ASSUME NEW n \in more PROVE Out(n, b, open)
  <2>1. 1 \in 1 .. Len(c)
    BY <1>1
  <2> QED BY <1>2, <2>1 DEF Ordered
<1> QED BY <1>4, <1>5, <1>6 DEF Ordered, t, more

\* A packet goes out, with the end of the newest message or of none.
LEMMA OrderedAppend ==
  ASSUME NEW c \in Seq(Nat), NEW en \in SUBSET Nat, NEW b \in Nat, NEW open, NEW now,
         Ordered(c, en, b, open),
         NEW last, (last = 0 /\ (now => open)) \/ (last = b /\ open /\ ~now)
  PROVE  Ordered(Append(c, last), en, b, now)
<1> DEFINE d == Append(c, last)
<1>1. last \in Nat
  OBVIOUS
<1>2. /\ Len(c) \in Nat /\ Len(d) = Len(c) + 1
      /\ \A i \in 1 .. Len(c) : d[i] = c[i] /\ c[i] \in Nat
      /\ d[Len(c) + 1] = last
  BY <1>1, AppendProperties, ElementOfSeq, LenProperties
<1> HIDE DEF d
<1>3. ASSUME NEW n, Out(n, b, open) PROVE Out(n, b, now) /\ (last = b /\ open => n < b)
  BY <1>3 DEF Out
<1>4. ASSUME NEW i \in 1 .. Len(d), d[i] # 0
      PROVE  Out(d[i], b, now) /\ \A n \in en : n < d[i]
  <2>1. CASE i \in 1 .. Len(c)
    <3>1. Out(c[i], b, open) /\ (\A n \in en : n < c[i]) /\ d[i] = c[i]
      BY <1>2, <1>4, <2>1 DEF Ordered
    <3> QED BY <1>3, <3>1
  <2>2. CASE i \notin 1 .. Len(c)
    <3>1. d[i] = last /\ last = b /\ open /\ ~now
      BY <1>2, <1>4, <2>2
    <3>2. \A n \in en : Out(n, b, open)
      BY DEF Ordered
    <3> QED BY <1>3, <3>1, <3>2 DEF Out
  <2> QED BY <2>1, <2>2
<1>5. ASSUME NEW i \in 1 .. Len(d), NEW j \in 1 .. Len(d), i < j, d[i] # 0, d[j] # 0
      PROVE  d[i] < d[j]
  <2>1. i \in 1 .. Len(c) /\ d[i] = c[i]
    BY <1>2, <1>5
  <2>2. CASE j \in 1 .. Len(c)
    BY <1>2, <1>5, <2>1, <2>2 DEF Ordered
  <2>3. CASE j \notin 1 .. Len(c)
    <3>0. j = Len(c) + 1
      BY <1>2, <1>5, <2>3
    <3>1. d[j] = last /\ last = b /\ open
      BY <1>2, <1>5, <3>0
    <3>2. Out(c[i], b, open)
      BY <1>5, <2>1 DEF Ordered
    <3> QED BY <1>3, <2>1, <3>1, <3>2
  <2> QED BY <2>2, <2>3
<1>6. ASSUME NEW n \in en PROVE Out(n, b, now)
  BY <1>3 DEF Ordered
<1> QED BY <1>4, <1>5, <1>6 DEF Ordered, d

\* A message begins, or nothing goes out.
LEMMA OrderedLater ==
  ASSUME NEW c \in Seq(Nat), NEW en \in SUBSET Nat, NEW b \in Nat, NEW open, NEW now,
         Ordered(c, en, b, open), NEW k, (k = b /\ (now => open)) \/ k = b + 1
  PROVE  Ordered(c, en, k, now) /\ Ordered(<<>>, en, k, now)
<1>1. \A i \in 1 .. Len(c) : c[i] \in Nat
  BY ElementOfSeq, LenProperties
<1>2. \A n \in Nat : Out(n, b, open) => Out(n, k, now)
  BY DEF Out
<1>3. Ordered(c, en, k, now)
  BY <1>1, <1>2 DEF Ordered
<1>4. Len(<<>>) = 0 /\ \A i : i \notin 1 .. 0
  OBVIOUS
<1> QED BY <1>2, <1>3, <1>4 DEF Ordered

InOrder == Ordered(cut, ended, begun, left # <<>>)

LEMMA InitOrder == Init => InOrder
<1>1. Init => cut = <<>> /\ ended = {}
  BY Zenon DEF Init
<1>2. Len(<<>>) = 0 /\ \A i : i \notin 1 .. 0
  OBVIOUS
<1> QED BY <1>1, <1>2 DEF InOrder, Ordered

LEMMA StepOrder == TypeOK /\ InOrder /\ [Next]_vars => InOrder'
<1> SUFFICES ASSUME TypeOK, InOrder, [Next]_vars PROVE InOrder'
  OBVIOUS
<1>1. /\ Ordered(cut, ended, begun, left # <<>>)
      /\ left \in Seq(Byte) /\ cut \in Seq(Nat) /\ ended \in SUBSET Nat /\ begun \in Nat
  BY TypesHold, ConstantsAssumption DEF InOrder, Types
<1>2. ASSUME UNCHANGED ended, cut' = cut \/ cut' = <<>>,
             (begun' = begun /\ (left' # <<>> => left # <<>>)) \/ begun' = begun + 1
      PROVE  InOrder'
  <2>1. /\ Ordered(cut, ended, begun', left' # <<>>)
        /\ Ordered(<<>>, ended, begun', left' # <<>>)
    BY <1>1, <1>2, OrderedLater
  <2> QED BY <1>2, <2>1 DEF InOrder
<1>3. ASSUME UNCHANGED <<ended, begun>>,
             \/ cut' = Append(cut, 0) /\ (left' # <<>> => left # <<>>)
             \/ cut' = Append(cut, begun) /\ left # <<>> /\ left' = <<>>
      PROVE  InOrder'
  <2>1. PICK last : /\ cut' = Append(cut, last)
                    /\ \/ last = 0 /\ (left' # <<>> => left # <<>>)
                       \/ last = begun /\ left # <<>> /\ ~(left' # <<>>)
    BY <1>3
  <2>2. Ordered(Append(cut, last), ended, begun, left' # <<>>)
    BY <1>1, <2>1, OrderedAppend
  <2> QED BY <1>3, <2>1, <2>2 DEF InOrder
<1>4. CASE ReadPacket
  <2>1. /\ cut' = (IF cut = <<>> THEN cut ELSE Tail(cut))
        /\ ended' = ended \cup ({EndsHere} \ {0}) /\ UNCHANGED <<begun, left>>
    BY <1>4 DEF ReadPacket, sender
  <2>2. CASE cut = <<>>
    <3>1. UNCHANGED <<ended, cut>>
      BY <2>1, <2>2 DEF EndsHere
    <3> QED BY <1>2, <2>1, <3>1
  <2>3. CASE cut # <<>>
    <3>1. Ordered(Tail(cut), ended \cup ({Head(cut)} \ {0}), begun, left # <<>>)
      BY <1>1, <2>3, OrderedTail
    <3> QED BY <2>1, <2>3, <3>1 DEF EndsHere, InOrder
  <2> QED BY <2>2, <2>3
<1>5. CASE Overrun \/ WaitAgain \/ Timeout \/ UNCHANGED vars
  BY <1>2, <1>5 DEF Overrun, WaitAgain, Timeout, vars, program, sender
<1>6. CASE Begin \/ Noise \/ LosePart \/ StrayStart
  BY <1>2, <1>6 DEF Begin, Noise, LosePart, StrayStart, program
<1>7. CASE DamagePart
  <2>1. (\E k \in 1 .. Len(left) : TRUE) /\ UNCHANGED <<begun, ended, cut>>
    BY <1>7 DEF DamagePart, program
  <2>2. left = <<>> => Len(left) = 0
    OBVIOUS
  <2> QED BY <1>2, <2>1, <2>2
<1>8. CASE SendFragment
  <2>1. PICK n \in Cuts : n < Len(left)
    BY <1>8 DEF SendFragment
  <2>2. left # <<>>
    <3>1. n \in Nat
      BY ConstantsAssumption
    <3>2. left = <<>> => Len(left) = 0
      OBVIOUS
    <3> QED BY <2>1, <3>1, <3>2
  <2> QED BY <1>3, <1>8, <2>2 DEF SendFragment, Put, program
<1>9. CASE SendLast
  BY <1>3, <1>9 DEF SendLast, Put, program
<1>10. CASE Chatter
  BY <1>3, <1>10 DEF Chatter, Put, program
<1>11. CASE DamageHeader
  <2>1. PICK n \in Nat, cmd \in Commands :
          /\ n <= Len(left)
          /\ cmd = IF n = 0 THEN CMD12 ELSE IF n = Len(left) THEN LEVEL2 ELSE FRAGMENT
          /\ cut' = Append(cut, IF cmd = LEVEL2 THEN begun ELSE 0)
          /\ left' = SubSeq(left, n + 1, Len(left))
    BY <1>1, <1>11, DamagedHeader DEF Put
  <2>2. UNCHANGED <<ended, begun>>
    BY <1>11 DEF DamageHeader, program
  <2>3. Len(left) \in Nat /\ left' \in Seq(Byte) /\ Len(left') = Len(left) - n
    BY <1>1, <2>1, CutType, LenProperties
  <2>4. left' # <<>> => left # <<>>
    <3>1. left = <<>> => Len(left) = 0
      OBVIOUS
    <3>2. Len(left') = 0 => left' = <<>>
      BY <2>3, EmptySeq
    <3> QED BY <2>1, <2>3, <3>1, <3>2
  <2>5. CASE cmd = LEVEL2
    <3>1. n # 0 /\ n = Len(left)
      BY <2>1, <2>5 DEF CMD12, LEVEL2, FRAGMENT
    <3>2. left # <<>> /\ left' = <<>>
      BY <2>3, <3>1, EmptySeq
    <3> QED BY <1>3, <2>1, <2>2, <2>5, <3>2
  <2>6. CASE cmd # LEVEL2
    BY <1>3, <2>1, <2>2, <2>4, <2>6
  <2> QED BY <2>5, <2>6
<1> QED BY <1>4, <1>5, <1>6, <1>7, <1>8, <1>9, <1>10, <1>11 DEF Next, Sender, Ended

----------------------------------------------------------------------------
(* Refinement: each message is delivered when it ends.                     *)

LEMMA InitDelivers == Init => D!Init
<1>1. Init => begun = 0 /\ ended = {} /\ accepted = <<>>
  BY Zenon DEF Init
<1> QED BY <1>1 DEF D!Init

\* The message that ends with the packet just read is newer than all before.
LEMMA EndsInOrder ==
  ASSUME TypeOK, InOrder, ReadPacket
  PROVE  \/ EndsHere = 0 /\ ended' = ended
         \/ EndsHere \in 1 .. begun /\ D!End(EndsHere)
<1>1. ended' = ended \cup ({EndsHere} \ {0})
  BY DEF ReadPacket
<1>2. CASE EndsHere = 0
  BY <1>1, <1>2
<1>3. CASE EndsHere # 0
  <2>1. cut # <<>> /\ cut \in Seq(Nat) /\ begun \in Nat
    BY <1>3, TypesHold, ConstantsAssumption DEF Types, EndsHere
  <2>2. EndsHere = cut[1] /\ 1 \in 1 .. Len(cut) /\ cut[1] \in Nat
    <3>1. Head(cut) = cut[1] /\ Len(cut) \in Nat /\ Len(cut) # 0
      BY <2>1, HeadTailProperties, EmptySeq, LenProperties
    <3> QED BY <2>1, <3>1, ElementOfSeq DEF EndsHere
  <2>3. Out(EndsHere, begun, left # <<>>) /\ \A n \in ended : n < EndsHere
    BY <1>3, <2>2 DEF InOrder, Ordered
  <2>4. EndsHere \in 1 .. begun
    BY <1>3, <2>1, <2>2, <2>3 DEF Out
  <2>5. ended' = ended \cup {EndsHere}
    BY <1>1, <1>3
  <2> QED BY <2>3, <2>4, <2>5 DEF D!End
<1> QED BY <1>2, <1>3

LEMMA StepDelivers ==
  TypeOK /\ LInv /\ InOrder /\ [Next]_vars => [D!Next]_(D!vars)
<1> SUFFICES ASSUME TypeOK, LInv, InOrder, [Next]_vars PROVE [D!Next]_(D!vars)
  OBVIOUS
<1>1. CASE ReadPacket
  <2>1. /\ begun' = begun
        /\ \/ \E m \in Sound(p') : accepted' = Append(accepted, m)
           \/ Sound(p') = {} /\ UNCHANGED accepted
    BY <1>1 DEF ReadPacket, sender
  <2>2. Sound(p') \subseteq 1 .. begun
    BY <2>1 DEF Sound
  <2>3. ended' = ended \/ \E m \in 1 .. begun : D!End(m)
    BY <1>1, EndsInOrder
  <2>4. CASE (LatelyDisturbed \/ stray)'
    BY <2>1, <2>2, <2>3, <2>4 DEF D!Next, D!Err
  <2>5. CASE ~(LatelyDisturbed \/ stray)'
    <3>1. ~stray
      BY <2>5, StrayStays
    <3>2. Flowing /\ Types /\ \A m \in ended : Read(m)
      BY <1>1, <3>1, TypesHold DEF LInv, ReadPacket
    <3>3. Sound(p') = {EndsHere} \ {0}
      BY <1>1, <2>5, <3>2, ReadFlow
    <3>4. CASE EndsHere = 0 /\ ended' = ended
      BY <2>1, <3>3, <3>4 DEF D!vars
    <3>5. CASE EndsHere \in 1 .. begun /\ D!End(EndsHere)
      <4>1. EndsHere # 0
        BY <3>5
      <4>2. accepted' = Append(accepted, EndsHere)
        BY <2>1, <3>3, <4>1
      <4> QED BY <2>1, <3>5, <4>2 DEF D!Next, D!Deliver
    <3> QED BY <1>1, <3>4, <3>5, EndsInOrder
  <2> QED BY <2>4, <2>5
<1>2. CASE Begin
  BY <1>2 DEF Begin, program, D!Next, D!Begin
<1>3. CASE ~ReadPacket /\ ~Begin
  <2>1. UNCHANGED <<begun, ended, accepted>>
    BY <1>3 DEF Next, Overrun, WaitAgain, Timeout, Sender, SendFragment, SendLast, Chatter,
       Noise, LosePart, DamagePart, DamageHeader, StrayStart, Ended, program, sender, vars
  <2> QED BY <2>1 DEF D!vars
<1> QED BY <1>1, <1>2, <1>3

\* Messages end in the order they were sent in, and packet_read accepts each
\* when it ends, and none at any other time, however it was cut into fragments
\* and whatever was read before: only a disturbance of the message just read or
\* of the one before excuses it, or a start byte that strays.
THEOREM EachDelivered == Spec => ImplementsDelivery
BY InitFlow, StepFlow, TypeCorrect, InitOrder, StepOrder, InitDelivers, StepDelivers, PTL
   DEF Spec, ImplementsDelivery, D!Spec

=============================================================================
