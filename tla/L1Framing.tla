----------------------------- MODULE L1Framing -----------------------------
(***************************************************************************)
(* Level-1 packets on a stream of bytes: in_smadata2plus_level1_packet_read *)
(* and the loop of _cmdcode_wait around it, on what the inverter sends.  A *)
(* Level-2 message is cut into fragments, one in each packet, and put      *)
(* together in p->content again.  The sender (external) lays its packets   *)
(* out as in_smadata2plus_level1_packet_send does: "the same packet format *)
(* appears to be used in both directions" (docs/protocol.txt).             *)
(***************************************************************************)
EXTENDS Integers, Sequences

CONSTANTS
  NMessages,   \* number of Level-2 messages that are sent
  Payload(_),  \* the bytes of a message behind its Level-2 header
  Addresses,   \* the twelve address bytes of a packet
  Cuts,        \* lengths a fragment may have
  MaxContent,  \* longest content of a packet (0x70 - 18 in docs/protocol.txt)
  MaxUnderWay, \* bound on the packets under way
  Junk,        \* bytes that line noise is made of
  HeaderJunk,  \* bytes that a damaged header has
  MaxFaults,   \* bound on disturbances
  MaxChatter   \* bound on packets nobody asked for

Byte == 0 .. 255
START == 126
HEADER_LEN == 18
LEVEL2 == 1
FRAGMENT == 8
CMD12 == 12  \* one of the command codes that the program never waits for
L2_HEADER == <<255, 3, 96, 101>>

Messages == 1 .. NMessages
Message(m) == <<START>> \o L2_HEADER \o Payload(m)

ASSUME ConstantsAssumption ==
  /\ NMessages \in Nat
  /\ \A m \in Messages : Payload(m) \in Seq(Byte)
  /\ \A m, n \in Messages : Message(m) = Message(n) => m = n
  /\ Addresses \in Seq(Byte) /\ Len(Addresses) = 12
  /\ MaxContent \in Nat /\ MaxContent >= 2 /\ HEADER_LEN + MaxContent < 256
  /\ Cuts \subseteq 1 .. MaxContent /\ MaxUnderWay \in Nat \ {0}
  /\ Junk \subseteq Byte \ {START} /\ HeaderJunk \subseteq Byte
  /\ MaxFaults \in Nat /\ MaxChatter \in Nat

VARIABLES
  pc,        \* "wait" in cmdcode_wait, "done" behind it, or "exit"
  p,         \* the Level-1 packet struct: command code, length, content
  p2,        \* the message that the Level-2 packet struct holds, 0 at first
  wire,      \* the bytes under way to the program
  begun,     \* number of messages the sender has begun to send
  left,      \* what is left to be sent of the newest message
  disturbed, \* messages that did not go out whole and undamaged, 0 before the first
  cut,       \* for each packet under way, the message that ends with it, or 0
  ended,     \* the messages whose last packet the program has read
  accepted,  \* the messages that were put into p2, oldest first
  stray,     \* a start byte begins no packet, or a packet has another length than it says
  faults, chatter

program == <<pc, p, p2, ended, accepted>>
sender == <<begun, left, disturbed, stray, faults, chatter>>
vars == <<program, wire, cut, sender>>

Cleared == [cmd_code |-> 0, length |-> 0, content |-> <<>>]

TypeOK ==
  /\ pc \in {"wait", "done", "exit"}
  /\ p \in [cmd_code : Int, length : Nat, content : Seq(Byte)]
  /\ p = Cleared \/ p.length = HEADER_LEN + Len(p.content)
  /\ p2 \in Messages \cup {0}
  /\ wire \in Seq(Byte)
  /\ begun \in 0 .. NMessages
  /\ left \in Seq(Byte)
  /\ disturbed \subseteq 0 .. NMessages
  /\ cut \in Seq(0 .. NMessages)
  /\ ended \subseteq Messages
  /\ accepted \in Seq(Messages)
  /\ stray \in BOOLEAN
  /\ faults \in 0 .. MaxFaults
  /\ chatter \in 0 .. MaxChatter

Init ==
  /\ pc = "wait"
  /\ p = Cleared
  /\ p2 = 0
  /\ wire = <<>>
  /\ begun = 0
  /\ left = <<>>
  /\ disturbed = {}
  /\ cut = <<>>
  /\ ended = {}
  /\ accepted = <<>>
  /\ stray = FALSE
  /\ faults = 0 /\ chatter = 0

----------------------------------------------------------------------------
(* Packets as bytes.                                                       *)

\* in_smadata2plus_level1_packet_send makes the two bytes of a length, and of
\* a command code, by subtracting the high byte and not 256 times it.
HighByte(n) == n \div 256
LowByte(n) == (n - n \div 256) % 256

\* The check byte, whose value no reader looks at.
CHECK == 0

PacketBytes(cmd, content) ==
  LET length == HEADER_LEN + Len(content)
  IN  <<START, LowByte(length), HighByte(length), CHECK>> \o Addresses \o
      <<LowByte(cmd), HighByte(cmd)>> \o content

\* The receiver's side.  A length is put together from unsigned bytes, a
\* command code from bytes as get_byte returns them, which is as signed chars.
Value(low, high) == low + 256 * high
Char(b) == IF b >= 128 THEN b - 256 ELSE b
Code(low, high) == Value(Char(low), Char(high))

----------------------------------------------------------------------------
(* The program.                                                            *)

\* Of a packet that starts bytes: its length as the length bytes have it, its
\* command code and the bytes behind its header.  The check byte is compared
\* with the others, but nothing follows from the comparison.
PacketLen(bytes) == Value(bytes[2], bytes[3])
CmdCode(bytes) == Code(bytes[17], bytes[18])
Content(bytes) == SubSeq(bytes, HEADER_LEN + 1, PacketLen(bytes))

\* What a length says less than the header is long: that much is taken away
\* from a message that goes on.
Shortfall(bytes) ==
  IF PacketLen(bytes) < HEADER_LEN THEN HEADER_LEN - PacketLen(bytes) ELSE 0

\* Bytes are thrown away until a start byte comes.
Hunted ==
  {SubSeq(wire, i, Len(wire)) : i \in
     {i \in DOMAIN wire : wire[i] = START /\ \A j \in 1 .. i - 1 : wire[j] # START}}

\* What is there to be read, if all of a packet is there.
Arrived ==
  {bytes \in Hunted : Len(bytes) >= HEADER_LEN /\ Len(bytes) >= PacketLen(bytes)}

\* p after the packet at the start of bytes: taken for a new one, ...
Anew(bytes) ==
  [cmd_code |-> CmdCode(bytes), length |-> PacketLen(bytes), content |-> Content(bytes)]

\* A bug: the header of a fragment is counted with its content.
ContinuedWithHeader(bytes) ==
  [cmd_code |-> CmdCode(bytes),
   length |-> p.length + PacketLen(bytes),
   content |-> SubSeq(p.content, 1, p.length - HEADER_LEN - Shortfall(bytes))
                 \o Content(bytes)]

\* ... or for one that goes on where p ends.
Continued(bytes) ==
  [cmd_code |-> CmdCode(bytes),
   length |-> p.length + PacketLen(bytes) - HEADER_LEN,
   content |-> SubSeq(p.content, 1, p.length - HEADER_LEN - Shortfall(bytes))
                 \o Content(bytes)]

\* A bug: a packet without content leaves what p has of the last one.
TakenStale(bytes) ==
  IF Content(bytes) = <<>> THEN [p EXCEPT !.cmd_code = CmdCode(bytes)]
  ELSE IF p.cmd_code = FRAGMENT THEN Continued(bytes) ELSE Anew(bytes)

\* The command code that the packet before left in p decides which.
Taken(bytes) == IF p.cmd_code = FRAGMENT THEN Continued(bytes) ELSE Anew(bytes)

\* A bug: any packet that is no fragment ends the wait.
AwaitedAny(q) == q.cmd_code # FRAGMENT

\* cmdcode_wait goes on until the command code is the one it waits for.
Awaited(q) == q.cmd_code = LEVEL2

\* The message found in p: it has to begin as one, and packet_read of Level 2
\* takes it for sound if its checksum fits, that is, if it is as it was sent.
Sound(q) ==
  {m \in 1 .. begun : q.cmd_code # FRAGMENT /\ q.length - HEADER_LEN > 4
                        /\ q.content = Message(m)}

\* The message that ends with the next packet, or 0.
EndsHere == IF cut = <<>> THEN 0 ELSE Head(cut)

\* One packet, from the hunt for its first byte to its last byte.  After a
\* fragment, packet_read calls itself, and after a packet that is not awaited
\* it is called again: either way the next packet is read.
ReadPacket ==
  /\ pc = "wait"
  /\ \E bytes \in Arrived :
       /\ wire' = SubSeq(bytes, PacketLen(bytes) + Shortfall(bytes) + 1, Len(bytes))
       /\ Taken(bytes).length >= HEADER_LEN
       /\ p' = Taken(bytes)
  /\ \/ \E m \in Sound(p') : p2' = m /\ accepted' = Append(accepted, m)
     \/ Sound(p') = {} /\ UNCHANGED <<p2, accepted>>
  /\ pc' = IF Awaited(p') THEN "done" ELSE "wait"
  /\ cut' = IF cut = <<>> THEN cut ELSE Tail(cut)
  /\ ended' = ended \cup ({EndsHere} \ {0})
  /\ UNCHANGED sender

\* A message shorter than nothing: packet_print has an array of that size, or
\* the next fragment goes in front of p->content.  What the program does then
\* is undefined, and not followed further.
Overrun ==
  /\ pc = "wait"
  /\ \E bytes \in Arrived : Taken(bytes).length < HEADER_LEN
  /\ pc' = "exit"
  /\ wire' = <<>> /\ cut' = <<>>
  /\ UNCHANGED <<p, p2, ended, accepted, sender>>

\* The caller goes on to its next wait, with the same p and p2.
WaitAgain ==
  /\ pc = "done"
  /\ pc' = "wait"
  /\ UNCHANGED <<p, p2, ended, accepted, wire, cut, sender>>

\* A bug: the two seconds begin anew.
TimeoutRearms ==
  /\ pc = "wait"
  /\ Arrived = {}
  /\ UNCHANGED vars

\* Two seconds pass without the byte that is asked for; what has been read of
\* an unfinished packet is gone with the program.
Timeout ==
  /\ pc = "wait"
  /\ Arrived = {}
  /\ pc' = "exit"
  /\ wire' = <<>> /\ cut' = <<>>
  /\ UNCHANGED <<p, p2, ended, accepted, sender>>

----------------------------------------------------------------------------
(* The sender and the line (external).                                     *)

Alive == pc # "exit"

Put(bytes, last) ==
  /\ Len(cut) < MaxUnderWay
  /\ wire' = wire \o bytes
  /\ cut' = Append(cut, last)

\* The next message goes out, in one packet or in several, once the one
\* before has gone out.
Begin ==
  /\ Alive /\ left = <<>> /\ begun < NMessages
  /\ begun' = begun + 1
  /\ left' = Message(begun')
  /\ UNCHANGED <<program, wire, cut, disturbed, stray, faults, chatter>>

SendFragment ==
  /\ Alive
  /\ \E n \in Cuts :
       /\ n < Len(left)
       /\ Put(PacketBytes(FRAGMENT, SubSeq(left, 1, n)), 0)
       /\ left' = SubSeq(left, n + 1, Len(left))
  /\ UNCHANGED <<program, begun, disturbed, stray, faults, chatter>>

SendLast ==
  /\ Alive /\ left # <<>> /\ Len(left) <= MaxContent
  /\ Put(PacketBytes(LEVEL2, left), begun)
  /\ left' = <<>>
  /\ UNCHANGED <<program, begun, disturbed, stray, faults, chatter>>

\* A packet of another kind, between messages or within one.
Chatter ==
  /\ Alive /\ chatter < MaxChatter
  /\ \E content \in {<<>>, <<START, 255>>} : Put(PacketBytes(CMD12, content), 0)
  /\ chatter' = chatter + 1
  /\ disturbed' = IF left # <<>> /\ left # Message(begun)
                  THEN disturbed \cup {begun} ELSE disturbed
  /\ UNCHANGED <<program, begun, left, stray, faults>>

Disturb == faults < MaxFaults /\ faults' = faults + 1

\* Noise between two packets.
Noise ==
  /\ Alive /\ Disturb
  /\ \E b \in Junk : wire' = Append(wire, b)
  /\ UNCHANGED <<program, cut, begun, left, disturbed, stray, chatter>>

\* A part of a message is lost, with the packet it would have gone out in.
LosePart ==
  /\ Alive /\ left # <<>> /\ Disturb
  /\ \E n \in Cuts \cup {Len(left)} : n <= Len(left) /\ left' = SubSeq(left, n + 1, Len(left))
  /\ disturbed' = disturbed \cup {begun}
  /\ UNCHANGED <<program, wire, cut, begun, stray, chatter>>

\* A byte of a message is damaged, perhaps into a start byte.
DamagePart ==
  /\ Alive /\ Disturb
  /\ \E k \in 1 .. Len(left), b \in Junk \cup {START} :
       b # left[k] /\ left' = [left EXCEPT ![k] = b]
  /\ disturbed' = disturbed \cup {begun}
  /\ UNCHANGED <<program, wire, cut, begun, stray, chatter>>

\* A byte of a header is damaged, of the next part of a message or of an empty
\* packet nobody asked for.  The check byte would tell, if it were looked at.
DamageHeader ==
  /\ Alive /\ Disturb
  /\ \E n \in {0, Len(left)} \cup Cuts, k \in {1, 2, 3, 17, 18}, b \in HeaderJunk :
       /\ n <= Len(left) /\ n <= MaxContent
       /\ LET cmd == IF n = 0 THEN CMD12 ELSE IF n = Len(left) THEN LEVEL2 ELSE FRAGMENT
              packet == PacketBytes(cmd, SubSeq(left, 1, n))
          IN  /\ packet[k] # b
              /\ Put([packet EXCEPT ![k] = b], IF cmd = LEVEL2 THEN begun ELSE 0)
       /\ left' = SubSeq(left, n + 1, Len(left))
       /\ stray' = (stray \/ k <= 3)
  /\ disturbed' = disturbed \cup {begun}
  /\ UNCHANGED <<program, begun, chatter>>

\* Noise that looks like the start of a packet.
StrayStart ==
  /\ Alive /\ Disturb
  /\ wire' = Append(wire, START)
  /\ stray' = TRUE
  /\ UNCHANGED <<program, cut, begun, left, disturbed, chatter>>

Sender == Begin \/ SendFragment \/ SendLast

Ended == pc = "exit" /\ UNCHANGED vars

Next ==
  \/ ReadPacket \/ Overrun \/ WaitAgain \/ Timeout
  \/ Sender \/ Chatter
  \/ Noise \/ LosePart \/ DamagePart \/ DamageHeader \/ StrayStart
  \/ Ended

Spec == Init /\ [][Next]_vars

FairSpec == Spec /\ WF_vars(ReadPacket \/ Overrun \/ WaitAgain \/ Timeout)

----------------------------------------------------------------------------
Accepted == {accepted[i] : i \in DOMAIN accepted}

\* The newest of the messages that were read to their end, or the one before,
\* was disturbed, or one that is newer still.
LatelyDisturbed == \E d \in disturbed : \A n \in ended : n <= d + 1

\* Messages end in the order they were sent in, and packet_read accepts each
\* when it ends and at no other time, however the fragments fall: it takes
\* neither what p still has of an earlier message nor what fragments of two
\* messages make together.  Only a disturbance of the message that is read, or
\* of the one before it, lets it miss a message or take another for it.
D == INSTANCE L1Delivery WITH excused <- LatelyDisturbed \/ stray

ImplementsDelivery == D!Spec

\* The state that packet_read carries from one packet to the next lives no
\* longer than one message: a message is lost only to a disturbance of its own
\* or of the message before, of which fragments may be left over, or of a
\* packet between the two.  In particular nothing is lost on a quiet line.
DamageIsLocal ==
  \A m \in ended :
    m \in Accepted \/ m \in disturbed \/ m - 1 \in disturbed \/ stray

\* The caller of cmdcode_wait finds in p2 the newest message, unless one was
\* disturbed lately; then p2 may be what it was.
AnswerIsFresh ==
  pc = "done" =>
    \/ p2 \in ended /\ \A m \in ended : m <= p2
    \/ LatelyDisturbed \/ stray

\* No message that went out stays unread, unless the program ends.
ReadOrExit ==
  \A m \in Messages :
    begun >= m /\ (begun > m \/ left = <<>>) ~>
      (m \in ended \/ m \in disturbed \/ pc = "exit")

=============================================================================
