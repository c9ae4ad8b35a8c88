------------------------------ MODULE L2Codec ------------------------------
(***************************************************************************)
(* The encoding of Level-2 packets: in_smadata2plus_level2_packet_gen      *)
(* makes the bytes of a packet, in_smadata2plus_level2_packet_read takes   *)
(* bytes apart again.  Both edit a buffer in place, so one round of the    *)
(* loops of _add_escapes and _strip_escapes is one action.  The two are    *)
(* joined end to end; a byte may be damaged on the way.                    *)
(***************************************************************************)
EXTENDS Integers, Sequences

CONSTANTS
  Packets,     \* the packets to be sent
  MaxContent,  \* length of the longest content a caller of packet_gen passes
  Fcs(_),      \* checksum of a sequence of bytes: low byte, high byte
  Damages      \* what a damaged byte may turn into

Byte == 0 .. 255
Address == [1 .. 6 -> Byte]

Layouts == [ctrl1 : Byte, ctrl2 : Byte, dest : Address, archcd : Byte,
            zero : Byte, src : Address, c : Byte, count : Nat,
            content : Seq(Byte)]

ASSUME ConstantsAssumption ==
  /\ MaxContent \in 0 .. 33
  /\ Packets \subseteq Layouts
  /\ \A p \in Packets : Len(p.content) \in 1 .. MaxContent
  /\ Damages \subseteq Byte

VARIABLES
  pc,        \* where the code is
  packet,    \* the packet given to packet_gen
  checksum,  \* its checksum, taken before anything is escaped
  buffer,    \* the bytes in use of the buffer
  pos,       \* place of the byte the loop looks at next
  damaged,   \* a byte was damaged on the way
  recv       \* the fields packet_read has filled in

vars == <<pc, packet, checksum, buffer, pos, damaged, recv>>

----------------------------------------------------------------------------
START == 126
ESC == 125

\* A bug: the escape byte itself is not escaped.
SpecialNoEscape == {126, 17, 18, 19}

Special == {125, 126, 17, 18, 19}

\* b ^ 0x20
Flip(b) == IF (b \div 32) % 2 = 1 THEN b - 32 ELSE b + 32

NullAddress == [k \in 1 .. 6 |-> 0]
Dest(p) == IF p.dest = NullAddress THEN [k \in 1 .. 6 |-> 255] ELSE p.dest
Source(p) == IF p.src = NullAddress THEN [k \in 1 .. 6 |-> 48 + k] ELSE p.src

\* A bug: the send count goes out as the int it is.
CountWide(p) == p.count

\* One byte of the buffer takes the send count modulo 256.
Count(p) == p.count % 256

\* The bytes of a packet up to its checksum, nothing escaped yet; addresses
\* are sent last byte first.
Frame(p) ==
  LET d == Dest(p)
      s == Source(p)
  IN  << START, 255, 3, 96, 101, p.ctrl1, p.ctrl2,
         d[6], d[5], d[4], d[3], d[2], d[1], p.archcd, p.zero,
         s[6], s[5], s[4], s[3], s[2], s[1], 0, p.c,
         0, 0, 0, 0, Count(p) >> \o p.content

ASSUME FcsAssumption ==
  \A p \in Packets :
    Fcs(Tail(Frame(p))) \in Seq(Byte) /\ Len(Fcs(Tail(Frame(p)))) = 2

\* What packet_read makes of such bytes.  It takes the packet count to be two
\* bytes long, so the first byte of what was sent as content goes with it.
Fields(b) ==
  [ctrl1 |-> b[6], ctrl2 |-> b[7], dest |-> [k \in 1 .. 6 |-> b[14 - k]],
   archcd |-> b[14], zero |-> b[15], src |-> [k \in 1 .. 6 |-> b[22 - k]],
   c |-> b[23], content |-> SubSeq(b, 30, Len(b))]

\* The fields that the other end should find in a packet.
Meaning(p) ==
  [ctrl1 |-> p.ctrl1, ctrl2 |-> p.ctrl2, dest |-> Dest(p), archcd |-> p.archcd,
   zero |-> p.zero, src |-> Source(p), c |-> p.c, content |-> Tail(p.content)]

Cleared ==
  [ctrl1 |-> 0, ctrl2 |-> 0, dest |-> NullAddress, archcd |-> 0, zero |-> 0,
   src |-> NullAddress, c |-> 0, content |-> <<>>]

Received ==
  [ctrl1 : Byte, ctrl2 : Byte, dest : Address, archcd : Byte, zero : Byte,
   src : Address, c : Byte, content : Seq(Byte)]

Escaping == {"escape", "escapeChecksum"}
Ends == {"accepted", "rejected"}

TypeOK ==
  /\ pc \in {"idle", "sent", "strip"} \cup Escaping \cup Ends
  /\ packet \in Layouts
  /\ checksum \in Seq(Byte) /\ Len(checksum) = 2
  /\ buffer \in Seq(Byte)
  /\ pos \in 1 .. Len(buffer) + 2
  /\ damaged \in BOOLEAN
  /\ recv \in Received

Init ==
  /\ pc = "idle"
  /\ packet \in Packets
  /\ checksum = <<0, 0>>
  /\ buffer = <<>>
  /\ pos = 1
  /\ damaged = FALSE
  /\ recv = Cleared

----------------------------------------------------------------------------
(* in_smadata2plus_level2_packet_gen                                       *)

Generate ==
  /\ pc = "idle"
  /\ buffer' = Frame(packet)
  /\ checksum' = Fcs(Tail(Frame(packet)))
  /\ pos' = 2
  /\ pc' = "escape"
  /\ UNCHANGED <<packet, damaged, recv>>

\* A bug: the second half of an escaped byte is left as it was.
EscapedUnflipped(b, k) ==
  SubSeq(b, 1, k - 1) \o <<ESC, b[k]>> \o SubSeq(b, k + 1, Len(b))

\* The bytes behind the place move up by one.
Escaped(b, k) ==
  SubSeq(b, 1, k - 1) \o <<ESC, Flip(b[k])>> \o SubSeq(b, k + 1, Len(b))

\* One round of in_smadata2plus_level2_add_escapes, in either of its calls.
\* Of an escaped byte the loop comes to see the second half as well.
EscapeByte ==
  /\ pc \in Escaping
  /\ pos <= Len(buffer)
  /\ buffer' = IF buffer[pos] \in Special THEN Escaped(buffer, pos) ELSE buffer
  /\ pos' = pos + 1
  /\ UNCHANGED <<pc, packet, checksum, damaged, recv>>

\* A bug: both checksum bytes are appended without a second round of escapes.
AppendChecksumPlain ==
  /\ pc = "escape"
  /\ pos > Len(buffer)
  /\ buffer' = buffer \o checksum
  /\ pos' = Len(buffer) + 3
  /\ pc' = "escapeChecksum"
  /\ UNCHANGED <<packet, checksum, damaged, recv>>

\* The checksum is escaped by a call of its own, which starts, like every
\* call, with the second byte: the first one is never escaped.
AppendChecksum ==
  /\ pc = "escape"
  /\ pos > Len(buffer)
  /\ buffer' = buffer \o checksum
  /\ pos' = Len(buffer) + 2
  /\ pc' = "escapeChecksum"
  /\ UNCHANGED <<packet, checksum, damaged, recv>>

AppendTrailer ==
  /\ pc = "escapeChecksum"
  /\ pos > Len(buffer)
  /\ buffer' = Append(buffer, START)
  /\ pc' = "sent"
  /\ UNCHANGED <<packet, checksum, pos, damaged, recv>>

----------------------------------------------------------------------------
(* The way between the ends (external).                                    *)

\* One byte behind the header that Level 1 looks at is damaged.
Damage ==
  /\ pc = "sent" /\ ~damaged
  /\ \E k \in 6 .. Len(buffer), b \in Damages :
       b # buffer[k] /\ buffer' = [buffer EXCEPT ![k] = b]
  /\ damaged' = TRUE
  /\ UNCHANGED <<pc, packet, checksum, pos, recv>>

----------------------------------------------------------------------------
(* in_smadata2plus_level2_packet_read                                      *)

Receive ==
  /\ pc = "sent"
  /\ pos' = 2
  /\ pc' = "strip"
  /\ UNCHANGED <<packet, checksum, buffer, damaged, recv>>

\* An escape at the very end has no second half in the buffer; it is dropped.
Stripped(b, k) ==
  SubSeq(b, 1, k - 1) \o
    (IF k < Len(b) THEN <<Flip(b[k + 1])>> \o SubSeq(b, k + 2, Len(b)) ELSE <<>>)

\* A bug: the loop goes on only when an escape's second half is there.
StripByteWaits ==
  /\ pc = "strip"
  /\ pos <= Len(buffer)
  /\ IF buffer[pos] = ESC /\ pos = Len(buffer)
       THEN UNCHANGED <<buffer, pos>>
       ELSE /\ buffer' = IF buffer[pos] = ESC THEN Stripped(buffer, pos) ELSE buffer
            /\ pos' = pos + 1
  /\ UNCHANGED <<pc, packet, checksum, damaged, recv>>

\* One round of in_smadata2plus_level2_strip_escapes.
StripByte ==
  /\ pc = "strip"
  /\ pos <= Len(buffer)
  /\ buffer' = IF buffer[pos] = ESC THEN Stripped(buffer, pos) ELSE buffer
  /\ pos' = pos + 1
  /\ UNCHANGED <<pc, packet, checksum, damaged, recv>>

\* The last three bytes are the checksum and the trailer, which nobody looks at.
FrameLen == Len(buffer) - 3
ReceivedFcs == <<buffer[FrameLen + 1], buffer[FrameLen + 2]>>
FcsAgrees == Fcs(SubSeq(buffer, 2, FrameLen)) = ReceivedFcs

\* A bug: the checksums are not compared.
AcceptUnchecked ==
  /\ pc = "strip"
  /\ pos > Len(buffer)
  /\ recv' = Fields(SubSeq(buffer, 1, FrameLen))
  /\ pc' = "accepted"
  /\ UNCHANGED <<packet, checksum, buffer, pos, damaged>>

Accept ==
  /\ pc = "strip"
  /\ pos > Len(buffer)
  /\ FcsAgrees
  /\ recv' = Fields(SubSeq(buffer, 1, FrameLen))
  /\ pc' = "accepted"
  /\ UNCHANGED <<packet, checksum, buffer, pos, damaged>>

\* A packet with a wrong checksum leaves the fields as they were.
Reject ==
  /\ pc = "strip"
  /\ pos > Len(buffer)
  /\ ~FcsAgrees
  /\ pc' = "rejected"
  /\ UNCHANGED <<packet, checksum, buffer, pos, damaged, recv>>

Ended == pc \in Ends /\ UNCHANGED vars

Next ==
  \/ Generate \/ EscapeByte \/ AppendChecksum \/ AppendTrailer
  \/ Damage
  \/ Receive \/ StripByte \/ Accept \/ Reject
  \/ Ended

Spec == Init /\ [][Next]_vars

\* Between its first byte and its last, neither function waits for anything.
Going == EscapeByte \/ AppendChecksum \/ AppendTrailer \/ StripByte

FairSpec == Spec /\ WF_vars(Going)

----------------------------------------------------------------------------
\* packet_gen and packet_read agree: what one makes of a packet the other
\* reads as that packet.  The exception is a checksum that begins with an
\* escape byte, because AppendChecksum leaves it unescaped.
ReadsBack ==
  pc \in Ends /\ ~damaged /\ checksum[1] # ESC =>
    pc = "accepted" /\ recv = Meaning(packet)

\* The two start bytes of a packet on the wire mark its ends: between them,
\* add_escapes leaves no start byte and none of the other bytes that it
\* escapes except in the escape sequences it made.  The first byte of the
\* checksum is again the exception.
Delimited ==
  pc = "sent" /\ ~damaged /\ checksum[1] \notin Special =>
    /\ buffer[1] = START /\ buffer[Len(buffer)] = START
    /\ \A k \in 2 .. Len(buffer) - 1 :
         /\ buffer[k] \notin Special \ {ESC}
         /\ buffer[k] = ESC => Flip(buffer[k + 1]) \in Special

\* level1_packet_send has one byte for the low part of a length that it
\* computes rightly below 256 only: every packet, however much of it has to
\* be escaped, stays below that with the 18 bytes of its Level-1 header.
FitsLengthByte == Len(buffer) + 18 < 256

\* The checksum protects the fields: if one byte is damaged, wherever it is
\* and whatever escape it makes or unmakes, packet_read rejects the packet or
\* the damage was in the trailer.
DamageDetected == pc = "accepted" => recv = Meaning(packet)

\* What the loop has ahead of it: twice the bytes from its place on, because a
\* round may put one more there, less one if it leaves the next byte alone.
Ahead ==
  2 * (Len(buffer) + 2 - pos)
    - IF pos <= Len(buffer) /\ buffer[pos] \notin Special THEN 1 ELSE 0

\* No round of add_escapes or strip_escapes is for nothing: there is less ahead
\* of the loop after it, though an escape moves the end away from the index.
LoopsAdvance ==
  [][pc' = pc /\ pc \in Escaping \cup {"strip"} => Ahead' \in 0 .. Ahead - 1]_vars

\* Both in-place loops come to an end, although one moves the end away from
\* its own index.
Terminates ==
  /\ pc = "escape" ~> pc = "sent"
  /\ pc = "strip" ~> (pc \in Ends \/ pos > Len(buffer))

=============================================================================
