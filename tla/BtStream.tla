------------------------------ MODULE BtStream ------------------------------
(***************************************************************************)
(* The buffered byte stream of in_bluetooth.c: in_bluetooth_get_byte and   *)
(* the select and read of in_bluetooth_connect_read under it.  The kernel's *)
(* receive queue and the peer are external.                                *)
(***************************************************************************)
EXTENDS Integers, Sequences, FiniteSetsExt

CONSTANTS
  Byte,         \* byte values; 0 is what the buffer starts with
  BUFSIZ,       \* size of the buffer
  MaxQueue,     \* bound on the bytes in the receive queue
  PeerMayClose  \* may the connection end while the program uses it?

ASSUME ConstantsAssumption ==
  /\ 0 \in Byte
  /\ BUFSIZ \in Nat \ {0}
  /\ MaxQueue \in Nat
  /\ PeerMayClose \in BOOLEAN

VARIABLES
  pc,              \* "out" of get_byte, "in" its loop, or "exit"
  byte,            \* what get_byte returned last
  buffer,          \* inv->buffer
  buffer_len,      \* inv->buffer_len: what read returned last, -1 included
  buffer_position, \* inv->buffer_position
  rx,              \* the kernel's receive queue
  link             \* "open", "closed" in order, or "broken"

vars == <<pc, byte, buffer, buffer_len, buffer_position, rx, link>>

TypeOK ==
  /\ pc \in {"out", "in", "exit"}
  /\ byte \in Byte
  /\ buffer \in [1 .. BUFSIZ -> Byte]
  /\ buffer_len \in -1 .. BUFSIZ
  /\ buffer_position \in 0 .. BUFSIZ
  /\ rx \in Seq(Byte)
  /\ link \in {"open", "closed", "broken"}

\* struct bluetooth_inverter is zeroed.  in_bluetooth_connect does not tell
\* its caller of a failure, so the link may be broken from the start.
Init ==
  /\ pc = "out"
  /\ byte = 0
  /\ buffer = [i \in 1 .. BUFSIZ |-> 0]
  /\ buffer_len = 0
  /\ buffer_position = 0
  /\ rx = <<>>
  /\ link \in IF PeerMayClose THEN {"open", "broken"} ELSE {"open"}

----------------------------------------------------------------------------
(* The program.                                                            *)

\* The loop condition of get_byte: nothing is left in the buffer.
Drained == buffer_len = 0 \/ buffer_len <= buffer_position

\* A layer above asks for a byte.
GetByte ==
  /\ pc = "out"
  /\ pc' = "in"
  /\ UNCHANGED <<byte, buffer, buffer_len, buffer_position, rx, link>>

ReturnByte ==
  /\ pc = "in" /\ ~Drained
  /\ byte' = buffer[buffer_position + 1]
  /\ buffer_position' = buffer_position + 1
  /\ pc' = "out"
  /\ UNCHANGED <<buffer, buffer_len, rx, link>>

\* A bug: the reading position is not set back.
StoreKeepsPosition(count) ==
  /\ buffer' = [i \in 1 .. BUFSIZ |-> IF i <= count THEN rx[i] ELSE buffer[i]]
  /\ buffer_len' = count
  /\ UNCHANGED buffer_position

\* Whatever read returns becomes the length; a shorter read leaves older
\* bytes behind in the rest of the buffer.
Store(count) ==
  /\ buffer' = [i \in 1 .. BUFSIZ |-> IF i <= count THEN rx[i] ELSE buffer[i]]
  /\ buffer_len' = count
  /\ buffer_position' = 0

\* A bug: read may hand over one byte more than the buffer holds.
ReadBytesTooLong ==
  /\ pc = "in" /\ Drained
  /\ \E count \in 1 .. Min({BUFSIZ + 1, Len(rx)}) :
       /\ Store(count)
       /\ rx' = SubSeq(rx, count + 1, Len(rx))
  /\ UNCHANGED <<pc, byte, link>>

\* read hands over some of the bytes that are there.
ReadBytes ==
  /\ pc = "in" /\ Drained
  /\ \E count \in 1 .. Min({BUFSIZ, Len(rx)}) :
       /\ Store(count)
       /\ rx' = SubSeq(rx, count + 1, Len(rx))
  /\ UNCHANGED <<pc, byte, link>>

\* At the end of the stream read returns 0, on a broken link -1; both are
\* stored, and the loop of get_byte goes round again.
ReadNothing ==
  /\ pc = "in" /\ Drained
  /\ rx = <<>> /\ link # "open"
  /\ Store(IF link = "closed" THEN 0 ELSE -1)
  /\ UNCHANGED <<pc, byte, rx, link>>

\* A bug: select is called again after the timeout.
TimeoutRearms ==
  /\ pc = "in" /\ Drained
  /\ UNCHANGED vars

\* select waits for two seconds and nothing comes.
Timeout ==
  /\ pc = "in" /\ Drained
  /\ rx = <<>> /\ link = "open"
  /\ pc' = "exit"
  /\ UNCHANGED <<byte, buffer, buffer_len, buffer_position, rx, link>>

Program == GetByte \/ ReturnByte \/ ReadBytes \/ ReadNothing \/ Timeout

----------------------------------------------------------------------------
(* The peer and the radio link (external).                                 *)

Arrive ==
  /\ link = "open" /\ Len(rx) < MaxQueue
  /\ \E b \in Byte : rx' = Append(rx, b)
  /\ UNCHANGED <<pc, byte, buffer, buffer_len, buffer_position, link>>

Close ==
  /\ PeerMayClose /\ link = "open"
  /\ link' = "closed"
  /\ UNCHANGED <<pc, byte, buffer, buffer_len, buffer_position, rx>>

Break ==
  /\ PeerMayClose /\ link = "open"
  /\ link' = "broken"
  /\ rx' = <<>>
  /\ UNCHANGED <<pc, byte, buffer, buffer_len, buffer_position>>

Ended == pc = "exit" /\ UNCHANGED vars

Next == Program \/ Arrive \/ Close \/ Break \/ Ended

Spec == Init /\ [][Next]_vars

FairSpec == Spec /\ WF_vars(Program)

----------------------------------------------------------------------------
Unread == SubSeq(buffer, buffer_position + 1, buffer_len)

\* The layers above see a FIFO of bytes: nothing lost, repeated or reordered
\* at a refill of the buffer, nothing taken from its stale part.
F == INSTANCE ByteFifo WITH chan <- Unread \o rx

ImplementsFifo == F!Spec

\* While the link is up, whoever asks for a byte gets one or the program ends,
\* in the two seconds that in_bluetooth_connect_read waits.
ByteOrExitWhileUp == pc = "in" ~> (pc # "in" \/ link # "open")

\* "fetch one byte from stream": whoever asks for a byte is given one, or is
\* told "No data within 2 seconds" and the program ends.
ByteOrExit == pc = "in" ~> pc # "in"

=============================================================================
