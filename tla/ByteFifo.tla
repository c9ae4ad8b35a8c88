------------------------------ MODULE ByteFifo ------------------------------
(***************************************************************************)
(* What the byte stream of the inverter promises to its readers: bytes     *)
(* come out in the order they went in, each once, none invented; a link    *)
(* that breaks may cost the bytes that were last under way.                *)
(***************************************************************************)
EXTENDS Naturals, Sequences

CONSTANT Byte

VARIABLES
  chan,   \* bytes under way
  byte    \* the byte handed over last

vars == <<chan, byte>>

Init == chan = <<>> /\ byte \in Byte

Put == \E b \in Byte : chan' = Append(chan, b) /\ UNCHANGED byte

Get == chan # <<>> /\ byte' = Head(chan) /\ chan' = Tail(chan)

Lose == \E n \in 0 .. Len(chan) : chan' = SubSeq(chan, 1, n) /\ UNCHANGED byte

Next == Put \/ Get \/ Lose

Spec == Init /\ [][Next]_vars

=============================================================================
