---------------------------- MODULE MCBtStream ----------------------------
(***************************************************************************)
(* BtStream for TLC: two byte values tell any two bytes apart, and a queue *)
(* longer than the buffer makes reads full, short and repeated.            *)
(***************************************************************************)
EXTENDS BtStream

Bits == {0, 1}
=============================================================================
