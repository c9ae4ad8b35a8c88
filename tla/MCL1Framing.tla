---------------------------- MODULE MCL1Framing ----------------------------
(***************************************************************************)
(* L1Framing for TLC: short messages, which differ in their first byte and *)
(* in their length, and addresses in which a packet of 19 bytes seems to   *)
(* begin.  A damaged header gets the awaited command code, a fragment's,   *)
(* which is a length below 18 too, or 26, a length longer than a packet's. *)
(***************************************************************************)
EXTENDS L1Framing

ShortPayload(m) == IF m = 2 THEN <<m>> ELSE <<m, START>>
SomeAddresses == <<1, 126, 19, 0, 5, 6, 7, 8, 126, 10, 11, 12>>
SomeJunk == {0}
SomeHeaderJunk == {1, 8, 26}

=============================================================================
