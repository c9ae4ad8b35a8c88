---------------------------- MODULE MCLogFiles ----------------------------
(***************************************************************************)
(* LogFiles for TLC: a poll brings all columns, or misses the answer to    *)
(* one of two queries.                                                     *)
(***************************************************************************)
EXTENDS LogFiles

TwoColumns == {"power", "yield"}
FullOrPartial == {TwoColumns, {"yield"}}

=============================================================================
