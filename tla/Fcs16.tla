------------------------------- MODULE Fcs16 -------------------------------
(***************************************************************************)
(* The checksum of Level-2 packets: the 16-bit frame check sequence of PPP, *)
(* which in_smadata2plus.c computes with a table of 256 entries.           *)
(***************************************************************************)
EXTENDS Integers, Sequences, SequencesExt, Bitwise

\* Eight shifts of an entry's index through the polynomial x^16+x^12+x^5+1.
Shifted(v) == IF v % 2 = 1 THEN (v \div 2) ^^ 33800 ELSE v \div 2

SMADATA2PLUS_L2_FCSTAB ==
  [x \in 0 .. 255 |-> FoldLeft(LAMBDA v, k : Shifted(v), x, [k \in 1 .. 8 |-> k])]

\* in_smadata2plus_level2_pppfcs16: one byte more.
pppfcs16(fcs, byte) ==
  (fcs \div 256) ^^ SMADATA2PLUS_L2_FCSTAB[(fcs ^^ byte) % 256]

\* The entries differ in their high bytes already, which a round leaves as they
\* are: what it makes of a value tells which entry it took, hence the value's
\* low byte, and then its high byte as well.  No round makes the same of two
\* values, or of one value with two bytes (Lossless in L2CodecProofs).
ASSUME TableAssumption ==
  Cardinality({SMADATA2PLUS_L2_FCSTAB[x] \div 256 : x \in 0 .. 255}) = 256

\* in_smadata2plus_level2_tryfcs16: the complement, least significant byte first.
tryfcs16(bytes) ==
  LET fcs == 65535 - FoldLeft(pppfcs16, 65535, bytes)
  IN  <<fcs % 256, fcs \div 256>>

=============================================================================
