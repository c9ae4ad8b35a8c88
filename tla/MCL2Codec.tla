----------------------------- MODULE MCL2Codec -----------------------------
(***************************************************************************)
(* L2Codec for TLC, with the real checksum: the seven requests of the      *)
(* program, and packets made to need escapes everywhere.                   *)
(***************************************************************************)
EXTENDS L2Codec, Requests, Fcs16

\* Packets as a caller might come to send them: each special byte, an escape
\* followed by what escapes turn into, contents of one byte.
Escapes ==
  {<<128, 125>>, <<128, 126, 94>>, <<125, 125, 93>>, <<17, 18, 19>>, <<126>>,
   <<128, 125, 93, 126, 94>>, <<128, 93, 51>>}

Awkward == {Layout(125, 160, 19, 0, n, content) : n \in {1, 382}, content \in Escapes}

\* A password all of whose characters come out as a special byte, at the
\* login's full length.
AwkwardLogin == Login([k \in 1 .. 12 |-> IF k % 2 = 1 THEN 244 ELSE 245])

\* Queries at packet counts that give a checksum with a special byte: an escape
\* or a start byte as the first, which stays as it is, or as the second.
AtCount(p, n) == [p EXCEPT !.count = n]
SpecialChecksums ==
  {AtCount(Query(1), 7), AtCount(Query(2), 166), AtCount(Query(2), 80), AtCount(Query(2), 103)}

TestPackets == AllRequests \cup Awkward \cup SpecialChecksums \cup {AwkwardLogin}

\* Damage that makes an escape, makes a start byte, or changes bits.
TestDamages == {125, 126, 93}

=============================================================================
