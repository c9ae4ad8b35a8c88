------------------------------ MODULE Requests ------------------------------
(***************************************************************************)
(* The Level-2 packets the collector sends, in the order of their packet   *)
(* count: identification, logoff, login and the four queries.              *)
(***************************************************************************)
EXTENDS Integers, Sequences

LOCAL Null == [k \in 1 .. 6 |-> 0]

\* A packet struct starts cleared; packet_gen fills in null addresses.
Layout(ctrl1, ctrl2, zero, c, count, content) ==
  [ctrl1 |-> ctrl1, ctrl2 |-> ctrl2, dest |-> Null, archcd |-> 0,
   zero |-> zero, src |-> Null, c |-> c, count |-> count, content |-> content]

Identify ==
  Layout(9, 160, 0, 0, 1, <<128, 0, 2, 0, 0, 0, 0, 0, 0, 0, 0, 0, 0>>)

Logoff ==
  Layout(8, 160, 3, 3, 2, <<128, 14, 1, 253, 255, 255, 255, 255, 255>>)

\* Twelve places for the password, filled up with null bytes; each character
\* is moved by 0x88, the characters modulo 0xff.
Hidden(password) ==
  [k \in 1 .. 12 |-> IF k <= Len(password) THEN (password[k] + 136) % 255 ELSE 136]

Login(password) ==
  Layout(14, 160, 1, 1, 3,
         <<128, 12, 4, 253, 255, 7, 0, 0, 0, 132, 3, 0, 0,
           170, 170, 187, 187, 0, 0, 0, 0>> \o Hidden(password))

QueryContents ==
  << <<9, 161, <<128, 0, 2, 0, 81, 0, 63, 38, 0, 255, 63, 38, 0, 14>> >>,
     <<9, 160, <<128, 0, 2, 0, 84, 0, 1, 38, 0, 255, 1, 38, 0>> >>,
     <<68, 160, <<128, 0, 2, 128, 83, 0, 0, 32, 0, 255, 255, 80, 0, 0>> >>,
     <<9, 161, <<128, 0, 2, 0, 81, 0, 0, 32, 0, 255, 255, 80, 0, 14>> >> >>

Query(q) ==
  Layout(QueryContents[q][1], QueryContents[q][2], 0, 0, 3 + q, QueryContents[q][3])

\* main sets the password; no command line changes it.
DefaultPassword == <<48, 48, 48, 48>>

AllRequests ==
  {Identify, Logoff, Login(DefaultPassword)} \cup {Query(q) : q \in 1 .. 4}

=============================================================================
