---------------------------- MODULE MCCollector ----------------------------
(***************************************************************************)
(* Collector for TLC: two inverters, command lines of every kind, and polls *)
(* that bring the values of the table's queries.                           *)
(***************************************************************************)
EXTENDS Collector, QueryTable

TestPathOf(word) ==
  CASE word = "/default" -> [absolute |-> TRUE, parts |-> <<"opt", "logs">>]
    [] word = "/logs" -> [absolute |-> TRUE, parts |-> <<"logs">>]
    [] OTHER -> [absolute |-> FALSE, parts |-> <<word>>]

TestDebugOf(word) ==
  CASE word = "0" -> 0 [] word = "1" -> 1 [] word = "5" -> 5 [] OTHER -> NotANumber

TestDashed == {"-l", "-b", "-d", "-i", "-v", "-p", "-c", "--"}

TwoInverters == {"a", "b"}

\* Names that agree up to their serial numbers.
TestNameOf == [i \in TwoInverters |-> <<"SMA", "SN", "plant", "SN", i>>]

TestCommandLines ==
  { <<"-b", "a">>, <<"-b", "b">>, <<"-b", "a", "-l", "/logs">>,
    <<"-l", "/logs", "-b", "a", "x", "-b", "b", "-d", "-i", "-d", "1">>,
    <<"-b", "a", "-l", "logs">>, <<"-b", "a", "-d", "5">>, <<"-b", "a", "-d", "x">>,
    <<"-b", "a", "-p", "0000">>, <<"-b", "a", "-c", "list">>, <<"-b", "a", "-d">>,
    <<"-l", "-b", "a">>, <<"-b", "a", "--", "-p", "-b", "b">>,
    <<"-b", "a", "-i">>, <<"-i">>, <<"-b", "a", "-v">>, <<>> }

\* The values of a query as the inverter sends them.
Values(q, raw) ==
  [v \in DOMAIN SMADATA2PLUS_QUERIES[q].values |->
     [name |-> SMADATA2PLUS_QUERIES[q].values[v].name,
      scale |-> SMADATA2PLUS_QUERIES[q].values[v].scale, raw |-> raw]]

TestPolls ==
  [i \in TwoInverters |->
     { <<>>,
       Values(1, 0) \o Values(2, 1000) \o Values(3, NONE) \o Values(4, 23000),
       Values(2, 1000) \o Values(4, NONE) }]

TestForeign == {<<"opt">>, <<"opt", "logs">>, <<"logs">>, <<"logs", "a">>}

=============================================================================
