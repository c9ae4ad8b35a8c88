-------------------------------- MODULE Poll --------------------------------
(***************************************************************************)
(* What a poll of an inverter promises, whatever the inverter does: the    *)
(* queries are worked off once each and in order; what is kept of a query  *)
(* are values of that query, taken from the answer to that very request;   *)
(* and a poll may end early, after which it keeps nothing more.            *)
(***************************************************************************)
EXTENDS Naturals, Sequences

CONSTANTS
  NQ,       \* number of queries
  Count,    \* how many values each query asks for
  TagOf     \* the tag of the request that carries each query

VARIABLES
  next,     \* the query to be worked off next, NQ + 1 when all are
  row,      \* batches of values kept so far
  over      \* the poll has ended

vars == <<next, row, over>>

Batch(q, values) == [query |-> q, values |-> values, answers |-> TagOf[q]]

Init == next = 1 /\ row = <<>> /\ over = FALSE

\* Some values of the next query are kept.
Keep ==
  /\ next \in 1 .. NQ
  /\ \E values \in (SUBSET (1 .. Count[next])) \ {{}} :
       row' = Append(row, Batch(next, values))
  /\ next' = next + 1

\* Nothing usable came for the next query.
Miss ==
  /\ next \in 1 .. NQ
  /\ next' = next + 1
  /\ UNCHANGED row

\* The poll ends without a further answer.
Stop == UNCHANGED <<next, row>> /\ over' = TRUE

Next ==
  /\ ~over
  /\ Keep \/ Miss \/ Stop
  /\ over' \in BOOLEAN

Spec == Init /\ [][Next]_vars

=============================================================================
