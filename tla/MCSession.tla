----------------------------- MODULE MCSession -----------------------------
(***************************************************************************)
(* Instances of Session for TLC.  The queries and models are those of the  *)
(* tables in in_smadata2plus.c.                                            *)
(***************************************************************************)
EXTENDS Session, QueryTable

TableNQ == Len(SMADATA2PLUS_QUERIES)
TableQueries == 1 .. TableNQ
TableRCtrl == [q \in TableQueries |-> SMADATA2PLUS_QUERIES[q].r_ctrl1]
TableReachOf ==
  [q \in TableQueries |->
     [v \in DOMAIN SMADATA2PLUS_QUERIES[q].values |->
        Reach(SMADATA2PLUS_QUERIES[q].values[v])]]
TableFullLen == [q \in TableQueries |-> ContentLength(TableRCtrl[q])]

\* An answer one byte short of its first value, one that holds that value
\* alone, and one that lacks the last byte of the last value.
TableShortLens ==
  [q \in TableQueries |->
     {TableReachOf[q][1] - 1, TableReachOf[q][1],
      TableReachOf[q][Len(TableReachOf[q])] - 1}]

TableModels == DOMAIN SMADATA2MODELS
TableLookup(c) == LastModel(c)

AnyCodes == {128, 5}
=============================================================================
