---------------------------- MODULE MCDataLoading ----------------------------
(* Tables of three columns in up to MaxFiles places, and their scans.       *)
EXTENDS DataLoading

CONSTANTS MaxFiles

FileRows == [f1 |-> 2, f2 |-> 1, f0 |-> 0]
Directories == [full |-> <<"f1", "f2">>, mixed |-> <<"f2", "locked">>, empty |-> <<>>]

Places == {"f1", "f2", "f0", "full", "mixed", "empty", "locked", "absent"}
Names == <<"a", "b", "c">>

(* Every order of the columns, and scans that follow each other.            *)
Orders(n) == {p \in [1 .. n -> 0 .. n - 1] : IsInjective(p)}
Scans(n) == {<<p>> : p \in Orders(n)} \cup {<<<<n - 1>>, <<0, n - 1>>, <<>>>>}

TablesOf(places, dates, parserOf, n) ==
  [parser : {parserOf}, uris : places, columns : {Names}, dates : {dates}, scans : Scans(n)]

Lists == UNION {[1 .. l -> Places] : l \in 0 .. MaxFiles}

MCTables ==
  TablesOf(Lists, {}, "csv", 3) \cup TablesOf(Lists, {"a"}, "parquet", 2)
    \cup TablesOf({<<>>}, {}, "gdf", 3)
=============================================================================
