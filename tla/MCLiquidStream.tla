--------------------------- MODULE MCLiquidStream ---------------------------
(* Two streams: one with many queries, one that scans along with it.        *)
EXTENDS LiquidStream

MCFiles == {"a", "b"}
MCLocation == [f \in MCFiles |-> f]
MCNumRows == [a |-> <<3, 2>>, b |-> <<1>>]

Query(file, groups, selection, limit, projection, predicates) ==
  [file |-> file, groups |-> groups, selection |-> selection, limit |-> limit,
   projection |-> projection, predicates |-> predicates]
Passing(cols, rows) == [cols |-> cols, pass |-> {<<f>> \o r : f \in MCFiles, r \in rows}]

Selections == {None} \cup {FromBits(b) : b \in [1..5 -> BOOLEAN]}
Some == Passing({2}, {<<1, 2>>, <<1, 3>>, <<2, 2>>})
Predicates == {<<>>, <<Some>>, <<Passing({1, 2}, {<<1, 1>>, <<1, 3>>, <<2, 2>>}),
                                 Passing({2}, {<<1, 3>>, <<2, 1>>})>>}

MCQueries ==
  [s1 |-> {Query("a", <<1, 2>>, sel, limit, {1}, <<Some>>) :
             sel \in Selections, limit \in {None, 2}}
     \cup {Query("a", g, None, limit, cols, p) :
             g \in {<<1, 2>>, <<2>>}, limit \in {None, 0, 1, 3}, cols \in {{}, {1, 2}}, p \in Predicates},
   s2 |-> {Query("a", <<1, 2>>, <<Skip(1), Select(3)>>, None, {2}, <<>>),
           Query("b", <<1>>, None, None, {1}, <<Passing({1}, {<<1, 1>>})>>)}]
=============================================================================
