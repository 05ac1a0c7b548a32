------------------------------ MODULE MCPlans ------------------------------
(***************************************************************************)
(* Small queries over two tables with the same column names in different   *)
(* orders, the hints that one column is given over time, two partitions    *)
(* that open a file, and a variant column.  A behaviour exercises one of   *)
(* the four.                                                               *)
(***************************************************************************)
EXTENDS TLC, Lineage, SqueezeHints, FileOpener, VariantColumns

VARIABLE part
vars == <<part, planVars, hintVars, openVars, variantVars>>

MCColumnsOf == [t |-> <<"a", "b">>, u |-> <<"b", "a">>]
MCCatalogs == {[a |-> "date", b |-> "date"], [a |-> "variant", b |-> "string"]}

\* The expressions over one column of a sub-plan.
Over(plan, i) ==
  LET c == Column(plan.schema[i])
  IN  {c} \union
      CASE TypeOf(plan.terms[i]) = "date"    -> {Apply(<<"date_part", u>>, <<c>>) : u \in {"YEAR", "MONTH"}}
        [] TypeOf(plan.terms[i]) = "variant" -> {Apply(<<"variant_get", p, ty>>, <<c>>) :
                                                   p \in {"p"}, ty \in {"Int64", "untyped"}}
        [] TypeOf(plan.terms[i]) = "string"  -> {Apply(<<"like">>, <<c>>), Apply(<<"cast">>, <<c>>)}
        [] OTHER                             -> {}
Expressions(plan) == UNION {Over(plan, i) : i \in DOMAIN plan.schema}
Compared(e) == Apply(<<"binary">>, <<e, Literal>>)
Predicates(plan) == {Compared(e) : e \in Expressions(plan)}
Columns(plan) == {Column(plan.schema[i]) : i \in DOMAIN plan.schema}

OneOrNone(S) == {{}} \union {{x} : x \in S}
Unary ==
  \/ \E e \in OneOrNone(Predicates(Top)) : AnalyzePassThrough(e)
  \/ \E e \in OneOrNone(Columns(Top)) : AnalyzeRepartition(e)
  \/ \E e \in Expressions(Top) :
       \/ AnalyzeProjection(<<e>>)
       \/ AnalyzeProjection(<<Apply(<<"alias", "a">>, <<e>>)>>)
       \/ \E c \in Columns(Top) : AnalyzeProjection(<<e, c>>)
       \/ AnalyzeAggregate(<<OutKey(e, 1)>>, <<e>>, <<TermOf(e, Top)>>)
       \/ AnalyzeAggregate(<<Unqualified("sum")>>, <<Apply(<<"sum">>, <<e>>)>>, <<TermOf(Apply(<<"sum">>, <<e>>), Top)>>)
       \/ AnalyzeWindow(Apply(<<"over">>, <<e>>))
       \/ \E c \in Columns(Top) : AnalyzeDistinctOn({e}, <<c>>)
  \/ /\ Len(Top.schema) = 2
     /\ \E c \in Columns(Top) :
          AnalyzeAggregate(Top.schema \o <<Unqualified("grouping id"), Unqualified("sum")>>,
                           <<Apply(<<"sets">>, <<Column(Top.schema[1]), Column(Top.schema[2])>>), Apply(<<"sum">>, <<c>>)>>,
                           Top.terms \o <<Literal, TermOf(Apply(<<"sum">>, <<c>>), Top)>>)
  \/ Len(stack) = 1 /\ \E alias \in Aliases : AnalyzeSubqueryAlias(alias)
  \/ AnalyzeDistinctAll

Binary ==
  \/ \E l \in Columns(Under) : \E r \in Columns(Top) : \E kind \in JoinKinds :
       AnalyzeJoin({l}, {r}, {}, kind)
  \/ \E kind \in JoinKinds :
       AnalyzeJoin({}, {}, {Apply(<<"binary">>, <<Column(Joined.schema[1]), Column(Joined.schema[Len(Joined.schema)])>>)}, kind)
  \/ AnalyzeUnion

Projections(table) == {<<ColumnsOf[table][1]>>, ColumnsOf[table]}
PlanNext ==
  \/ \E table \in DOMAIN ColumnsOf : \E columns \in Projections(table) :
       \/ AnalyzeTableScan(table, columns, {})
       \/ AnalyzeTableScan(table, columns, {CHOOSE e \in Predicates(ScanOf(table, columns)) : e[2][1][2] # <<>>})
  \/ Len(stack) > 0 /\ Unary
  \/ Len(stack) = 2 /\ Binary
  \/ Finish

\* Rows with a column and a nested field, and two row groups behind each other in a
\* file of four blocks that is cut anywhere.
MCRowSets ==
  {{[a |-> 0, nested |-> 0]}, {[a |-> 0, nested |-> 0], [a |-> 1, nested |-> 1]}, {[a |-> 1, nested |-> 0], [a |-> 1, nested |-> 1]}}
MCLayouts == {f \in [RowGroups -> 0 .. 3] : \A g, h \in RowGroups : g # h => f[g] # f[h]}
MCSplits ==
  {f \in [Partitions -> {<<from, to>> : from \in {0} \union 1 .. 3, to \in 1 .. 4}] :
     \E cut \in 1 .. 3 : {f[p] : p \in Partitions} = {<<0, cut>>, <<cut, 4>>}}
MCConjuncts == [column : {"a", "nested"}, value : {0, 1}] \union {[column |-> "none", value |-> 0]}

\* Documents whose values at p are numbers, strings or objects, and null rows; files
\* that have shredded nothing, p or a path below p.
MCDocuments ==
  LET Num(v) == [type |-> "Int64", val |-> v]
      Str(v) == [type |-> "Utf8", val |-> v]
  IN  {<<>>, << "p" >> :> Num(1), << "p" >> :> Str(1), << "p", "q" >> :> Num(2) @@ << "r" >> :> Str(2)}
MCRows == {Row(TRUE, d) : d \in MCDocuments} \union {Row(FALSE, <<>>)}
MCVariantFiles ==
  {Shredded(rows, typed) : rows \in UNION {[1 .. n -> MCRows] : n \in 0 .. 2},
                           typed \in {<<>>, << "p" >> :> "Int64", << "p", "q" >> :> "Int64"}}
MCRequests == {Request(<<"p">>, "Int64"), Request(<<"p">>, "Utf8"), Request(<<"p", "q">>, "Int64"), Request(<<"r">>, "Utf8")}
MCRequestLists == UNION {[1 .. n -> MCRequests] : n \in 1 .. 2}
MCMappings == {<<>>} \union {<<r>> : r \in MCRequests \union {Request(<<"p">>, Untyped)}}
                \union {<<r, s>> : r, s \in MCRequests}

CONSTANT Exercised      \* the parts that this run exercises

\* What is not exercised rests at one of its initial states.
Init ==
  /\ part \in Exercised
  /\ PlanInit /\ (part = "plan" \/ types = CHOOSE c \in Catalogs : TRUE)
  /\ HintInit
  /\ VariantInit
  /\ OpenInit
  /\ \/ part = "open"
     \/ /\ file = [g \in RowGroups |-> CHOOSE r \in RowSets : TRUE] /\ predicate = {}
        /\ offset = (CHOOSE l \in Layouts : TRUE) /\ range = (CHOOSE s \in Splits : TRUE)

Next ==
  \/ part = "plan" /\ PlanNext /\ UNCHANGED <<part, hintVars, openVars, variantVars>>
  \/ part = "hints" /\ HintNext /\ UNCHANGED <<part, planVars, openVars, variantVars>>
  \/ part = "open" /\ OpenNext /\ UNCHANGED <<part, planVars, hintVars, variantVars>>
  \/ part = "variant" /\ VariantNext /\ UNCHANGED <<part, planVars, hintVars, openVars>>
Spec == Init /\ [][Next]_vars
=============================================================================
