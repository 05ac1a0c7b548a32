------------------------------ MODULE Lineage ------------------------------
(***************************************************************************)
(* How LineageOptimizer finds the columns that a query only uses through   *)
(* EXTRACT, variant_get or LIKE, and how its finding becomes the           *)
(* expression of a cached column.  A logical plan is built from its scans  *)
(* upwards, one action per kind of node, which is the order in which       *)
(* analyze_plan comes back from them.  Beside the lineage that the code    *)
(* computes, every column of a sub-plan has its term: the expression over  *)
(* the columns of scans that it stands for.                                *)
(***************************************************************************)
EXTENDS Integers, Sequences, FiniteSets

CONSTANTS ColumnsOf,        \* the column names of each table, in order
          Catalogs,         \* the types that column names may have
          Aliases,          \* names for sub-queries
          MaxNodes,         \* bounds the nodes of a plan
          EagerShredding    \* eager_shredding of LocalModeOptimizer

ASSUME LineageAssumption ==
  /\ \A t \in DOMAIN ColumnsOf : \A i, j \in DOMAIN ColumnsOf[t] : ColumnsOf[t][i] = ColumnsOf[t][j] => i = j
  /\ MaxNodes \in Nat \ {0} /\ EagerShredding \in BOOLEAN

VARIABLES types,            \* the type of each column name
          stack,            \* the analyzed sub-plans that have no parent yet
          stats,            \* LineageAnalyzer::stats, as a set of usages
          scans,            \* the table scans: their projected columns
          observed,         \* the terms that the result depends on
          blind,            \* some use of a column is not recorded, or of another column
          nodes             \* the number of nodes; -1 once the plan is complete

planVars == <<types, stack, stats, scans, observed, blind, nodes>>

-----------------------------------------------------------------------------
(* Expressions: a label and the arguments it is applied to.                *)

Column(key) == <<<<"column">> \o key, <<>>>>
Base(table, name) == <<<<"base", table, name>>, <<>>>>
Literal == <<<<"literal">>, <<>>>>
Apply(label, args) == <<label, args>>
Arguments(e) == {e[2][i] : i \in DOMAIN e[2]}
KeyOf(e) == <<e[1][2], e[1][3]>>
Unqualified(name) == <<"", name>>

\* The type of the value that a term stands for.
TypeOf(term) ==
  CASE term[1][1] = "base"        -> types[term[1][3]]
    [] term[1][1] = "either"      -> term[1][2]
    [] OTHER                      -> "number"

-----------------------------------------------------------------------------
(* Lineage of expressions                                                  *)

\* SupportedIntervalUnit
Units == {"YEAR", "MONTH", "DAY", "DOW"}
Usage(base, operations) == [base |-> base, operations |-> operations]

\* What a node of an expression adds to the operations of the columns below it:
\* date_part with a literal unit, variant_get with a literal path, LIKE with a
\* substring pattern, anything else.
OperationOf(label) ==
  CASE label[1] = "date_part" /\ label[2] \in Units -> <<"Extract", label[2]>>
    [] label[1] = "variant_get"                     -> <<"VariantGet", label[2], label[3]>>
    [] label[1] = "like"                            -> <<"SubstringSearch">>
    [] OTHER                                        -> <<"Other">>

RECURSIVE LineageForExpr(_, _)
LineageForExpr(e, map) ==
  CASE e[1][1] = "column" -> IF KeyOf(e) \in DOMAIN map THEN map[KeyOf(e)] ELSE {Usage(KeyOf(e), <<>>)}
    [] e[1][1] = "alias"  -> LineageForExpr(e[2][1], map)
    [] OTHER -> {[u EXCEPT !.operations = Append(@, OperationOf(e[1]))] :
                   u \in UNION {LineageForExpr(a, map) : a \in Arguments(e)}}

MergeLineageMaps(m, n) ==
  [k \in DOMAIN m \union DOMAIN n |->
     (IF k \in DOMAIN m THEN m[k] ELSE {}) \union (IF k \in DOMAIN n THEN n[k] ELSE {})]
LineageOf(exprs, map) == UNION {LineageForExpr(e, map) : e \in exprs}

\* The term of an expression over a sub-plan, by the position of its columns.
RECURSIVE TermOf(_, _)
TermOf(e, plan) ==
  CASE e[1][1] = "column" -> plan.terms[CHOOSE i \in DOMAIN plan.schema : plan.schema[i] = KeyOf(e)]
    [] e[1][1] = "alias"  -> TermOf(e[2][1], plan)
    [] OTHER              -> <<e[1], [i \in DOMAIN e[2] |-> TermOf(e[2][i], plan)]>>

-----------------------------------------------------------------------------
(* analyze_plan, one action per kind of node                               *)

\* A sub-plan: whether its root notes every column it hands out, its schema, the
\* LineageMap of the analyzer, and the terms.
Plan(computed, schema, map, terms) == [computed |-> computed, schema |-> schema, map |-> map, terms |-> terms]
Distinct(keys) == \A i, j \in DOMAIN keys : keys[i] = keys[j] => i = j
MapOf(keys, usages) == [k \in {keys[i] : i \in DOMAIN keys} |-> usages[CHOOSE i \in DOMAIN keys : keys[i] = k]]

PlanInit ==
  /\ types \in Catalogs
  /\ stack = <<>> /\ stats = {} /\ scans = {} /\ observed = {} /\ blind = FALSE /\ nodes = 0

Top == stack[Len(stack)]
Below == SubSeq(stack, 1, Len(stack) - 1)
Grow == nodes >= 0 /\ nodes < MaxNodes - (Len(stack) - 1) /\ nodes' = nodes + 1

\* record: the usages of expressions are noted as they are.
RecordUses(exprs, plan) ==
  /\ stats' = stats \union LineageOf(exprs, plan.map)
  /\ observed' = observed \union {TermOf(e, plan) : e \in exprs}

ScanOf(table, columns) ==
  LET schema == [i \in DOMAIN columns |-> <<table, columns[i]>>]
  IN  Plan(FALSE, schema, MapOf(schema, [i \in DOMAIN columns |-> {Usage(schema[i], <<>>)}]),
           [i \in DOMAIN columns |-> Base(table, columns[i])])
AnalyzeTableScan(table, columns, filters) ==
  LET scan == ScanOf(table, columns)
  IN  /\ Grow /\ Len(stack) < 2
      /\ stack' = Append(stack, scan)
      /\ scans' = scans \union {<<table, columns>>}
      /\ RecordUses(filters, scan)
      /\ UNCHANGED <<types, blind>>

\* analyze_filter and analyze_sort: the columns pass through.
AnalyzePassThrough(exprs) ==
  /\ Grow
  /\ stack' = Append(Below, [Top EXCEPT !.computed = FALSE])
  /\ RecordUses(exprs, Top)
  /\ UNCHANGED <<types, scans, blind>>

\* Limit computes nothing from columns; Repartition hashes the expressions.
AnalyzeRepartition(exprs) == AnalyzePassThrough(exprs)

\* The name of an expression in a schema: a column keeps its own.
OutKey(e, i) ==
  CASE e[1][1] = "column" -> KeyOf(e)
    [] e[1][1] = "alias"  -> Unqualified(e[1][2])
    [] OTHER              -> Unqualified(<<"first", "second", "third">>[i])

AnalyzeProjection(exprs) ==
  LET keys == [i \in DOMAIN exprs |-> OutKey(exprs[i], i)]
  IN  /\ Grow /\ Distinct(keys)
      /\ stack' = Append(Below, Plan(TRUE, keys,
                                     MapOf(keys, [i \in DOMAIN exprs |-> LineageForExpr(exprs[i], Top.map)]),
                                     [i \in DOMAIN exprs |-> TermOf(exprs[i], Top)]))
      /\ stats' = stats \union LineageOf({exprs[i] : i \in DOMAIN exprs}, Top.map)
      /\ UNCHANGED <<types, scans, observed, blind>>

\* analyze_aggregate: columns and expressions are paired in order; with GROUPING
\* SETS there is one grouping expression for several columns.
AnalyzeAggregate(keys, exprs, terms) ==
  /\ Grow /\ Distinct(keys)
  /\ stack' = Append(Below, Plan(TRUE, keys,
                                 MapOf(keys, [i \in DOMAIN keys |-> IF i \in DOMAIN exprs
                                                                    THEN LineageForExpr(exprs[i], Top.map) ELSE {}]),
                                 terms))
  /\ RecordUses({exprs[i] : i \in DOMAIN exprs}, Top)
  /\ UNCHANGED <<types, scans, blind>>

Under == stack[Len(stack) - 1]
Joined == Plan(FALSE, Under.schema \o Top.schema, MergeLineageMaps(Under.map, Top.map), Under.terms \o Top.terms)

\* The columns that a join hands out: of both sides, of one (semi and anti joins),
\* or of one and whether a row has a partner (mark joins).
JoinKinds == {"both", "left", "right", "left mark", "right mark"}
Mark == [schema |-> <<Unqualified("mark")>>, terms |-> <<Literal>>]
JoinSides(kind) ==
  CASE kind = "both" -> <<Under, Top>> [] kind = "left" -> <<Under>> [] kind = "right" -> <<Top>>
    [] kind = "left mark" -> <<Under, Mark>> [] kind = "right mark" -> <<Top, Mark>>

\* The output columns are paired with the columns of the left input, then of the
\* right one, in order, whichever of the two the join hands out.
JoinOutput(kind) ==
  LET sides == JoinSides(kind)
      keys == IF Len(sides) = 1 THEN sides[1].schema ELSE sides[1].schema \o sides[2].schema
      terms == IF Len(sides) = 1 THEN sides[1].terms ELSE sides[1].terms \o sides[2].terms
      inputs == [i \in DOMAIN Under.schema |-> Under.map[Under.schema[i]]]
                  \o [i \in DOMAIN Top.schema |-> Top.map[Top.schema[i]]]
  IN  Plan(FALSE, keys, MapOf(keys, inputs), terms)

\* analyze_join of the two last sub-plans, on pairs of expressions and a filter over
\* both.  Columns of the right side alone get the usages of others.
AnalyzeJoin(left, right, filters, kind) ==
  LET output == JoinOutput(kind)
  IN  /\ Grow /\ Distinct(Joined.schema) /\ Distinct(output.schema)
      /\ stack' = Append(SubSeq(stack, 1, Len(stack) - 2), output)
      /\ stats' = stats \union LineageOf(left, Under.map) \union LineageOf(right, Top.map)
                        \union LineageOf(filters, Joined.map)
      /\ observed' = observed \union {TermOf(e, Under) : e \in left} \union {TermOf(e, Top) : e \in right}
                              \union {TermOf(e, Joined) : e \in filters}
      /\ blind' = (blind \/ kind \in {"right", "right mark"})
      /\ UNCHANGED <<types, scans>>

\* analyze_subquery_alias; names do not count among the nodes.
AnalyzeSubqueryAlias(alias) ==
  LET keys == [i \in DOMAIN Top.schema |-> <<alias, Top.schema[i][2]>>]
  IN  /\ nodes >= 0 /\ Distinct(keys) /\ keys # Top.schema
      /\ stack' = Append(Below, Plan(FALSE, keys, MapOf(keys, [i \in DOMAIN keys |-> Top.map[Top.schema[i]]]), Top.terms))
      /\ UNCHANGED <<types, stats, scans, observed, blind, nodes>>

AnalyzeWindow(e) ==
  LET keys == Append(Top.schema, Unqualified("window"))
  IN  /\ Grow /\ Distinct(keys)
      /\ stack' = Append(Below, Plan(FALSE, keys,
                                     MapOf(keys, [i \in DOMAIN keys |-> IF i \in DOMAIN Top.schema THEN Top.map[Top.schema[i]]
                                                                        ELSE LineageForExpr(e, Top.map)]),
                                     Append(Top.terms, TermOf(e, Top))))
      /\ RecordUses({e}, Top)
      /\ UNCHANGED <<types, scans, blind>>

\* analyze_union: a column of the union is made of the columns with its name,
\* wherever they are; in the result it is made of those at its position.
AnalyzeUnion ==
  LET names(plan) == [i \in DOMAIN plan.schema |-> plan.schema[i][2]]
      named(plan, n) == UNION {plan.map[k] : k \in {j \in DOMAIN plan.map : j[2] = n}}
      keys == Under.schema
  IN  /\ Grow
      /\ [i \in DOMAIN Under.terms |-> TypeOf(Under.terms[i])] = [i \in DOMAIN Top.terms |-> TypeOf(Top.terms[i])]
      /\ stack' = Append(SubSeq(stack, 1, Len(stack) - 2),
                         Plan(FALSE, keys,
                              MapOf(keys, [i \in DOMAIN keys |-> named(Under, keys[i][2]) \union named(Top, keys[i][2])]),
                              [i \in DOMAIN keys |-> IF Under.terms[i] = Top.terms[i] THEN Top.terms[i]
                                                     ELSE <<<<"either", TypeOf(Top.terms[i])>>, <<Under.terms[i], Top.terms[i]>>>>]))
      /\ blind' = (blind \/ names(Under) # names(Top))
      /\ UNCHANGED <<types, stats, scans, observed>>

\* analyze_distinct of Distinct::All: the columns are compared, and nothing is noted.
AnalyzeDistinctAll ==
  /\ Grow
  /\ stack' = Append(Below, [Top EXCEPT !.computed = FALSE])
  /\ observed' = observed \union {Top.terms[i] : i \in DOMAIN Top.terms}
  /\ blind' = TRUE
  /\ UNCHANGED <<types, stats, scans>>

AnalyzeDistinctOn(on, select) ==
  LET keys == [i \in DOMAIN select |-> OutKey(select[i], i)]
  IN  /\ Grow /\ Distinct(keys)
      /\ stack' = Append(Below, Plan(TRUE, keys,
                                     MapOf(keys, [i \in DOMAIN keys |-> LineageForExpr(select[i], Top.map)]),
                                     [i \in DOMAIN keys |-> TermOf(select[i], Top)]))
      /\ stats' = stats \union LineageOf(on \union {select[i] : i \in DOMAIN select}, Top.map)
      /\ observed' = observed \union {TermOf(e, Top) : e \in on}
      /\ UNCHANGED <<types, scans, blind>>

\* The analysis is over: what the root hands out is part of the result, but only
\* nodes that compute their columns have noted them.
Finish ==
  /\ nodes > 0 /\ Len(stack) = 1
  /\ nodes' = -1
  /\ observed' = observed \union {Top.terms[i] : i \in DOMAIN Top.terms}
  /\ blind' = (blind \/ ~Top.computed)
  /\ UNCHANGED <<types, stack, stats, scans>>

-----------------------------------------------------------------------------
(* What the usages of a column allow                                       *)

UsagesOf(base) == {u.operations : u \in {v \in stats : v.base = base}}
Recorded == {u.base : u \in stats}
Started(kind, operations) == operations # <<>> /\ operations[1][1] = kind

\* The units of the extracts that a list of operations begins with.
LeadingUnits(operations) ==
  {operations[i][2] : i \in {j \in DOMAIN operations : \A k \in 1 .. j : operations[k][1] = "Extract"}}

\* find_date32_extractions that takes what it finds.
FindDate32ExtractionsAny ==
  {base \in Recorded : types[base[2]] = "date" /\ \E o \in UsagesOf(base) : Started("Extract", o)}
FindDate32Extractions ==
  {base \in Recorded : types[base[2]] = "date" /\ \A o \in UsagesOf(base) : Started("Extract", o)}

\* The (path, type) pairs a column is asked for; two types for a path are a conflict,
\* and a column that is passed on is not.
VariantFields(base) == {<<o[1][2], o[1][3]>> : o \in {p \in UsagesOf(base) : Started("VariantGet", p)}}
FindVariantGets ==
  {base \in Recorded :
     /\ VariantFields(base) # {}
     /\ \A o \in UsagesOf(base) : o = <<>> \/ Started("VariantGet", o)
     /\ \A f, g \in VariantFields(base) : f[1] = g[1] => f = g}

Searches(operations) == \E i \in DOMAIN operations : operations[i] = <<"SubstringSearch">>
FindSubstringSearches ==
  {base \in Recorded :
     /\ types[base[2]] = "string"
     /\ \E o \in UsagesOf(base) : Searches(o)
     /\ \A o \in UsagesOf(base) : o = <<>> \/ Searches(o)}

\* build_annotation_map: of two annotations the later kind stays.
NoAnnotation == <<"none", {}>>
Annotation(base) ==
  CASE base \in FindSubstringSearches -> <<"SubstringSearch", {}>>
    [] base \notin FindSubstringSearches /\ base \in FindVariantGets -> <<"VariantPaths", VariantFields(base)>>
    [] base \notin FindSubstringSearches \union FindVariantGets /\ base \in FindDate32Extractions ->
         <<"DatePart", UNION {LeadingUnits(o) : o \in UsagesOf(base)}>>
    [] OTHER -> NoAnnotation

\* annotations_for_table_scan: the qualified name first, then the bare one.
AnnotationFor(table, name) ==
  IF Annotation(<<table, name>>) # NoAnnotation THEN Annotation(<<table, name>>) ELSE Annotation(Unqualified(name))

-----------------------------------------------------------------------------
(* From the annotation to the expression of the cached column              *)

\* process_field_annotation: what the metadata of the file's field says.
Metadata(annotation) ==
  IF annotation[1] = "VariantPaths" /\ ~EagerShredding THEN NoAnnotation ELSE annotation

\* infer_expression: several units are written as one text that names no unit; a path
\* without a type is left out.
InferExpression(metadata) ==
  LET typed == {f \in metadata[2] : f[2] # "untyped"}
  IN  CASE metadata[1] = "DatePart" /\ Cardinality(metadata[2]) = 1 -> <<"ExtractDate32", metadata[2]>>
        [] metadata[1] = "SubstringSearch"                          -> <<"SubstringSearch", {}>>
        [] metadata[1] = "VariantPaths"                             -> IF typed = {} THEN NoAnnotation ELSE <<"VariantGet", typed>>
        [] OTHER                                                    -> NoAnnotation
ExpressionOf(table, name) == InferExpression(Metadata(AnnotationFor(table, name)))

-----------------------------------------------------------------------------
(* What the result really needs of a column                                *)

\* The labels right above the occurrences of columns of scans in a term; a union
\* hands on what it is given.
RECURSIVE Consumers(_, _)
Consumers(term, parent) ==
  CASE term[1][1] = "base"   -> {<<<<term[1][2], term[1][3]>>, parent>>}
    [] term[1][1] = "either" -> UNION {Consumers(a, parent) : a \in Arguments(term)}
    [] OTHER                 -> UNION {Consumers(a, term[1]) : a \in Arguments(term)}
UsesOf(base) == {use[2] : use \in {c \in UNION {Consumers(term, <<"output">>) : term \in observed} : c[1] = base}}

Planned == nodes = -1
Scanned == UNION {{<<s[1], s[2][i]>> : i \in DOMAIN s[2]} : s \in scans}

\* A cached column that is kept as one date part is only used by the EXTRACT of that
\* part, and every path that the query takes from a column annotated with variant
\* paths is among them, through joins, unions, aliases and windows and whatever
\* the columns are called in between.  Plans with a use that the analyzer does not
\* note, or notes of another column, are left out (blind): whole-row DISTINCT, an
\* output that nothing computes, unions of other names, and joins that only hand out
\* their right side.
HintsCoverUses ==
  Planned /\ ~blind =>
    \A base \in Scanned :
      LET hint == ExpressionOf(base[1], base[2])
          annotation == AnnotationFor(base[1], base[2])
      IN  /\ hint[1] = "ExtractDate32" => UsesOf(base) \subseteq {<<"date_part", u>> : u \in hint[2]}
          /\ annotation[1] = "VariantPaths" =>
               UsesOf(base) \subseteq {<<"output">>} \union {<<"variant_get">> \o f : f \in annotation[2]}

\* "detects columns that are only used via compatible `EXTRACT` projections"
\* (lineage_opt.rs:1): of every plan.
OnlyUsedViaExtract ==
  Planned =>
    \A base \in Scanned :
      AnnotationFor(base[1], base[2])[1] = "DatePart" =>
        \A use \in UsesOf(base) : use[1] = "date_part"
=============================================================================
