--------------------------- MODULE SqueezeHints ---------------------------
(***************************************************************************)
(* The hint by which ParquetIoContext has the entries of a column squeezed *)
(* is the expression that its readers asked for most, among the last ones. *)
(***************************************************************************)
EXTENDS Integers, Sequences, FiniteSets

CONSTANTS Expressed,        \* the expressions that queries give to the column
          History,          \* COLUMN_EXPRESSION_HISTORY
          MaxQueries        \* bounds the queries that open the column

ASSUME HintsAssumption == History \in Nat \ {0} /\ MaxQueries \in Nat

VARIABLES history,          \* ColumnExpressionTracker::history of the column
          queries           \* all expressions so far, PredicateColumn included

hintVars == <<history, queries>>

\* record that forgets the newest entry instead of the oldest.
RecordLast(h, x) == IF Len(h) = History THEN [h EXCEPT ![History] = x] ELSE Append(h, x)
Record(h, x) == Append(IF Len(h) = History THEN Tail(h) ELSE h, x)

Count(h, x) == Cardinality({i \in DOMAIN h : h[i] = x})
LastOf(h, x) == CHOOSE i \in DOMAIN h : h[i] = x /\ \A j \in i + 1 .. Len(h) : h[j] # x

\* majority: the most frequent expression, of several the most recent.
Majority(h) ==
  {x \in {h[i] : i \in DOMAIN h} :
     \A y \in {h[i] : i \in DOMAIN h} :
       Count(h, y) < Count(h, x) \/ (Count(h, y) = Count(h, x) /\ LastOf(h, y) <= LastOf(h, x))}

\* CachedColumn::new: the expression of the column, or that it is in a predicate, or
\* nothing.
AddSqueezeHint(x) ==
  /\ Len(queries) < MaxQueries
  /\ history' = Record(history, x)
  /\ queries' = Append(queries, x)

HintInit == history = <<>> /\ queries = <<>>
HintNext == \E x \in Expressed : AddSqueezeHint(x)
HintSpec == HintInit /\ [][HintNext]_hintVars

-----------------------------------------------------------------------------
\* The hint follows the workload: once an expression was given by half as many
\* queries in a row as the history holds, the column is squeezed for it, whatever
\* came before; and after any query there is one hint, of those in the history.
HintFollowsWorkload ==
  LET half == (History + 1) \div 2
      recent == SubSeq(queries, Len(queries) - half + 1, Len(queries))
  IN  /\ Len(queries) >= half /\ (\A i, j \in DOMAIN recent : recent[i] = recent[j]) =>
           Majority(history) = {recent[1]}
      /\ queries # <<>> => Cardinality(Majority(history)) = 1
=============================================================================
