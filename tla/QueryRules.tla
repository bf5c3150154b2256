----------------------------- MODULE QueryRules -----------------------------
(* Which reporting queries the two providers accept, which rows their filters
   keep, and what of the rows they give back: the pure part of
   schema-query.repository.ts (SQL) and mongodb-query.repository.ts.

   A query is a record
     columns, groups   sequences of column names
     filters           a set of records column, operator, value, values
     aggregates        a sequence of records function, column, alias
     orders            a set of targets
   A policy has a type (string, number, boolean) for each approved column, the
   approved filter columns and allowUnfiltered.  What a filter compares with is
   a class of text: "none" (null), "empty", "short" (under three characters),
   "text" or "digits" (longer; only digits are a number).  Column "none" is
   null.                                                                      *)
EXTENDS Integers, FiniteSets, SequencesExt

Comparisons == {"eq", "lt", "lte", "gt", "gte"}
NullTests == {"is_null", "is_not_null"}
Texts == {"contains", "starts_with"}
Operators == Comparisons \cup NullTests \cup Texts \cup {"ne", "in"}

Named(q) == ToSet(q.columns) \cup ToSet(q.groups)
Aliases(q) == {q.aggregates[i].alias : i \in DOMAIN q.aggregates}

(* An approved column is compared with something that selects.                *)
Selective(f, policy) ==
  /\ f.column \in policy.filterColumns
  /\ \/ f.operator \in Comparisons /\ f.value \notin {"none", "empty"}
     \/ f.operator = "starts_with" /\ f.value \in {"text", "digits"}
     \/ f.operator = "in" /\ \E v \in f.values : v # "empty"

Bounded(q, policy) ==
  policy.allowUnfiltered \/ \E f \in q.filters : Selective(f, policy)

(* Lists without repeats, aliases that hide no column, columns grouped when
   something is aggregated, orders over what is selected.                     *)
Shaped(q) ==
  /\ q.columns # <<>> \/ q.aggregates # <<>>
  /\ IsInjective(q.columns) /\ IsInjective(q.groups)
  /\ Cardinality(Aliases(q)) = Len(q.aggregates)
  /\ Aliases(q) \cap ToSet(q.columns) = {}
  /\ IF q.aggregates = <<>> THEN q.groups = <<>>
     ELSE ToSet(q.columns) \subseteq ToSet(q.groups)
  /\ q.orders \subseteq ToSet(q.columns) \cup Aliases(q)

(***************************************************************************)
(* PostgreSQL: rules over the columns of the catalog                       *)
(***************************************************************************)
SqlFilter(f, types) ==
  /\ f.column \in DOMAIN types
  /\ CASE f.operator \in NullTests -> f.value = "none" /\ f.values = {}
       [] f.operator = "in" -> f.value = "none" /\ f.values # {}
       [] OTHER -> /\ f.value # "none" /\ f.values = {}
                   /\ f.operator \in Texts => types[f.column] = "string"

SqlAggregate(a, types) ==
  \/ a.function = "count" /\ a.column = "none"
  \/ /\ a.column \in DOMAIN types
     /\ a.function \in {"sum", "avg"} => types[a.column] = "number"
     /\ a.function \in {"min", "max"} => types[a.column] # "boolean"

SqlAccepts(q, types) ==
  /\ Shaped(q)
  /\ Named(q) \subseteq DOMAIN types
  /\ \A f \in q.filters : SqlFilter(f, types)
  /\ \A i \in DOMAIN q.aggregates : SqlAggregate(q.aggregates[i], types)

(***************************************************************************)
(* MongoDB: rules over the approved fields, and values of the field's type *)
(***************************************************************************)
Coerced(v, type) ==
  CASE type = "number" -> v = "digits"
    [] type = "boolean" -> FALSE    \* none of the classes spells true or false
    [] type = "string" -> TRUE

MongoFilter(f, types) ==
  \/ f.operator \in NullTests /\ f.value = "none" /\ f.values = {}
  \/ /\ f.operator = "in" /\ f.value = "none" /\ f.values # {}
     /\ \A v \in f.values : Coerced(v, types[f.column])
  \/ /\ f.operator \notin NullTests \cup {"in"}
     /\ f.value # "none" /\ f.values = {}
     /\ f.operator \in Texts => types[f.column] = "string"
     /\ Coerced(f.value, types[f.column])

MongoAccepts(q, policy) ==
  /\ q.columns # <<>> \/ q.aggregates # <<>>
  /\ IsInjective(q.columns) /\ IsInjective(q.groups)
  /\ \A i, j \in DOMAIN q.aggregates :
        q.aggregates[i].alias = q.aggregates[j].alias => i = j
  /\ Named(q) \cup {f.column : f \in q.filters} \subseteq DOMAIN policy.types
  /\ \A i \in DOMAIN q.aggregates :
        LET a == q.aggregates[i] IN
        /\ a.alias \notin ToSet(q.columns)
        /\ a.column = "none" => a.function = "count"
        /\ a.column # "none" => a.column \in DOMAIN policy.types
        /\ a.function \in {"sum", "avg"} => policy.types[a.column] = "number"
        /\ a.function \in {"min", "max"} => policy.types[a.column] # "boolean"
  /\ q.aggregates # <<>> => \A c \in ToSet(q.columns) : c \in ToSet(q.groups)
  /\ q.groups # <<>> => q.aggregates # <<>>
  /\ \A o \in q.orders : o \in ToSet(q.columns) \/ o \in Aliases(q)
  /\ Bounded(q, policy)
  /\ \A f \in q.filters : MongoFilter(f, policy.types)

(***************************************************************************)
(* What a filter keeps: a cell and an operand are numbers, a null cell -1  *)
(***************************************************************************)
Null == -1

Holds(operator, cell, values) ==
  LET v == CHOOSE x \in values : TRUE IN
  CASE operator = "eq"  -> cell = v
    [] operator = "ne"  -> cell # v
    [] operator = "lt"  -> cell < v
    [] operator = "lte" -> cell <= v
    [] operator = "gt"  -> cell > v
    [] operator = "gte" -> cell >= v
    [] operator = "in"  -> cell \in values

(* A comparison with a null cell is unknown, and WHERE drops the row.         *)
SqlKeeps(operator, cell, values) ==
  CASE operator = "is_null" -> cell = Null
    [] operator = "is_not_null" -> cell # Null
    [] OTHER -> cell # Null /\ Holds(operator, cell, values)

(* $ne keeps the documents without the field; the ordered operators compare
   only values of one type.                                                   *)
MongoKeeps(operator, cell, values) ==
  CASE operator = "is_null" -> cell = Null
    [] operator = "is_not_null" -> cell # Null
    [] operator \in {"ne", "eq", "in"} -> Holds(operator, cell, values)
    [] OTHER -> cell # Null /\ Holds(operator, cell, values)

(* COUNT(column) leaves nulls out, $sum: 1 counts every document.             *)
SqlCount(cells) == Cardinality({i \in DOMAIN cells : cells[i] # Null})
MongoCount(cells) == Len(cells)

(***************************************************************************)
(* The rows of an answer: of limit + 1 rows read, the prefix that fits     *)
(***************************************************************************)
SumOf(sizes) == FoldSeq(+, 0, sizes)

Answer(sizes, limit, bytes) ==
  LET read == SubSeq(sizes, 1, Min({Len(sizes), limit + 1}))
      fits == {n \in 0..Min({limit, Len(read)}) : SumOf(SubSeq(read, 1, n)) <= bytes}
      n == Max(fits)
  IN  [rows |-> n, truncated |-> Len(read) > limit \/ n < Min({limit, Len(read)})]
=============================================================================
