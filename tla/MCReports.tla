------------------------------ MODULE MCReports -----------------------------
(* Three PostgreSQL relations and a MongoDB one between them, estimated at two
   discovery pages: the first takes a page of its own, more than its estimate,
   so that three of them need a third call, and the last fits none.  One slot
   and one waiting place for each source, and six queries.                    *)
EXTENDS Reports, TLC

CONSTANTS c1, c2, c3

Symmetry == Permutations({c1, c2, c3})

MCPg == {1, 3, 4}
MCMongo == {2}
MCStated == {1, 4}
MCSize == <<3, 2, 3, 5>>
MCBudget == <<2, 2, 3, 1>>
MCGranted == {{2, 3}}

Open == [types |-> [a |-> "string", b |-> "number"], filterColumns |-> {"a"},
         allowUnfiltered |-> TRUE]
Guarded == [Open EXCEPT !.allowUnfiltered = FALSE]
MCPolicies == <<Guarded, Guarded, Open, Guarded>>

Plain == [columns |-> <<"a">>, groups |-> <<>>, filters |-> {}, aggregates |-> <<>>,
          orders |-> {"a"}]
Where(column, operator, value) ==
  [column |-> column, operator |-> operator, value |-> value, values |-> {}]
By(f) == [Plain EXCEPT !.filters = {f}]

MCQueries ==
  << [relation |-> 1, query |-> Plain],
     [relation |-> 3, query |-> Plain],
     [relation |-> 3, query |-> [By(Where("a", "eq", "short")) EXCEPT !.columns = <<"z">>]],
     [relation |-> 2, query |-> By(Where("a", "starts_with", "text"))],
     [relation |-> 2, query |-> By(Where("b", "eq", "text"))],
     [relation |-> 2, query |-> By(Where("a", "starts_with", "short"))] >>

(* Every filter, aggregate and grouping over two approved columns of each kind
   and an unknown one: the two providers accept the same queries, but that
   MongoDB also refuses a value that is not of the field's type, which
   PostgreSQL refuses when it runs the query.                                 *)
Columns == {"a", "b", "z"}
Values == {"none", "empty", "short", "text", "digits"}
Filters == [column : Columns, operator : Operators, value : Values,
            values : {{}, {"empty"}, {"text", "digits"}}]
Aggregates == {<<>>} \cup
  {<<[function |-> f, column |-> c, alias |-> x]>> :
     f \in {"count", "sum", "avg", "min", "max"}, c \in Columns \cup {"none"}, x \in {"a", "n"}}
Shapes == [columns : {<<>>, <<"a">>, <<"a", "b">>, <<"a", "a">>, <<"z">>},
           groups : {<<>>, <<"a">>, <<"b", "a">>}, filters : {{}},
           aggregates : Aggregates, orders : {{}, {"a"}, {"n"}, {"b"}}]
WellTyped(q) == \A f \in q.filters : f.column \in {"a", "b"} =>
              \A v \in ({f.value} \ {"none"}) \cup f.values : Coerced(v, Open.types[f.column])

Agree(q) ==
  \A p \in {Open, Guarded} :
    MongoAccepts(q, p) <=> Bounded(q, p) /\ SqlAccepts(q, p.types) /\ WellTyped(q)

ASSUME SameQueries == (\A f \in Filters : Agree(By(f))) /\ (\A q \in Shapes : Agree(q))

(* A filter keeps the same rows in both sources, except that MongoDB's $ne
   keeps nulls; a count of a column without nulls is the same number.         *)
ASSUME SameRows ==
  \A operator \in Operators \ Texts, cell \in -1..3, values \in SUBSET (0..2) \ {{}} :
    (operator \in {"in"} \/ Cardinality(values) = 1) =>
      (SqlKeeps(operator, cell, values) = MongoKeeps(operator, cell, values)
         <=> ~(operator = "ne" /\ cell = Null))

ASSUME SameCounts ==
  \A cells \in UNION {[1..n -> -1..1] : n \in 0..3} :
    SqlCount(cells) = MongoCount(cells) <=> \A i \in DOMAIN cells : cells[i] # Null

(* An answer that does not say it is truncated has every matching row.        *)
ASSUME TruncationTold ==
  \A sizes \in UNION {[1..n -> 1..3] : n \in 0..4}, limit \in 1..3, bytes \in 1..6 :
    LET a == Answer(sizes, limit, bytes) IN
    /\ a.truncated <=> a.rows < Len(sizes)
    /\ a.rows <= limit
=============================================================================
