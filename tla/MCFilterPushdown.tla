-------------------------- MODULE MCFilterPushdown --------------------------
(* Bounded filters over one nullable integer column.                        *)
EXTENDS FilterPushdown, FiniteSetsExt

(* IN lists have four elements: DataFusion's simplifier turns shorter ones  *)
(* into comparisons before pushdown is decided.                             *)
Ints == 0..4
MCValues == Ints \cup {NULL}

Terms == {Column, Literal(1), Literal(3), Literal(NULL)}
Comparisons ==
    {Binary(sym, Column, r) : sym \in {"Eq", "NotEq", "Lt", "LtEq", "Gt", "GtEq"},
                              r \in Terms}
Bounded == {Between(Column, lo, hi, neg) : lo, hi \in Terms, neg \in BOOLEAN}
Lists == {{0, 1, 2, 3}, {0, 1, 2, NULL}}
PlainIn == {InList(Column, l, FALSE) : l \in Lists}
NegatedIn == {InList(Column, l, TRUE) : l \in Lists}
Rest == {IsNull(Column), IsNotNull(Column), Opaque,
         Binary("Eq", Binary("Plus", Column, Literal(1)), Literal(3)),
         IsNull(Binary("Lt", Column, Literal(2)))}

Basic == Comparisons \cup Bounded \cup Rest
Few == {Binary("Lt", Column, Literal(3)), Between(Column, Literal(1), Literal(3), TRUE),
        IsNull(Column), Opaque}

(* One level of NOT, AND and OR over a set of filters.                      *)
Nested(S) ==
    S \cup {Negation(e) : e \in S}
      \cup {Binary(sym, l, r) : sym \in {"And", "Or"}, l \in S, r \in Few}

Over(tables, fs) ==
    {[table |-> t, filters |-> f] : t \in tables, f \in {<<e>> : e \in fs}
                                                   \cup {<<e, g>> : e \in fs, g \in Few}}

(* The expressions of the filters, and how high they are.                   *)
Filters == Nested(Basic \cup PlainIn \cup NegatedIn \cup {InList(Column, {0, NULL}, TRUE)})
MCExpressions ==
    Filters \cup Terms \cup {Literal(2), Binary("Plus", Column, Literal(1)),
                             Binary("Lt", Column, Literal(2))}
RECURSIVE HeightOf(_)
HeightOf(e) == LET parts == Parts(e)
               IN IF parts = {} THEN 0 ELSE 1 + Max({HeightOf(d) : d \in parts})
MCHeight == [e \in MCExpressions |-> HeightOf(e)]

(* Every filter that can be pushed faithfully, on a table with nulls and,   *)
(* where that lets more of them in, on one without.                         *)
FaithfulOver(k, t) ==
    Over({t}, {e \in Filters : Faithful(k, [table |-> t, filters |-> <<e>>])})
MCQueries ==
    [k \in Kinds |-> FaithfulOver(k, MCValues)
                    \cup IF k = "dataset" THEN FaithfulOver(k, Ints) ELSE {}]

(* IN lists long enough to reach the translation.                           *)
InQueries == [k \in Kinds |-> Over({MCValues}, PlainIn \cup NegatedIn)]
=============================================================================
