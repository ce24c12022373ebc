-------------------------- MODULE MCRowExpressions --------------------------
(* Bounded expressions over two columns: every variant, one level of        *)
(* nesting under connectives and CASE, and literals and casts of every type. *)
EXTENDS RowExpressions, FiniteSetsExt

Col(c) == [Node("Column", <<>>) EXCEPT !.name = c]
Lit(v) == [Node("Literal", <<>>) EXCEPT !.val = v, !.type = Arrow("Int64")]
Binary(sym, l, r) == [Node("BinaryExpr", <<l, r>>) EXCEPT !.name = sym]
Neg(e, neg) == [e EXCEPT !.neg = neg]

MCRows == [{"a", "b"} -> {0, 1, 2, NULL}]
Terms == {Col("a"), Col("b"), Lit(1), Lit(NULL)}

Predicates ==
    {Binary("Eq", Col("a"), t) : t \in Terms}
      \cup {Neg(Node("Between", <<Col("a"), Lit(1), t>>), n) : t \in Terms, n \in BOOLEAN}
      \cup {Neg(Node("InList", <<t, Col("b"), Lit(2)>>), n) : t \in Terms, n \in BOOLEAN}
      \cup {[Neg(Node(v, <<Col("a"), t>>), n) EXCEPT !.ci = ci /\ v = "Like"] :
                v \in {"Like", "SimilarTo"}, t \in Terms, n \in BOOLEAN, ci \in BOOLEAN}
Escaped ==
    {[Neg(Node(v, <<Col("a"), Col("b")>>), n) EXCEPT !.ci = ci /\ v = "Like", !.opt = "escape"] :
        v \in {"Like", "SimilarTo"}, n \in BOOLEAN, ci \in BOOLEAN}

(* CASE with and without base, with and without else.                       *)
Cases ==
    {[Node("Case", <<w, Col("b")>> \o else) EXCEPT !.base = <<Col("a")>>] :
        w \in Terms, else \in {<<>>, <<Lit(2)>>, <<Col("a")>>}}
      \cup {Node("Case", <<p, Lit(0), Binary("Eq", Col("b"), Lit(2)), Lit(1)>> \o else) :
                p \in Predicates, else \in {<<>>, <<Col("a")>>}}

Connected ==
    {Node(v, <<p>>) : v \in Tests \cup {"Not", "Alias"}, p \in Predicates}
      \cup {Binary(sym, p, q) : sym \in {"And", "Or"}, p \in Predicates,
                                q \in {Node("IsNull", <<Col("b")>>), Binary("Eq", Col("b"), Lit(1))}}

Calls ==
    {Node(v, <<Col("a"), Col("b")>>) :
        v \in {"ScalarFunction", "HigherOrderFunction", "AggregateFunction", "WindowFunction"}}
      \cup {[Node(v, <<Col("a")>>) EXCEPT !.clauses = clauses, !.opt = nulls] :
                v \in {"AggregateFunction", "WindowFunction"}, nulls \in {NULL, "ignore nulls"},
                clauses \in {<<>>, <<Binary("Eq", Col("b"), Lit(1))>>, <<Col("a"), Col("b")>>}}
      \cup {[Node("InSubquery", <<Col("a")>>) EXCEPT !.clauses = <<Col("b")>>],
             [Node("Lambda", <<Col("a")>>) EXCEPT !.opt = "x"]}
      \cup {Node(v, <<Col("a")>>) :
                v \in {"InSubquery", "Negative", "GroupingSet", "Unnest",
                       "SetComparison"}}
      \cup {Node(v, <<>>) : v \in {"OuterReferenceColumn", "Wildcard", "ScalarSubquery",
                                   "Placeholder", "Exists"}}
      \cup {Node("ScalarVariable", <<>>), [Node("LambdaVariable", <<>>) EXCEPT !.name = "a"]}
      \cup {Binary(sym, Col("a"), Lit(1)) :
                sym \in {"Plus", "Divide", "StringConcat", "BitwiseOr", "AtArrow"}}

Typed ==
    {[Lit(1) EXCEPT !.type = t] : t \in ArrowTypes}
      \cup {[Node("Cast", <<Col("a")>>) EXCEPT !.type = t] : t \in ArrowTypes}
      \cup {[Node("TryCast", <<Col("a")>>) EXCEPT !.type = Arrow("Int64")]}

(* A column of a clause below another call, and one that is an operand too. *)
Clauses ==
    {Binary("Plus", [Node("AggregateFunction", <<Col("a")>>) EXCEPT !.clauses = <<c>>], d) :
        c \in {Col("a"), Col("b")}, d \in Terms}

MCExpressions == Predicates \cup Escaped \cup Cases \cup Connected \cup Calls \cup Typed \cup Clauses

(* The nodes of an expression and of its operands, and their heights.       *)
RECURSIVE NodesOf(_)
NodesOf(e) ==
    {e} \cup UNION {NodesOf(d) : d \in Parts(e)}
      \cup IF e.v = "Case" /\ e.base # <<>>
           THEN {CaseOperands(e)[i] : i \in DOMAIN e.args} ELSE {}
MCNodes == UNION {NodesOf(e) : e \in MCExpressions}

RECURSIVE HeightOf(_)
HeightOf(e) == IF Parts(e) = {} THEN 0 ELSE 1 + Max({HeightOf(d) : d \in Parts(e)})
MCHeight == [e \in MCNodes |-> HeightOf(e)]
=============================================================================
