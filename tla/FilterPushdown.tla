--------------------------- MODULE FilterPushdown ---------------------------
(***************************************************************************)
(* Filters pushed into Python tables.  The planner asks a provider which   *)
(* filters it takes over (supports_filters_pushdown), hands exactly those  *)
(* to scan, and keeps the others in a FilterExec above the scan.  Three    *)
(* providers answer: Dataset (a pyarrow dataset), IbisTable (an ibis       *)
(* table) and PyTableProvider (user Python).  Each translates the filter   *)
(* to a Python expression and answers Exact when the translation succeeds. *)
(*                                                                         *)
(* A table is a set of values of one nullable column: filters look at one  *)
(* row at a time, so more columns or duplicates add nothing.               *)
(***************************************************************************)
EXTENDS Integers, Sequences

CONSTANTS
    NULL,       \* the missing value
    Values,     \* of the column
    Expressions,
    Height,     \* Height[e]: the height of an expression as a tree
    Kinds,      \* providers: subset of {"dataset", "ibis", "python"}
    Queries     \* Queries[k]: what is asked of provider k,
                \* [table |-> set of values, filters |-> sequence of expressions]

(* The expressions right below e.                                           *)
Parts(e) ==
    CASE e.op \in {"not", "isnull", "isnotnull", "in"} -> {e.arg}
      [] e.op = "bin" -> {e.left, e.right}
      [] e.op = "between" -> {e.arg, e.low, e.high}
      [] OTHER -> {}

ASSUME NullAssumption == NULL \notin BOOLEAN
ASSUME KindsAssumption ==
    Kinds \subseteq {"dataset", "ibis", "python"} /\ DOMAIN Queries = Kinds
ASSUME HeightAssumption == Height \in [Expressions -> Nat]
ASSUME ExpressionsAssumption ==
    \A e \in Expressions :
        /\ e.op \in {"col", "lit", "bin", "not", "isnull", "isnotnull", "in", "between", "opaque"}
        /\ \A d \in Parts(e) : d \in Expressions /\ Height[d] < Height[e]
ASSUME QueriesAssumption ==
    \A k \in Kinds : \A q \in Queries[k] :
        /\ DOMAIN q = {"table", "filters"} /\ q.table \subseteq Values
        /\ \A i \in DOMAIN q.filters : q.filters[i] \in Expressions

VARIABLES
    kind,       \* the provider that is scanned
    query,      \* the query that is planned
    verdict,    \* per filter: "Exact" or "Unsupported"
    phase,      \* "planning", "planned", "scanned", "done", "failed", "panicked"
    rows        \* rows produced so far

vars == <<kind, query, verdict, phase, rows>>

-----------------------------------------------------------------------------
(* DataFusion's expressions.  Opaque stands for those no translation knows. *)
Column == [op |-> "col"]
Literal(v) == [op |-> "lit", val |-> v]
Binary(sym, l, r) == [op |-> "bin", sym |-> sym, left |-> l, right |-> r]
Negation(e) == [op |-> "not", arg |-> e]
IsNull(e) == [op |-> "isnull", arg |-> e]
IsNotNull(e) == [op |-> "isnotnull", arg |-> e]
InList(e, list, negated) == [op |-> "in", arg |-> e, list |-> list, negated |-> negated]
Between(e, lo, hi, negated) ==
    [op |-> "between", arg |-> e, low |-> lo, high |-> hi, negated |-> negated]
Opaque == [op |-> "opaque"]

Comparison(sym, a, b) ==
    CASE sym = "Eq" -> a = b
      [] sym = "NotEq" -> a # b
      [] sym = "Lt" -> a < b
      [] sym = "LtEq" -> a <= b
      [] sym = "Gt" -> a > b
      [] sym = "GtEq" -> a >= b

(* Three-valued logic: TRUE, FALSE and NULL.                                *)
Not3(a) == IF a = NULL THEN NULL ELSE ~a
And3(a, b) ==
    IF FALSE \in {a, b} THEN FALSE ELSE IF NULL \in {a, b} THEN NULL ELSE TRUE
Or3(a, b) == Not3(And3(Not3(a), Not3(b)))
Binary3(sym, a, b) ==
    CASE sym = "And" -> And3(a, b)
      [] sym = "Or" -> Or3(a, b)
      [] OTHER -> IF NULL \in {a, b} THEN NULL
                  ELSE IF sym = "Plus" THEN a + b ELSE Comparison(sym, a, b)
In3(a, list) ==
    IF a = NULL THEN NULL
    ELSE IF a \in list THEN TRUE ELSE IF NULL \in list THEN NULL ELSE FALSE
Between3(a, lo, hi) == And3(Binary3("LtEq", lo, a), Binary3("LtEq", a, hi))

(* What an expression means to DataFusion, on a row whose column is x; f    *)
(* has it for the parts of the expression.                                  *)
SqlOf(f, e) == [x \in Values |->
    CASE e.op = "col" -> x
      [] e.op = "lit" -> e.val
      [] e.op = "bin" -> Binary3(e.sym, f[e.left][x], f[e.right][x])
      [] e.op = "not" -> Not3(f[e.arg][x])
      [] e.op = "isnull" -> f[e.arg][x] = NULL
      [] e.op = "isnotnull" -> f[e.arg][x] # NULL
      [] e.op = "in" -> LET in == In3(f[e.arg][x], e.list)
                        IN IF e.negated THEN Not3(in) ELSE in
      [] e.op = "between" ->
            LET in == Between3(f[e.arg][x], f[e.low][x], f[e.high][x])
            IN IF e.negated THEN Not3(in) ELSE in
      [] e.op = "opaque" -> IF x = NULL THEN NULL ELSE x % 2 = 0]
Sql[e \in Expressions] == SqlOf(Sql, e)

-----------------------------------------------------------------------------
(* A Python expression, abstracted to what it computes from the value of    *)
(* the column: <<the function>>.  Unsupported is the translation's error.   *)
Unsupported == <<>>
Failed(args) == \E i \in DOMAIN args : args[i] = Unsupported

(* External: the functions of Python's operator module, on expressions.     *)
(* Null comparisons are null, and_ and or_ are Kleene.                      *)
PyOperator(fn, a, b) ==
    CASE fn = "and_" -> And3(a, b)
      [] fn = "or_" -> Or3(a, b)
      [] fn \in {"eq", "ne", "lt", "le", "gt", "ge"} ->
            IF NULL \in {a, b} THEN NULL
            ELSE CASE fn = "eq" -> a = b
                   [] fn = "ne" -> a # b
                   [] fn = "lt" -> a < b
                   [] fn = "le" -> a <= b
                   [] fn = "gt" -> a > b
                   [] fn = "ge" -> a >= b

(* External: the other methods of expressions, as the libraries document    *)
(* them; pyarrow's isin answers false for a null, ibis compiles isin and    *)
(* notin to SQL.                                                            *)
Method(fn, v) ==
    CASE fn = "invert" -> Not3(v[1])
      [] fn = "is_null" -> v[1] = NULL
      [] fn = "is_valid" -> v[1] # NULL
      [] fn = "between" -> Between3(v[1], v[2], v[3])
      [] OTHER -> PyOperator(fn, v[1], v[2])
PyArrowIn(a, list) == a \in list
IbisIn(fn, a, list) == IF fn = "isin" THEN In3(a, list) ELSE Not3(In3(a, list))

(* The ? operator: an argument that failed is the result.                   *)
CallUnlessError(fn, args) ==
    IF Failed(args) THEN Unsupported
    ELSE <<[x \in Values |-> Method(fn, [i \in DOMAIN args |-> args[i][1][x]])]>>

operator_to_py ==
    [Eq |-> "eq", NotEq |-> "ne", Lt |-> "lt", LtEq |-> "le", Gt |-> "gt",
     GtEq |-> "ge", And |-> "and_", Or |-> "or_"]

Scalar(v) == IF v = NULL THEN Unsupported ELSE <<[x \in Values |-> v]>>

(* extract_scalar_list fails on the first element that is a NULL literal.   *)
NoScalars(list) == NULL \in list

Inverted(negated, t) == IF negated THEN CallUnlessError("invert", <<t>>) ELSE t

(* The cases that the two translations share; T has the translations of the *)
(* parts.                                                                   *)
Shared(T, e) ==
    CASE e.op = "col" -> <<[x \in Values |-> x]>>
      [] e.op = "lit" -> Scalar(e.val)
      [] e.op = "bin" ->
            IF e.sym \in DOMAIN operator_to_py
            THEN CallUnlessError(operator_to_py[e.sym], <<T[e.left], T[e.right]>>)
            ELSE Unsupported
      [] e.op = "not" -> Inverted(TRUE, T[e.arg])
      [] e.op = "isnull" -> CallUnlessError("is_null", <<T[e.arg]>>)
      [] e.op = "isnotnull" -> CallUnlessError("is_valid", <<T[e.arg]>>)
      [] e.op = "opaque" -> Unsupported

(* PyArrowFilterExpression::try_from.                                       *)
PyArrowOf(T, e) ==
    CASE e.op = "between" ->
            LET a == T[e.arg]
            IN Inverted(e.negated,
                   CallUnlessError("and_", <<CallUnlessError("le", <<T[e.low], a>>),
                                             CallUnlessError("le", <<a, T[e.high]>>)>>))
      [] e.op = "in" ->
            Inverted(e.negated,
                IF NoScalars(e.list) \/ T[e.arg] = Unsupported THEN Unsupported
                ELSE <<[x \in Values |-> PyArrowIn(T[e.arg][1][x], e.list)]>>)
      [] OTHER -> Shared(T, e)
PyArrow[e \in Expressions] == PyArrowOf(PyArrow, e)

(* IbisFilterExpression::try_from.  A negated IN becomes isin and a plain   *)
(* one notin, as the code has it.  Faulty variant: the bounds of a BETWEEN  *)
(* are swapped.                                                             *)
IbisInList(T, e) ==
    IF NoScalars(e.list) \/ T[e.arg] = Unsupported THEN Unsupported
    ELSE <<[x \in Values |->
            IbisIn(IF e.negated THEN "isin" ELSE "notin", T[e.arg][1][x], e.list)]>>
IbisSwapsBounds(T, e) ==
    CASE e.op = "between" ->
            Inverted(e.negated, CallUnlessError("between", <<T[e.arg], T[e.high], T[e.low]>>))
      [] e.op = "in" -> IbisInList(T, e)
      [] OTHER -> Shared(T, e)
IbisOf(T, e) ==
    CASE e.op = "between" ->
            Inverted(e.negated, CallUnlessError("between", <<T[e.arg], T[e.low], T[e.high]>>))
      [] e.op = "in" -> IbisInList(T, e)
      [] OTHER -> Shared(T, e)
Ibis[e \in Expressions] == IbisOf(Ibis, e)

Translation(e) == IF kind = "dataset" THEN PyArrow[e] ELSE Ibis[e]

-----------------------------------------------------------------------------
filters == query.filters
Pushed == {i \in DOMAIN verdict : verdict[i] = "Exact"}

(* A row passes when every pushed filter is true of it: a null drops it.    *)
(* The planner's conjunction is Kleene, so the order does not matter.       *)
Passes(pushed, x) == \A i \in pushed : Translation(filters[i])[1][x] = TRUE

Init ==
    /\ kind \in Kinds
    /\ query \in Queries[kind]
    /\ verdict = <<>>
    /\ phase = "planning"
    /\ rows = {}

(* supports_filters_pushdown: each filter is translated on its own.  Faulty *)
(* variants: every filter is accepted; only the first one is answered.      *)
AnswersFirstOnly ==
    /\ phase = "planning"
    /\ verdict' = <<"Exact">>
    /\ phase' = "planned"
    /\ UNCHANGED <<kind, query, rows>>

AcceptsAll ==
    /\ phase = "planning"
    /\ verdict' = [i \in DOMAIN filters |-> "Exact"]
    /\ phase' = "planned"
    /\ UNCHANGED <<kind, query, rows>>

SupportsFiltersPushdown ==
    /\ phase = "planning"
    /\ verdict' = [i \in DOMAIN filters |->
                      IF Translation(filters[i]) = Unsupported THEN "Unsupported" ELSE "Exact"]
    /\ phase' = "planned"
    /\ UNCHANGED <<kind, query, rows>>

(* scan translates the pushed filters again.  Dataset fails the query on a  *)
(* filter it cannot translate, the ibis path unwraps the result and panics. *)
(* A user's scan() is taken to apply the filters it is given.               *)
Scan ==
    /\ phase = "planned"
    /\ IF \E i \in Pushed : Translation(filters[i]) = Unsupported
       THEN /\ phase' = IF kind = "dataset" THEN "failed" ELSE "panicked"
            /\ UNCHANGED rows
       ELSE /\ phase' = "scanned"
            /\ rows' = {x \in query.table : Passes(Pushed, x)}
    /\ UNCHANGED <<kind, query, verdict>>

(* The planner's FilterExec evaluates the filters that were not pushed.     *)
FilterExec ==
    /\ phase = "scanned"
    /\ rows' = {x \in rows : \A i \in DOMAIN filters \ Pushed : Sql[filters[i]][x] = TRUE}
    /\ phase' = "done"
    /\ UNCHANGED <<kind, query, verdict>>

Next == SupportsFiltersPushdown \/ Scan \/ FilterExec

Spec == Init /\ [][Next]_vars

-----------------------------------------------------------------------------
(* e has no IN list that translates.                                        *)
WithoutInOf(f, e) == (e.op = "in" => NoScalars(e.list)) /\ \A d \in Parts(e) : f[d]
WithoutIn[e \in Expressions] == WithoutInOf(WithoutIn, e)

(* Every IN list of e is asked for, through AND and OR only: nothing tells  *)
(* whether it is false of a row or null.                                    *)
AsksForInOf(f, e) ==
    \/ WithoutIn[e]
    \/ e.op = "in" /\ ~e.negated /\ WithoutIn[e.arg]
    \/ e.op = "bin" /\ e.sym \in {"And", "Or"} /\ f[e.left] /\ f[e.right]
AsksForIn[e \in Expressions] == AsksForInOf(AsksForIn, e)

(* The queries whose pushed filters mean what they mean to SQL: without IN  *)
(* lists, which ibis is asked for the wrong way round, and, where the       *)
(* column is null, without those that pyarrow's false for a null decides.   *)
Faithful(k, q) ==
    \A i \in DOMAIN q.filters :
        IF k = "dataset" THEN NULL \notin q.table \/ AsksForIn[q.filters[i]]
        ELSE WithoutIn[q.filters[i]]

-----------------------------------------------------------------------------
(* Types of the planning state.                                             *)
TypeOK ==
    /\ kind \in Kinds
    /\ DOMAIN query = {"table", "filters"}
    /\ DOMAIN verdict \in {{}, DOMAIN filters}
    /\ \A i \in DOMAIN verdict : verdict[i] \in {"Exact", "Unsupported"}
    /\ phase \in {"planning", "planned", "scanned", "done", "failed", "panicked"}
    /\ rows \subseteq query.table

(* The rows SQL asks for.                                                   *)
Wanted == {x \in query.table : \A i \in DOMAIN filters : Sql[filters[i]][x] = TRUE}

(* Answering Exact is a promise: DataFusion does not evaluate the filter    *)
(* again, so the rows of a finished query are those SQL asks for, whichever *)
(* of its filters were taken over by the source.                            *)
PushdownExact == phase = "done" => rows = Wanted

(* A pushed filter is translatable when scan meets it: neither the error of *)
(* DatasetExec::new nor the unwrap in IbisTable::scan and                   *)
(* PyTableProvider::scan is reached.                                        *)
ScanSucceeds == phase \notin {"failed", "panicked"}
=============================================================================
