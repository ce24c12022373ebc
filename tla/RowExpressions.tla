--------------------------- MODULE RowExpressions ---------------------------
(***************************************************************************)
(* What a Python client learns of an engine expression.  PyExpr offers two *)
(* readings of a node: rex_type, rex_call_operator and rex_call_operands   *)
(* on the one hand, the wrapper class of to_variant on the other; types    *)
(* gives a node's DataTypeMap.  The client here walks an expression to the *)
(* columns it uses, as a planner on top of these calls does, and converts  *)
(* types it met from one system to another.  A call that fails raises and  *)
(* changes nothing; the walk gives up on operands that are refused.        *)
(***************************************************************************)
EXTENDS Integers, Sequences, DataTypes

CONSTANTS
    NULL,           \* the missing value
    Expressions,    \* expressions to walk
    Nodes,          \* the nodes of expressions, and of the operands they are told to have
    Height,         \* Height[e]: the height of a node as a tree
    Rows            \* rows to compare meanings on: functions from columns to values

VARIABLES
    root,       \* the expression that is walked
    todo,       \* nodes to visit, next first
    found,      \* references met
    phase,      \* "walking", "done" or "refused"
    map,        \* DataTypeMap the client has, or Error
    given,      \* Python type of the DataTypeMap the client began with
    throughSql  \* the DataTypeMap has come from a SQL type

vars == <<root, todo, found, phase, map, given, throughSql>>
typeVars == <<map, given, throughSql>>

-----------------------------------------------------------------------------
(* Nodes: the variant, its operands, the base of a CASE, the clauses of an  *)
(* aggregate or window function (FILTER, ORDER BY, PARTITION BY) or the     *)
(* outer columns of a subquery, and the attributes that variants carry: opt *)
(* is the escape character of LIKE and SIMILAR TO, the null treatment of an *)
(* aggregate or window function and the parameters of a lambda.             *)
Node(v, args) ==
    [v |-> v, args |-> args, base |-> <<>>, clauses |-> <<>>, name |-> v, neg |-> FALSE,
     ci |-> FALSE, opt |-> NULL, val |-> NULL, type |-> Arrow("Null")]

(* The nodes right below e, and those of them outside its clauses.          *)
OperandParts(e) == {e.args[i] : i \in DOMAIN e.args} \cup {e.base[i] : i \in DOMAIN e.base}
Parts(e) == OperandParts(e) \cup {e.clauses[i] : i \in DOMAIN e.clauses}

Leaves == {"Column", "ScalarVariable", "Literal", "LambdaVariable"}
Tests ==
    {"IsNull", "IsNotNull", "IsTrue", "IsFalse", "IsUnknown", "IsNotTrue", "IsNotFalse",
     "IsNotUnknown"}
Unimplemented ==
    {"GroupingSet", "Unnest", "OuterReferenceColumn", "Wildcard", "ScalarSubquery",
     "Placeholder", "Exists", "SetComparison"}

(* Faulty variant: a column is a call, the operand of itself.               *)
ColumnIsCall(e) ==
    CASE e.v = "Alias" -> "Alias"
      [] e.v = "LambdaVariable" -> "Reference"
      [] e.v \in {"ScalarVariable", "Literal"} -> "Literal"
      [] e.v = "ScalarSubquery" -> "ScalarSubquery"
      [] OTHER -> "Call"

rex_type(e) ==
    CASE e.v = "Alias" -> "Alias"
      [] e.v \in {"Column", "LambdaVariable"} -> "Reference"
      [] e.v \in {"ScalarVariable", "Literal"} -> "Literal"
      [] e.v = "ScalarSubquery" -> "ScalarSubquery"
      [] OTHER -> "Call"

(* The arguments of a CASE are when, then, when, then, ... and perhaps the  *)
(* else.  Its whens become comparisons with the base, if it has one.        *)
IsWhen(e, i) == i % 2 = 1 /\ i < Len(e.args)
CaseOperands(e) ==
    [i \in DOMAIN e.args |->
        IF e.base # <<>> /\ IsWhen(e, i)
        THEN [Node("BinaryExpr", <<e.base[1], e.args[i]>>) EXCEPT !.name = "Eq"]
        ELSE e.args[i]]

Refused == <<Node("refused", <<>>)>>

(* Faulty variant: the else of a CASE is left out.                          *)
OperandsWithoutElse(e) ==
    CASE e.v \in Unimplemented -> Refused
      [] e.v \in Leaves -> <<e>>
      [] e.v = "Case" -> SubSeq(CaseOperands(e), 1, (Len(e.args) \div 2) * 2)
      [] OTHER -> e.args

rex_call_operands(e) ==
    CASE e.v \in Unimplemented -> Refused
      [] e.v \in Leaves -> <<e>>
      [] e.v = "Case" -> CaseOperands(e)
      [] OTHER -> e.args

(* The operator's name tells the symbol or function, a negated LIKE from a  *)
(* plain one and ILIKE from LIKE, but not NOT BETWEEN from BETWEEN, nor NOT *)
(* IN from IN, nor the type of a CAST, an escape character or a lambda's    *)
(* parameters.  Faulty variant: LIKE is told without its negation.          *)
Operators ==
    {"BinaryExpr", "ScalarFunction", "HigherOrderFunction", "Lambda", "Cast", "Between", "Case",
     "InList", "Negative", "Not", "Like", "SimilarTo"} \cup Tests
NoOperator == [v |-> "refused"]

OperatorWithoutNot(e) ==
    IF e.v \notin Operators THEN NoOperator
    ELSE [v |-> e.v, name |-> e.name, neg |-> FALSE, ci |-> e.v = "Like" /\ e.ci,
          opt |-> NULL, type |-> Arrow("Null")]

rex_call_operator(e) ==
    IF e.v \notin Operators THEN NoOperator
    ELSE [v |-> e.v, name |-> e.name, neg |-> e.v \in {"Like", "SimilarTo"} /\ e.neg,
          ci |-> e.v = "Like" /\ e.ci, opt |-> NULL, type |-> Arrow("Null")]

(* to_variant: the wrapper's getters give the node's parts as they are, but *)
(* Like does not tell ILIKE, and AggregateFunction has no getter for the    *)
(* clauses and the null treatment.                                          *)
PyLike(e) == [e EXCEPT !.ci = FALSE]
PyAggregateFunction(e) == [e EXCEPT !.clauses = <<>>, !.opt = NULL]
Wrapped ==
    {"Alias", "Column", "ScalarVariable", "Like", "Literal", "BinaryExpr", "Not", "Negative",
     "Cast", "Case", "Wildcard", "AggregateFunction"} \cup Tests
to_variant(e) ==
    CASE e.v \notin Wrapped -> NoOperator
      [] e.v = "Like" -> PyLike(e)
      [] e.v = "AggregateFunction" -> PyAggregateFunction(e)
      [] OTHER -> e

BooleanOperators ==
    {"Eq", "NotEq", "Lt", "LtEq", "Gt", "GtEq", "And", "Or", "IsDistinctFrom",
     "IsNotDistinctFrom", "RegexMatch", "RegexIMatch", "RegexNotMatch", "RegexNotIMatch",
     "LikeMatch", "ILikeMatch", "NotLikeMatch", "NotILikeMatch"}
BitwiseOperators ==
    {"BitwiseShiftLeft", "BitwiseShiftRight", "BitwiseXor", "BitwiseAnd", "BitwiseOr"}
_types(e) ==
    CASE e.v = "BinaryExpr" ->
            CASE e.name \in BooleanOperators -> map_from_arrow_type(Arrow("Boolean"))
              [] e.name \in {"Plus", "Minus", "Multiply", "Modulo"} ->
                    map_from_arrow_type(Arrow("Int64"))
              [] e.name = "Divide" -> map_from_arrow_type(Arrow("Float64"))
              [] e.name = "StringConcat" -> map_from_arrow_type(Arrow("Utf8"))
              [] e.name \in BitwiseOperators ->
                    map_from_arrow_type(Arrow("Binary"))
              [] OTHER -> Error
      [] e.v = "Cast" -> map_from_arrow_type(e.type)
      [] e.v = "Literal" -> map_from_scalar_value(e.type)
      [] OTHER -> Error

(* The engine's expressions: a leaf has no parts, only a CASE has a base,   *)
(* and it has a when; the operands of a CASE are expressions too.           *)
ASSUME NodesAssumption ==
    /\ Expressions \subseteq Nodes
    /\ \A e \in Nodes :
        /\ DOMAIN e = {"v", "args", "base", "clauses", "name", "neg", "ci", "opt", "val", "type"}
        /\ e.args \in Seq(Nodes) /\ e.base \in Seq(Nodes) /\ Len(e.base) <= 1
        /\ e.clauses \in Seq(Nodes)
        /\ e.clauses # <<>> => e.v \in {"AggregateFunction", "WindowFunction", "InSubquery"}
        /\ e.type # Arrow("Null") => e.v \in {"Cast", "TryCast", "Literal"}
        /\ e.neg \in BOOLEAN /\ e.ci \in BOOLEAN /\ e.type \in ArrowTypes
        /\ e.ci => e.v = "Like"
        /\ e.base # <<>> => e.v = "Case"
        /\ e.v \in Leaves => e.args = <<>>
        /\ e.v = "Case" => Len(e.args) >= 2 /\ CaseOperands(e) \in Seq(Nodes)
ASSUME HeightAssumption ==
    /\ Height \in [Nodes -> Nat]
    /\ \A e \in Nodes : \A d \in Parts(e) : Height[d] < Height[e]

-----------------------------------------------------------------------------
(* The client.                                                              *)
Init ==
    /\ root \in Expressions
    /\ todo = <<root>>
    /\ found = {}
    /\ phase = "walking"
    /\ map = Error
    /\ given = "none"
    /\ throughSql = FALSE

Here == Head(todo)
Visiting == phase = "walking" /\ todo # <<>>

(* The client keeps the type of the node it visits, when there is one.      *)
KeepTypes ==
    /\ map' = _types(Here)
    /\ given' = _types(Here).python
    /\ UNCHANGED throughSql

VisitReference ==
    /\ Visiting /\ rex_type(Here) = "Reference"
    /\ found' = found \cup {Here.name}
    /\ todo' = Tail(todo)
    /\ KeepTypes
    /\ UNCHANGED <<root, phase>>

VisitLiteral ==
    /\ Visiting /\ rex_type(Here) = "Literal"
    /\ todo' = Tail(todo)
    /\ KeepTypes
    /\ UNCHANGED <<root, found, phase>>

VisitCall ==
    /\ Visiting /\ rex_type(Here) \in {"Call", "Alias"}
    /\ rex_call_operands(Here) # Refused
    /\ todo' = rex_call_operands(Here) \o Tail(todo)
    /\ KeepTypes
    /\ UNCHANGED <<root, found, phase>>

VisitRefused ==
    /\ Visiting /\ rex_type(Here) \in {"Call", "Alias", "ScalarSubquery"}
    /\ rex_call_operands(Here) = Refused
    /\ phase' = "refused"
    /\ UNCHANGED <<root, todo, found, typeVars>>

Visit == VisitReference \/ VisitLiteral \/ VisitCall \/ VisitRefused

Finish ==
    /\ phase = "walking" /\ todo = <<>>
    /\ phase' = "done"
    /\ UNCHANGED <<root, todo, found, typeVars>>

(* After the walk: a type from a SQL type or a name ...                     *)
Ask ==
    /\ phase = "done" /\ map = Error
    /\ \E m \in {py_map_from_sql_type(s) : s \in SqlTypes}
                \cup {py_map_from_arrow_type_str(n) : n \in DOMAIN ArrowOfName \cup {"other"}}
                \cup {py_map_from_parquet_type_str(n) : n \in DOMAIN ArrowOfParquet \cup {"other"}} :
        /\ Ok(m)
        /\ map' = m
        /\ given' = m.python
    /\ UNCHANGED <<root, todo, found, phase, throughSql>>

(* ... and conversions of the type it has, by its SQL type, its Arrow type  *)
(* or its name.  Faulty variant: a conversion's failure is not noticed.     *)
FromSqlUnchecked ==
    /\ phase = "done" /\ Ok(map)
    /\ map' = py_map_from_sql_type(map.sql)
    /\ throughSql' = TRUE
    /\ UNCHANGED <<root, todo, found, phase, given>>

FromSql ==
    /\ phase = "done" /\ Ok(map)
    /\ Ok(py_map_from_sql_type(map.sql))
    /\ map' = py_map_from_sql_type(map.sql)
    /\ throughSql' = TRUE
    /\ UNCHANGED <<root, todo, found, phase, given>>

FromArrow ==
    /\ phase = "done" /\ Ok(map)
    /\ Ok(map_from_arrow_type(map.arrow))
    /\ map' = map_from_arrow_type(map.arrow)
    /\ UNCHANGED <<root, todo, found, phase, given, throughSql>>

FromName ==
    /\ phase = "done" /\ Ok(map)
    /\ Ok(py_map_from_arrow_type_str(to_arrow_str(map.arrow)))
    /\ map' = py_map_from_arrow_type_str(to_arrow_str(map.arrow))
    /\ UNCHANGED <<root, todo, found, phase, given, throughSql>>

Next == Visit \/ Finish \/ Ask \/ FromSql \/ FromArrow \/ FromName

Spec == Init /\ [][Next]_vars /\ WF_vars(Visit) /\ WF_vars(Finish)

-----------------------------------------------------------------------------
(* What expressions mean to the engine, in three-valued logic.  A function  *)
(* or symbol without a meaning here is the term of its arguments, clauses,  *)
(* type and option: a CAST to one type differs from a CAST to another.      *)
Not3(a) == IF a = NULL THEN NULL ELSE ~a
Negated(neg, a) == IF neg THEN Not3(a) ELSE a
And3(a, b) ==
    IF FALSE \in {a, b} THEN FALSE ELSE IF NULL \in {a, b} THEN NULL ELSE TRUE
Or3(a, b) == Not3(And3(Not3(a), Not3(b)))
Eq3(a, b) == IF NULL \in {a, b} THEN NULL ELSE a = b
Le3(a, b) == IF NULL \in {a, b} THEN NULL ELSE a <= b

(* Two values are alike when they differ in case only.  A pattern with an   *)
(* escape character is another pattern than without.                        *)
Unescaped(p, escape) == IF NULL \in {p, escape} THEN p ELSE p + 1
Like3(a, p, ci) == IF NULL \in {a, p} THEN NULL ELSE IF ci THEN a % 2 = p % 2 ELSE a = p

In3(a, list) ==
    LET hits == {Eq3(a, list[i]) : i \in DOMAIN list}
    IN IF TRUE \in hits THEN TRUE ELSE IF NULL \in hits THEN NULL ELSE FALSE

(* The first when that is true, or is equal to the base.                    *)
Whens(args) == {i \in 1..(Len(args) - 1) : i % 2 = 1}
Taken(base, args) ==
    LET true == {i \in Whens(args) :
                    (IF base = <<>> THEN args[i] ELSE Eq3(base[1], args[i])) = TRUE}
    IN {i \in true : \A j \in true : i <= j}
Case3(base, args) ==
    IF Taken(base, args) # {} THEN args[(CHOOSE i \in Taken(base, args) : TRUE) + 1]
    ELSE IF Len(args) % 2 = 1 THEN args[Len(args)] ELSE NULL

Test3(v, a) ==
    CASE v \in {"IsNull", "IsUnknown"} -> a = NULL
      [] v \in {"IsNotNull", "IsNotUnknown"} -> a # NULL
      [] v = "IsTrue" -> a = TRUE
      [] v = "IsFalse" -> a = FALSE
      [] v = "IsNotTrue" -> a # TRUE
      [] v = "IsNotFalse" -> a # FALSE

Apply(op, base, clauses, args) ==
    CASE op.v \in Tests -> Test3(op.v, args[1])
      [] op.v = "Not" -> Not3(args[1])
      [] op.v = "Alias" -> args[1]
      [] op.v \in {"Like", "SimilarTo"} ->
            Negated(op.neg, Like3(args[1], Unescaped(args[2], op.opt), op.ci))
      [] op.v = "Between" ->
            Negated(op.neg, And3(Le3(args[2], args[1]), Le3(args[1], args[3])))
      [] op.v = "InList" -> Negated(op.neg, In3(args[1], Tail(args)))
      [] op.v = "Case" -> Case3(base, args)
      [] op.v = "BinaryExpr" /\ op.name = "And" -> And3(args[1], args[2])
      [] op.v = "BinaryExpr" /\ op.name = "Or" -> Or3(args[1], args[2])
      [] op.v = "BinaryExpr" /\ op.name = "Eq" -> Eq3(args[1], args[2])
      [] OTHER -> <<op.name, op.type, op.opt, clauses, args>>

(* f has the meaning of the parts of e, and their references below.         *)
Meaning(f, e) == [row \in Rows |->
    CASE e.v \in {"Column", "LambdaVariable"} -> row[e.name]
      [] e.v \in {"Literal", "ScalarVariable"} -> e.val
      [] OTHER -> Apply(e, [i \in DOMAIN e.base |-> f[e.base[i]][row]],
                        [i \in DOMAIN e.clauses |-> f[e.clauses[i]][row]],
                        [i \in DOMAIN e.args |-> f[e.args[i]][row]])]
Sql[e \in Nodes] == Meaning(Sql, e)

ReferencesOf(f, e) ==
    IF e.v \in {"Column", "LambdaVariable"} THEN {e.name} ELSE UNION {f[d] : d \in Parts(e)}
References[e \in Nodes] == ReferencesOf(References, e)

(* The references of e that stand outside all clauses.                      *)
OperandReferencesOf(f, e) ==
    IF e.v \in {"Column", "LambdaVariable"} THEN {e.name}
    ELSE UNION {f[d] : d \in OperandParts(e)}
OperandReferences[e \in Nodes] == OperandReferencesOf(OperandReferences, e)

Values(exprs, row) == [i \in DOMAIN exprs |-> Sql[exprs[i]][row]]

-----------------------------------------------------------------------------
(* Types of the client's state: a type it has is an entry of all three      *)
(* systems.                                                                 *)
TypeOK ==
    /\ root \in Expressions
    /\ phase \in {"walking", "done", "refused"}
    /\ found \subseteq References[root]
    /\ throughSql \in BOOLEAN
    /\ throughSql => Ok(map)
    /\ Ok(map) => /\ map.arrow \in ArrowTypes
                  /\ map.python \in PythonTypes
                  /\ map.sql \in SqlTypes

(* A walk along rex_call_operands that is not refused meets every column    *)
(* that stands in a part of a CASE, a list or a call, at any depth.  What   *)
(* it misses stands in clauses only: the operands of aggregate and window   *)
(* functions are their arguments, without FILTER, ORDER BY or PARTITION BY, *)
(* and those of IN (subquery) leave out the subquery's outer columns.       *)
WalkFindsColumns == phase = "done" => found = OperandReferences[root]

(* The walk ends, although the operand of a leaf is the leaf itself:        *)
(* rex_type tells every such node from a call.                              *)
WalkEnds == <>(phase # "walking")

(* What a reading hides, so that another node reads the same: the operator, *)
(* NOT of BETWEEN and IN, the type of a CAST, an escape character and the   *)
(* parameters of a lambda; the wrapper, that a LIKE is an ILIKE, and the    *)
(* clauses and the null treatment of an aggregate function.                 *)
OperatorHides(e) ==
    \/ e.v \in {"Between", "InList"} /\ e.neg
    \/ e.v = "Cast"
    \/ e.opt # NULL
WrapperHides(e) ==
    \/ e.ci
    \/ e.v = "AggregateFunction" /\ (e.clauses # <<>> \/ e.opt # NULL)

(* Both readings of a node that hide nothing mean what the node means: the  *)
(* operator with its operands, which are other nodes for a CASE with a      *)
(* base, and the wrapper with its parts.                                    *)
ReadingsKeepMeaning ==
    Visiting /\ Here.v \notin Leaves =>
        LET op == rex_call_operator(Here)
            operands == rex_call_operands(Here)
            wrapper == to_variant(Here)
        IN \A row \in Rows :
            /\ op # NoOperator /\ operands # Refused /\ ~OperatorHides(Here)
               => Apply(op, <<>>, <<>>, Values(operands, row)) = Sql[Here][row]
            /\ wrapper # NoOperator /\ ~WrapperHides(Here)
               => Apply(wrapper, Values(wrapper.base, row), Values(wrapper.clauses, row),
                        Values(wrapper.args, row)) = Sql[Here][row]

(* However often a type is converted between Arrow, SQL and names, the      *)
(* Python type of its values stays the same.                                *)
PythonTypeStable == Ok(map) => map.python = given

(* A type that came from a SQL type has an Arrow type and a SQL type that   *)
(* can be converted again: a client that converts in circles is not stuck.  *)
SqlClosed ==
    throughSql => /\ Ok(map_from_arrow_type(map.arrow))
                  /\ Ok(py_map_from_sql_type(map.sql))
=============================================================================
