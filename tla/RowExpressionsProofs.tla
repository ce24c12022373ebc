------------------------ MODULE RowExpressionsProofs ------------------------
(***************************************************************************)
(* Theorems about RowExpressions, for expressions of any size and any      *)
(* rows.                                                                   *)
(***************************************************************************)
EXTENDS RowExpressions, TLAPS

(* Nothing is shown by induction in these instances: the recursive          *)
(* definitions have the values they say.                                    *)
Anything(e) == TRUE

SqlRec == INSTANCE Recursion WITH Def <- Meaning, Holds <- Anything
ReferencesRec == INSTANCE Recursion WITH Def <- ReferencesOf, Holds <- Anything
OperandReferencesRec == INSTANCE Recursion WITH Def <- OperandReferencesOf, Holds <- Anything

LEMMA PartsAre ==
    ASSUME NEW e \in Nodes
    PROVE  /\ \A i \in DOMAIN e.args : e.args[i] \in Nodes /\ e.args[i] \in Parts(e)
           /\ \A i \in DOMAIN e.base : e.base[i] \in Nodes /\ e.base[i] \in Parts(e)
           /\ \A i \in DOMAIN e.clauses : e.clauses[i] \in Nodes /\ e.clauses[i] \in Parts(e)
           /\ Parts(e) \subseteq Nodes
           /\ OperandParts(e) \subseteq Parts(e)
<1>1. e.args \in Seq(Nodes) /\ e.base \in Seq(Nodes) /\ e.clauses \in Seq(Nodes)
    BY NodesAssumption
<1> QED
    BY <1>1 DEF Parts, OperandParts

LEMMA SqlIs == \A e \in Nodes : Sql[e] = Meaning(Sql, e)
<1>1. SqlRec!Finite
    BY HeightAssumption, PartsAre DEF SqlRec!Finite
<1>2. SqlRec!Local
  <2> SUFFICES ASSUME NEW f, NEW g, NEW e \in Nodes, \A d \in Parts(e) : f[d] = g[d]
               PROVE  Meaning(f, e) = Meaning(g, e)
    BY DEF SqlRec!Local
  <2>1. ASSUME NEW row
        PROVE  /\ [i \in DOMAIN e.base |-> f[e.base[i]][row]]
                    = [i \in DOMAIN e.base |-> g[e.base[i]][row]]
               /\ [i \in DOMAIN e.clauses |-> f[e.clauses[i]][row]]
                    = [i \in DOMAIN e.clauses |-> g[e.clauses[i]][row]]
               /\ [i \in DOMAIN e.args |-> f[e.args[i]][row]]
                    = [i \in DOMAIN e.args |-> g[e.args[i]][row]]
    BY PartsAre
  <2> QED
    BY <2>1 DEF Meaning
<1>3. Sql = SqlRec!Value
    BY DEF Sql, SqlRec!Value
<1>4. Sql = [e \in Nodes |-> Meaning(Sql, e)]
    BY <1>1, <1>2, <1>3, SqlRec!ValueIs
<1> QED
    BY <1>4

LEMMA ReferencesIs == \A e \in Nodes : References[e] = ReferencesOf(References, e)
<1>1. ReferencesRec!Finite
    BY HeightAssumption, PartsAre DEF ReferencesRec!Finite
<1>2. ReferencesRec!Local
  <2> SUFFICES ASSUME NEW f, NEW g, NEW e \in Nodes, \A d \in Parts(e) : f[d] = g[d]
               PROVE  ReferencesOf(f, e) = ReferencesOf(g, e)
    BY DEF ReferencesRec!Local
  <2>1. {f[d] : d \in Parts(e)} = {g[d] : d \in Parts(e)}
    OBVIOUS
  <2> QED
    BY <2>1 DEF ReferencesOf
<1>3. References = ReferencesRec!Value
    BY DEF References, ReferencesRec!Value
<1>4. References = [e \in Nodes |-> ReferencesOf(References, e)]
    BY <1>1, <1>2, <1>3, ReferencesRec!ValueIs
<1> QED
    BY <1>4

LEMMA OperandReferencesIs == \A e \in Nodes : OperandReferences[e] = OperandReferencesOf(OperandReferences, e)
<1>1. OperandReferencesRec!Finite
    BY HeightAssumption, PartsAre DEF OperandReferencesRec!Finite
<1>2. OperandReferencesRec!Local
  <2> SUFFICES ASSUME NEW f, NEW g, NEW e \in Nodes, \A d \in Parts(e) : f[d] = g[d]
               PROVE  OperandReferencesOf(f, e) = OperandReferencesOf(g, e)
    BY DEF OperandReferencesRec!Local
  <2>1. {f[d] : d \in OperandParts(e)} = {g[d] : d \in OperandParts(e)}
    BY PartsAre
  <2> QED
    BY <2>1 DEF OperandReferencesOf
<1>3. OperandReferences = OperandReferencesRec!Value
    BY DEF OperandReferences, OperandReferencesRec!Value
<1>4. OperandReferences = [e \in Nodes |-> OperandReferencesOf(OperandReferences, e)]
    BY <1>1, <1>2, <1>3, OperandReferencesRec!ValueIs
<1> QED
    BY <1>4

(* References outside clauses are references.                               *)
WithinReferences(e) == OperandReferences[e] \subseteq References[e]

WithinRec == INSTANCE Recursion WITH Def <- ReferencesOf, Holds <- WithinReferences

LEMMA OperandReferencesWithin == \A e \in Nodes : OperandReferences[e] \subseteq References[e]
<1>1. WithinRec!Finite
    BY HeightAssumption, PartsAre DEF WithinRec!Finite
<1>2. WithinRec!Inductive
  <2> SUFFICES ASSUME NEW e \in Nodes,
                      \A d \in Parts(e) : OperandReferences[d] \subseteq References[d]
               PROVE  OperandReferences[e] \subseteq References[e]
    BY DEF WithinRec!Inductive, WithinReferences
  <2>1. /\ References[e] = ReferencesOf(References, e)
        /\ OperandReferences[e] = OperandReferencesOf(OperandReferences, e)
    BY ReferencesIs, OperandReferencesIs
  <2>2. OperandParts(e) \subseteq Parts(e)
    BY PartsAre
  <2> QED
    BY <2>1, <2>2 DEF ReferencesOf, OperandReferencesOf
<1>3. \A e \in Nodes : WithinReferences(e)
    BY <1>1, <1>2, WithinRec!Induction
<1> QED
    BY <1>3 DEF WithinReferences

-----------------------------------------------------------------------------
(* The walk.                                                                *)

(* What is referred to by the expressions of a sequence.                    *)
Referred(r, s) == \E i \in DOMAIN s : r \in OperandReferences[s[i]]

LEMMA OperandReferencesAt ==
    ASSUME NEW e \in Nodes, NEW r
    PROVE  r \in OperandReferences[e] <=>
              IF e.v \in {"Column", "LambdaVariable"} THEN r = e.name
              ELSE Referred(r, e.args) \/ Referred(r, e.base)
<1>1. OperandReferences[e] = OperandReferencesOf(OperandReferences, e)
    BY OperandReferencesIs
<1> QED
    BY <1>1 DEF OperandReferencesOf, OperandParts, Referred

LEMMA ReferredIn ==
    ASSUME NEW s \in Seq(Nodes), NEW t \in Seq(Nodes), NEW r
    PROVE  /\ Referred(r, s \o t) <=> Referred(r, s) \/ Referred(r, t)
           /\ s # <<>> => (Referred(r, s) <=> r \in OperandReferences[Head(s)] \/ Referred(r, Tail(s)))
<1>1. Referred(r, s \o t) <=> Referred(r, s) \/ Referred(r, t)
  <2>1. ASSUME Referred(r, s \o t) PROVE Referred(r, s) \/ Referred(r, t)
    <3>1. PICK i \in 1..(Len(s) + Len(t)) : r \in OperandReferences[(s \o t)[i]]
      BY <2>1 DEF Referred
    <3>2. CASE i <= Len(s)
      BY <3>1, <3>2 DEF Referred
    <3>3. CASE i > Len(s)
      <4>1. i - Len(s) \in DOMAIN t /\ (s \o t)[i] = t[i - Len(s)]
        BY <3>1, <3>3
      <4> QED
        BY <3>1, <4>1 DEF Referred
    <3> QED
      BY <3>2, <3>3
  <2>2. ASSUME NEW i \in DOMAIN s, r \in OperandReferences[s[i]] PROVE Referred(r, s \o t)
    <3>1. i \in DOMAIN (s \o t) /\ (s \o t)[i] = s[i]
      OBVIOUS
    <3> QED
      BY <2>2, <3>1 DEF Referred
  <2>3. ASSUME NEW i \in DOMAIN t, r \in OperandReferences[t[i]] PROVE Referred(r, s \o t)
    <3>1. Len(s) + i \in DOMAIN (s \o t) /\ (s \o t)[Len(s) + i] = t[i]
      OBVIOUS
    <3> QED
      BY <2>3, <3>1 DEF Referred
  <2> QED
    BY <2>1, <2>2, <2>3 DEF Referred
<1>2. ASSUME s # <<>>
      PROVE  Referred(r, s) <=> r \in OperandReferences[Head(s)] \/ Referred(r, Tail(s))
  <2>1. Head(s) = s[1] /\ 1 \in DOMAIN s /\ DOMAIN Tail(s) = 1..(Len(s) - 1)
    BY <1>2
  <2>2. ASSUME NEW i \in DOMAIN s, i # 1 PROVE i - 1 \in DOMAIN Tail(s) /\ Tail(s)[i - 1] = s[i]
    BY <1>2, <2>2
  <2>3. ASSUME NEW i \in DOMAIN Tail(s) PROVE i + 1 \in DOMAIN s /\ Tail(s)[i] = s[i + 1]
    BY <1>2, <2>1
  <2> QED
    BY <2>1, <2>2, <2>3 DEF Referred
<1> QED
    BY <1>1, <1>2

(* The comparison that stands for a when of a CASE with a base.             *)
Equation(e, i) == [Node("BinaryExpr", <<e.base[1], e.args[i]>>) EXCEPT !.name = "Eq"]

LEMMA EquationIs ==
    ASSUME NEW e, NEW i
    PROVE  /\ Equation(e, i).v = "BinaryExpr" /\ Equation(e, i).name = "Eq"
           /\ Equation(e, i).args = <<e.base[1], e.args[i]>>
           /\ Equation(e, i).base = <<>>
    BY DEF Equation, Node

LEMMA CaseOperandsAre ==
    ASSUME NEW e \in Nodes, e.v = "Case"
    PROVE  /\ DOMAIN CaseOperands(e) = DOMAIN e.args
           /\ CaseOperands(e) \in Seq(Nodes)
           /\ e.base = <<>> => CaseOperands(e) = e.args
           /\ \A i \in DOMAIN e.args :
                 CaseOperands(e)[i] = IF e.base # <<>> /\ IsWhen(e, i) THEN Equation(e, i)
                                      ELSE e.args[i]
<1>1. e.args \in Seq(Nodes) /\ CaseOperands(e) \in Seq(Nodes)
    BY NodesAssumption
<1>2. ASSUME e.base = <<>> PROVE CaseOperands(e) = e.args
  <2>1. CaseOperands(e) = [i \in DOMAIN e.args |-> e.args[i]]
    BY <1>2 DEF CaseOperands
  <2> QED
    BY <1>1, <2>1
<1> QED
    BY <1>1, <1>2 DEF CaseOperands, Equation

(* The operands of a node refer to what the node refers to outside clauses. *)
LEMMA OperandsRefer ==
    ASSUME NEW e \in Nodes, NEW r, e.v \notin Unimplemented, e.v \notin Leaves
    PROVE  /\ rex_call_operands(e) \in Seq(Nodes)
           /\ Referred(r, rex_call_operands(e)) <=> r \in OperandReferences[e]
<1>0. /\ e.args \in Seq(Nodes) /\ e.base \in Seq(Nodes)
      /\ e.base # <<>> => e.v = "Case"
      /\ e.v = "Case" => Len(e.args) >= 2
    BY NodesAssumption
<1>1. r \in OperandReferences[e] <=> Referred(r, e.args) \/ Referred(r, e.base)
    BY OperandReferencesAt DEF Leaves
<1>2. CASE e.base = <<>>
  <2>1. rex_call_operands(e) = e.args
    BY <1>2, CaseOperandsAre DEF rex_call_operands
  <2>2. ~Referred(r, e.base)
    BY <1>2 DEF Referred
  <2> QED
    BY <1>0, <1>1, <2>1, <2>2
<1>3. CASE e.base # <<>>
  <2>1. e.v = "Case"
    BY <1>0, <1>3
  <2>2. rex_call_operands(e) = CaseOperands(e) /\ CaseOperands(e) \in Seq(Nodes)
    BY <2>1, CaseOperandsAre DEF rex_call_operands
  <2>3. 1 \in DOMAIN e.args /\ IsWhen(e, 1)
    BY <1>0, <2>1 DEF IsWhen
  <2>4. ASSUME NEW i \in DOMAIN e.args
        PROVE  r \in OperandReferences[CaseOperands(e)[i]] <=>
                  \/ r \in OperandReferences[e.args[i]]
                  \/ IsWhen(e, i) /\ r \in OperandReferences[e.base[1]]
    <3>1. CASE IsWhen(e, i)
      <4>1. CaseOperands(e)[i] = Equation(e, i) /\ Equation(e, i) \in Nodes
        BY <1>3, <2>1, <2>2, <3>1, CaseOperandsAre
      <4>2. r \in OperandReferences[Equation(e, i)] <=>
               Referred(r, <<e.base[1], e.args[i]>>) \/ Referred(r, <<>>)
        BY <4>1, OperandReferencesAt, EquationIs
      <4>3. Referred(r, <<e.base[1], e.args[i]>>) <=>
               r \in OperandReferences[e.base[1]] \/ r \in OperandReferences[e.args[i]]
        BY DEF Referred
      <4>4. ~Referred(r, <<>>)
        BY DEF Referred
      <4> QED
        BY <3>1, <4>1, <4>2, <4>3, <4>4
    <3>2. CASE ~IsWhen(e, i)
      BY <2>1, <3>2, CaseOperandsAre
    <3> QED
      BY <3>1, <3>2
  <2>5. Referred(r, e.base) <=> r \in OperandReferences[e.base[1]]
    <3>1. Len(e.base) <= 1
      BY NodesAssumption
    <3>2. DOMAIN e.base = {1}
      BY <1>0, <1>3, <3>1
    <3> QED
      BY <3>2 DEF Referred
  <2>6. DOMAIN CaseOperands(e) = DOMAIN e.args
    BY <2>1, CaseOperandsAre
  <2> QED
    BY <1>1, <2>2, <2>3, <2>4, <2>5, <2>6 DEF Referred
<1> QED
    BY <1>2, <1>3

-----------------------------------------------------------------------------
(* Meanings.                                                                *)
LEMMA SqlAt ==
    ASSUME NEW e \in Nodes, NEW row \in Rows, e.v \notin Leaves
    PROVE  Sql[e][row] = Apply(e, Values(e.base, row), Values(e.clauses, row), Values(e.args, row))
<1>1. Sql[e] = Meaning(Sql, e)
    BY SqlIs
<1>2. e.v \notin {"Column", "LambdaVariable"} /\ e.v \notin {"Literal", "ScalarVariable"}
    BY DEF Leaves
<1> QED
    BY <1>1, <1>2 DEF Meaning, Values

LEMMA EquationMeans ==
    ASSUME NEW e, NEW i, NEW row \in Rows, Equation(e, i) \in Nodes
    PROVE  Sql[Equation(e, i)][row] = Eq3(Sql[e.base[1]][row], Sql[e.args[i]][row])
<1> DEFINE d == Equation(e, i)
           a == Values(d.args, row)
<1>1. Sql[d][row] = Apply(d, Values(d.base, row), Values(d.clauses, row), a)
    BY EquationIs, SqlAt DEF Leaves
<1>2. d.v = "BinaryExpr" /\ d.name = "Eq"
    BY EquationIs
<1>3. a[1] = Sql[e.base[1]][row] /\ a[2] = Sql[e.args[i]][row]
    BY EquationIs DEF Values
<1> HIDE DEF d, a
<1>4. Apply(d, Values(d.base, row), Values(d.clauses, row), a) = Eq3(a[1], a[2])
    BY <1>2 DEF Apply, Tests
<1> QED
    BY <1>1, <1>3, <1>4 DEF d

(* The operands of a CASE mean what the CASE means.                         *)
LEMMA CaseMeans ==
    ASSUME NEW e \in Nodes, NEW row \in Rows, e.v = "Case"
    PROVE  Case3(<<>>, Values(CaseOperands(e), row))
              = Case3(Values(e.base, row), Values(e.args, row))
<1>0. e.args \in Seq(Nodes) /\ e.base \in Seq(Nodes)
    BY NodesAssumption
<1>1. CASE e.base = <<>>
  <2>1. Values(e.base, row) = <<>>
    BY <1>1 DEF Values
  <2> QED
    BY <1>1, <2>1, CaseOperandsAre
<1>2. CASE e.base # <<>>
  <2> DEFINE a == Values(e.args, row)
             o == Values(CaseOperands(e), row)
             b == Values(e.base, row)
             n == Len(e.args)
  <2>1. /\ n \in Nat /\ DOMAIN a = 1..n /\ DOMAIN o = 1..n
        /\ Len(a) = n /\ Len(o) = n
    <3>1. DOMAIN CaseOperands(e) = DOMAIN e.args
      BY CaseOperandsAre
    <3>2. n \in Nat /\ DOMAIN e.args = 1..n
      BY <1>0
    <3>3. DOMAIN a = 1..n /\ DOMAIN o = 1..n
      BY <3>1, <3>2 DEF Values
    <3> HIDE DEF a, o, n
    <3> QED
      BY <3>2, <3>3
  <2>2. b # <<>> /\ b[1] = Sql[e.base[1]][row]
    BY <1>0, <1>2 DEF Values
  <2>3. \A i \in 1..n : IsWhen(e, i) <=> i \in 1..(n - 1) /\ i % 2 = 1
    BY <1>0 DEF IsWhen
  <2>4. ASSUME NEW i \in 1..n, IsWhen(e, i) PROVE o[i] = Eq3(b[1], a[i])
    <3>1. i \in DOMAIN e.args /\ i \in DOMAIN CaseOperands(e)
      BY <1>0, CaseOperandsAre
    <3>2. CaseOperands(e)[i] = Equation(e, i) /\ Equation(e, i) \in Nodes
      BY <1>2, <2>4, <3>1, CaseOperandsAre
    <3>3. o[i] = Sql[Equation(e, i)][row] /\ a[i] = Sql[e.args[i]][row]
      BY <3>1, <3>2 DEF Values
    <3> QED
      BY <2>2, <3>2, <3>3, EquationMeans
  <2>5. ASSUME NEW i \in 1..n, ~IsWhen(e, i) PROVE o[i] = a[i]
    <3>1. i \in DOMAIN e.args /\ i \in DOMAIN CaseOperands(e)
      BY <1>0, CaseOperandsAre
    <3> QED
      BY <2>5, <3>1, CaseOperandsAre DEF Values
  <2> HIDE DEF a, o, b, n
  <2>6. Whens(a) = Whens(o) /\ \A i \in Whens(a) : o[i] = Eq3(b[1], a[i])
    BY <2>1, <2>3, <2>4 DEF Whens
  <2>7. Taken(<<>>, o) = Taken(b, a)
    BY <2>2, <2>6 DEF Taken
  <2>8. ASSUME Taken(b, a) # {}
        PROVE  o[(CHOOSE i \in Taken(b, a) : TRUE) + 1] = a[(CHOOSE i \in Taken(b, a) : TRUE) + 1]
    <3> DEFINE c == CHOOSE i \in Taken(b, a) : TRUE
    <3>1. c \in Whens(a)
      BY <2>8 DEF Taken
    <3> HIDE DEF c
    <3>2. c + 1 \in 1..n /\ (c + 1) % 2 = 0
      BY <2>1, <3>1 DEF Whens
    <3>3. ~IsWhen(e, c + 1)
      BY <2>3, <3>2
    <3>4. o[c + 1] = a[c + 1]
      BY <2>5, <3>2, <3>3
    <3> QED
      BY <3>4 DEF c
  <2>9. ASSUME n % 2 = 1 PROVE o[n] = a[n]
    <3>1. n \in 1..n
      BY <2>1, <2>9
    <3> QED
      BY <2>1, <2>3, <2>5, <3>1
  <2>10. Case3(<<>>, o) = Case3(b, a)
    BY <2>1, <2>7, <2>8, <2>9 DEF Case3
  <2> QED
    BY <2>10 DEF a, o, b
<1> QED
    BY <1>1, <1>2

(* A node's operator is applied by its variant, its name and its attributes, *)
(* and looks at clauses only if it has no meaning of its own.               *)
LEMMA ApplySame ==
    ASSUME NEW o, NEW e, NEW b, NEW c, NEW k, NEW a, o.v = e.v, o.name = e.name,
           o.type = e.type, o.opt = e.opt, e.v # "Case",
           e.v \in {"Like", "SimilarTo", "Between", "InList"} => o.neg = e.neg,
           e.v \in {"Like", "SimilarTo"} => o.ci = e.ci
    PROVE  Apply(o, b, k, a) = Apply(e, c, k, a)
<1>1. CASE e.v \in Tests
    BY <1>1 DEF Apply
<1>2. CASE e.v \in {"Not", "Alias"}
    BY <1>2 DEF Apply, Tests
<1>3. CASE e.v \in {"Like", "SimilarTo"}
    BY <1>3 DEF Apply, Tests
<1>4. CASE e.v = "Between"
    BY <1>4 DEF Apply, Tests
<1>5. CASE e.v = "InList"
    BY <1>5 DEF Apply, Tests
<1>6. CASE e.v = "BinaryExpr"
    BY <1>6 DEF Apply, Tests
<1>7. CASE e.v \notin Tests \cup {"Not", "Alias", "Like", "SimilarTo", "Between", "InList",
                                  "Case", "BinaryExpr"}
    BY <1>7 DEF Apply
<1> QED
    BY <1>1, <1>2, <1>3, <1>4, <1>5, <1>6, <1>7

LEMMA OperatorReads ==
    ASSUME NEW e \in Nodes, NEW row \in Rows, e.v \notin Leaves,
           rex_call_operator(e) # NoOperator, ~OperatorHides(e)
    PROVE  Apply(rex_call_operator(e), <<>>, <<>>, Values(rex_call_operands(e), row))
              = Sql[e][row]
<1> DEFINE o == rex_call_operator(e)
<1>1. e.v \in Operators
    BY DEF rex_call_operator
<1>2. /\ o.v = e.v /\ o.name = e.name
      /\ o.neg = (e.v \in {"Like", "SimilarTo"} /\ e.neg) /\ o.ci = (e.v = "Like" /\ e.ci)
      /\ o.opt = NULL /\ o.type = Arrow("Null")
    BY <1>1 DEF rex_call_operator
<1>3. /\ e.neg \in BOOLEAN /\ e.ci \in BOOLEAN /\ (e.ci => e.v = "Like")
      /\ e.clauses # <<>> => e.v \in {"AggregateFunction", "WindowFunction", "InSubquery"}
      /\ e.type # Arrow("Null") => e.v \in {"Cast", "TryCast", "Literal"}
    BY NodesAssumption
<1>4. Sql[e][row] = Apply(e, Values(e.base, row), Values(e.clauses, row), Values(e.args, row))
    BY SqlAt
<1>5. e.v \notin Unimplemented /\ e.v \notin {"AggregateFunction", "WindowFunction", "InSubquery"}
    BY <1>1 DEF Operators, Tests, Unimplemented
<1>6. ~(e.v \in {"Between", "InList"} /\ e.neg) /\ e.opt = NULL /\ e.v # "Cast"
    BY DEF OperatorHides
<1>7. e.type = Arrow("Null")
  <2>1. e.v \notin {"Cast", "TryCast", "Literal"}
    BY <1>1, <1>6 DEF Operators, Tests
  <2> QED
    BY <1>3, <2>1
<1>8. Values(e.clauses, row) = <<>>
    BY <1>3, <1>5 DEF Values
<1> HIDE DEF o
<1>9. CASE e.v = "Case"
  <2>1. rex_call_operands(e) = CaseOperands(e)
    BY <1>5, <1>9 DEF rex_call_operands
  <2>2. Apply(o, <<>>, <<>>, Values(CaseOperands(e), row))
           = Case3(<<>>, Values(CaseOperands(e), row))
    BY <1>2, <1>9 DEF Apply, Tests
  <2>3. Sql[e][row] = Case3(Values(e.base, row), Values(e.args, row))
    BY <1>4, <1>9 DEF Apply, Tests
  <2> QED
    BY <1>9, <2>1, <2>2, <2>3, CaseMeans DEF o
<1>10. CASE e.v # "Case"
  <2>1. rex_call_operands(e) = e.args
    BY <1>5, <1>10 DEF rex_call_operands
  <2>2. /\ e.v \in {"Like", "SimilarTo", "Between", "InList"} => o.neg = e.neg
        /\ e.v \in {"Like", "SimilarTo"} => o.ci = e.ci
    BY <1>2, <1>3, <1>6
  <2>3. Apply(o, <<>>, <<>>, Values(e.args, row))
           = Apply(e, Values(e.base, row), <<>>, Values(e.args, row))
    BY <1>2, <1>6, <1>7, <1>10, <2>2, ApplySame
  <2> QED
    BY <1>4, <1>8, <2>1, <2>3 DEF o
<1> QED
    BY <1>9, <1>10

LEMMA WrapperReads ==
    ASSUME NEW e \in Nodes, NEW row \in Rows, e.v \notin Leaves,
           to_variant(e) # NoOperator, ~WrapperHides(e)
    PROVE  Apply(to_variant(e), Values(to_variant(e).base, row),
                 Values(to_variant(e).clauses, row), Values(to_variant(e).args, row))
              = Sql[e][row]
<1>1. Sql[e][row] = Apply(e, Values(e.base, row), Values(e.clauses, row), Values(e.args, row))
    BY SqlAt
<1>2. /\ DOMAIN e = {"v", "args", "base", "clauses", "name", "neg", "ci", "opt", "val", "type"}
      /\ e.ci = FALSE
    BY NodesAssumption DEF WrapperHides
<1>3. CASE e.v \notin {"Like", "AggregateFunction"}
  <2>1. to_variant(e) = e
    BY <1>3 DEF to_variant
  <2> QED
    BY <1>1, <2>1
<1>4. CASE e.v = "Like"
  <2> DEFINE w == [e EXCEPT !.ci = FALSE]
  <2>1. to_variant(e) = w
    BY <1>4 DEF to_variant, PyLike, Wrapped
  <2>2. /\ w.v = e.v /\ w.name = e.name /\ w.neg = e.neg /\ w.type = e.type /\ w.opt = e.opt
        /\ w.args = e.args /\ w.base = e.base /\ w.clauses = e.clauses
    BY <1>2
  <2>3. w.ci = e.ci
    BY <1>2
  <2> HIDE DEF w
  <2>4. Apply(w, Values(w.base, row), Values(w.clauses, row), Values(w.args, row))
           = Apply(e, Values(e.base, row), Values(e.clauses, row), Values(e.args, row))
    BY <1>4, <2>2, <2>3, ApplySame
  <2> QED
    BY <1>1, <2>1, <2>4
<1>5. CASE e.v = "AggregateFunction"
  <2> DEFINE w == [e EXCEPT !.clauses = <<>>, !.opt = NULL]
  <2>1. to_variant(e) = w
    BY <1>5 DEF to_variant, PyAggregateFunction, Wrapped
  <2>2. e.clauses = <<>> /\ e.opt = NULL
    BY <1>5 DEF WrapperHides
  <2>3. /\ w.v = e.v /\ w.name = e.name /\ w.type = e.type /\ w.opt = e.opt
        /\ w.args = e.args /\ w.base = e.base /\ w.clauses = e.clauses
    BY <1>2, <2>2
  <2> HIDE DEF w
  <2>4. Apply(w, Values(w.base, row), Values(w.clauses, row), Values(w.args, row))
           = Apply(e, Values(e.base, row), Values(e.clauses, row), Values(e.args, row))
    BY <1>5, <2>3, ApplySame
  <2> QED
    BY <1>1, <2>1, <2>4
<1> QED
    BY <1>3, <1>4, <1>5

-----------------------------------------------------------------------------
(* Types: the tables agree on the Python type.                              *)

(* A DataTypeMap whose entries belong together.                             *)
Consistent(m) ==
    /\ m.arrow \in ArrowTypes /\ m.python \in PythonTypes /\ m.sql \in SqlTypes
    /\ m.arrow[1] \in Mapped /\ PythonOf[m.arrow[1]] = m.python
    /\ m.sql \in DOMAIN ArrowOfSql => ArrowOfSql[m.sql][2] = m.python

LEMMA ConsistentOk == ASSUME NEW m, Consistent(m) PROVE Ok(m)
    BY DEF Consistent, Ok, Error, PythonTypes

LEMMA EntryIs ==
    ASSUME NEW a, NEW p, NEW s
    PROVE  Entry(a, p, s).arrow = a /\ Entry(a, p, s).python = p /\ Entry(a, p, s).sql = s
    BY DEF Entry

LEMMA PythonOfIs ==
    /\ PythonOf["Null"] = "None" /\ PythonOf["Boolean"] = "Bool"
    /\ \A n \in Signed \cup Unsigned : PythonOf[n] = "Int"
    /\ \A n \in Floats \cup Decimals : PythonOf[n] = "Float"
    /\ \A n \in Instants \cup {"Interval"} : PythonOf[n] = "Datetime"
    /\ \A n \in Binaries : PythonOf[n] = "Bytes"
    /\ \A n \in Strings : PythonOf[n] = "Str"
<1> USE DEF Mapped, PythonOf, Signed, Unsigned, Floats, Decimals, Instants, Binaries, Strings
<1>1. PythonOf["Null"] = "None" /\ PythonOf["Boolean"] = "Bool"
    OBVIOUS
<1>2. \A n \in Signed \cup Unsigned : PythonOf[n] = "Int"
    OBVIOUS
<1>3. \A n \in Floats \cup Decimals : PythonOf[n] = "Float"
    OBVIOUS
<1>4. \A n \in Instants \cup {"Interval"} : PythonOf[n] = "Datetime"
    OBVIOUS
<1>5. \A n \in Binaries : PythonOf[n] = "Bytes"
    OBVIOUS
<1>6. \A n \in Strings : PythonOf[n] = "Str"
    OBVIOUS
<1> QED
    BY <1>1, <1>2, <1>3, <1>4, <1>5, <1>6

LEMMA SqlOfIs ==
    ASSUME NEW t
    PROVE  /\ t[1] \in Signed \cup Unsigned => SqlOf(t) \in {"TINYINT", "SMALLINT", "INTEGER", "BIGINT"}
           /\ t[1] = "Interval" => SqlOf(t) = SqlOfInterval[t[2]]
           /\ t[1] = "Null" => SqlOf(t) = "NULL"
           /\ t[1] = "Boolean" => SqlOf(t) = "BOOLEAN"
           /\ t[1] \in Floats => SqlOf(t) = "FLOAT"
           /\ t[1] \in Decimals => SqlOf(t) = "DECIMAL"
           /\ t[1] \in Instants => SqlOf(t) = "DATE"
           /\ t[1] \in Binaries => SqlOf(t) = "BINARY"
           /\ t[1] \in Strings => SqlOf(t) = "VARCHAR"
<1>0. DOMAIN SqlOfInteger = Signed \cup Unsigned
    BY DEF SqlOfInteger, Signed, Unsigned
<1>1. CASE t[1] \in Signed \cup Unsigned
  <2>1. SqlOf(t) = SqlOfInteger[t[1]]
    BY <1>0, <1>1 DEF SqlOf, Signed, Unsigned, Floats, Decimals, Instants, Binaries, Strings
  <2>2. SqlOfInteger[t[1]] \in {"TINYINT", "SMALLINT", "INTEGER", "BIGINT"}
    BY <1>1 DEF SqlOfInteger, Signed, Unsigned
  <2> QED
    BY <1>1, <2>1, <2>2 DEF Signed, Unsigned, Floats, Decimals, Instants, Binaries, Strings
<1>2. CASE t[1] \in {"Interval", "Null", "Boolean"}
    BY <1>0, <1>2 DEF SqlOf, Signed, Unsigned, Floats, Decimals, Instants, Binaries, Strings
<1>3. CASE t[1] \in Floats
    BY <1>0, <1>3 DEF SqlOf, Signed, Unsigned, Floats, Decimals, Instants, Binaries, Strings
<1>4. CASE t[1] \in Decimals
    BY <1>0, <1>4 DEF SqlOf, Signed, Unsigned, Floats, Decimals, Instants, Binaries, Strings
<1>5. CASE t[1] \in Instants
    BY <1>0, <1>5 DEF SqlOf, Signed, Unsigned, Floats, Decimals, Instants, Binaries, Strings
<1>6. CASE t[1] \in Binaries
    BY <1>0, <1>6 DEF SqlOf, Signed, Unsigned, Floats, Decimals, Instants, Binaries, Strings
<1>7. CASE t[1] \in Strings
    BY <1>0, <1>7 DEF SqlOf, Signed, Unsigned, Floats, Decimals, Instants, Binaries, Strings
<1> QED
    BY <1>1, <1>2, <1>3, <1>4, <1>5, <1>6, <1>7

LEMMA ArrowOfSqlIs ==
    /\ \A s \in {"TINYINT", "SMALLINT", "INTEGER", "BIGINT"} :
          s \in DOMAIN ArrowOfSql /\ ArrowOfSql[s][2] = "Int"
    /\ "NULL" \in DOMAIN ArrowOfSql /\ ArrowOfSql["NULL"][2] = "None"
    /\ "BOOLEAN" \in DOMAIN ArrowOfSql /\ ArrowOfSql["BOOLEAN"][2] = "Bool"
    /\ "FLOAT" \in DOMAIN ArrowOfSql /\ ArrowOfSql["FLOAT"][2] = "Float"
    /\ "DECIMAL" \in DOMAIN ArrowOfSql /\ ArrowOfSql["DECIMAL"][2] = "Float"
    /\ "DATE" \in DOMAIN ArrowOfSql /\ ArrowOfSql["DATE"][2] = "Datetime"
    /\ "BINARY" \in DOMAIN ArrowOfSql /\ ArrowOfSql["BINARY"][2] = "Bytes"
    /\ "VARCHAR" \in DOMAIN ArrowOfSql /\ ArrowOfSql["VARCHAR"][2] = "Str"
    /\ \A s \in {"INTERVAL_DAY", "INTERVAL_MONTH", "INTERVAL_YEAR_MONTH"} :
          s \notin DOMAIN ArrowOfSql /\ s \in SqlTypes
    BY DEF ArrowOfSql, SqlTypes, RefusedSql

(* An Arrow type leads to an entry of all three systems, or to none.  Only  *)
(* the SQL types of intervals lead nowhere.                                 *)
LEMMA FromArrowType ==
    ASSUME NEW t \in ArrowTypes
    PROVE  /\ Ok(map_from_arrow_type(t)) <=> t[1] \in Mapped
           /\ t[1] \in Mapped =>
                 /\ Consistent(map_from_arrow_type(t))
                 /\ map_from_arrow_type(t).arrow = t
                 /\ map_from_arrow_type(t).python = PythonOf[t[1]]
                 /\ t[1] # "Interval" => map_from_arrow_type(t).sql \in DOMAIN ArrowOfSql
<1>1. CASE t[1] \notin Mapped
    BY <1>1 DEF map_from_arrow_type, Ok
<1>2. CASE t[1] \in Mapped
  <2> DEFINE m == map_from_arrow_type(t)
  <2>1. m.arrow = t /\ m.python = PythonOf[t[1]] /\ m.sql = SqlOf(t)
    BY <1>2, EntryIs DEF map_from_arrow_type
  <2>2. /\ SqlOf(t) \in SqlTypes /\ PythonOf[t[1]] \in PythonTypes
        /\ t[1] # "Interval" => SqlOf(t) \in DOMAIN ArrowOfSql
        /\ SqlOf(t) \in DOMAIN ArrowOfSql => ArrowOfSql[SqlOf(t)][2] = PythonOf[t[1]]
    <3>1. CASE t[1] \in Signed \cup Unsigned
      BY <3>1, PythonOfIs, SqlOfIs, ArrowOfSqlIs DEF SqlTypes, PythonTypes
    <3>2. CASE t[1] \in {"Null", "Boolean"}
      BY <3>2, PythonOfIs, SqlOfIs, ArrowOfSqlIs DEF SqlTypes, PythonTypes
    <3>3. CASE t[1] \in Floats \cup Decimals
      BY <3>3, PythonOfIs, SqlOfIs, ArrowOfSqlIs DEF SqlTypes, PythonTypes
    <3>4. CASE t[1] \in Instants
      BY <3>4, PythonOfIs, SqlOfIs, ArrowOfSqlIs DEF SqlTypes, PythonTypes
    <3>5. CASE t[1] \in Binaries
      BY <3>5, PythonOfIs, SqlOfIs, ArrowOfSqlIs DEF SqlTypes, PythonTypes
    <3>6. CASE t[1] \in Strings
      BY <3>6, PythonOfIs, SqlOfIs, ArrowOfSqlIs DEF SqlTypes, PythonTypes
    <3>7. CASE t[1] = "Interval"
      <4>1. t[2] \in IntervalUnits
        BY <3>7 DEF ArrowTypes, Arrow, Unit, Signed, Unsigned, Floats, Decimals, Instants,
                    Binaries, Strings, NotMapped
      <4>2. SqlOf(t) \in {"INTERVAL_DAY", "INTERVAL_MONTH", "INTERVAL_YEAR_MONTH"}
        BY <3>7, <4>1, SqlOfIs DEF IntervalUnits, SqlOfInterval
      <4> QED
        BY <3>7, <4>2, PythonOfIs, ArrowOfSqlIs DEF PythonTypes
    <3> QED
      BY <1>2, <3>1, <3>2, <3>3, <3>4, <3>5, <3>6, <3>7 DEF Mapped
  <2> HIDE DEF m
  <2>3. Consistent(m)
    BY <1>2, <2>1, <2>2 DEF Consistent
  <2> QED
    BY <1>2, <2>1, <2>2, <2>3, ConsistentOk DEF m
<1> QED
    BY <1>1, <1>2

LEMMA FromSqlType ==
    ASSUME NEW s
    PROVE  /\ Ok(py_map_from_sql_type(s)) <=> s \in DOMAIN ArrowOfSql
           /\ s \in DOMAIN ArrowOfSql =>
                 /\ Consistent(py_map_from_sql_type(s))
                 /\ py_map_from_sql_type(s).python = ArrowOfSql[s][2]
                 /\ py_map_from_sql_type(s).sql = s
                 /\ py_map_from_sql_type(s).arrow[1] # "Interval"
<1>1. CASE s \notin DOMAIN ArrowOfSql
    BY <1>1 DEF py_map_from_sql_type, Ok
<1>2. CASE s \in DOMAIN ArrowOfSql
  <2> DEFINE m == py_map_from_sql_type(s)
             n == ArrowOfSql[s][1]
  <2>1. m.arrow = Arrow(n) /\ m.python = ArrowOfSql[s][2] /\ m.sql = s
    BY <1>2, EntryIs DEF py_map_from_sql_type
  <2>2. <<n, ArrowOfSql[s][2]>> \in
           {<<"Int64", "Int">>, <<"Binary", "Bytes">>, <<"Boolean", "Bool">>, <<"UInt8", "Int">>,
            <<"Date64", "Datetime">>, <<"Decimal128", "Float">>, <<"Decimal256", "Float">>,
            <<"Int8", "Int">>, <<"Null", "None">>, <<"Int16", "Int">>,
            <<"LargeBinary", "Bytes">>, <<"Utf8", "Str">>}
    BY <1>2 DEF ArrowOfSql
  <2> HIDE DEF n
  <2>3. n \in Mapped /\ n # "Interval" /\ n \notin NotMapped
    BY <2>2 DEF Mapped, Signed, Unsigned, Floats, Decimals, Instants, Binaries, Strings, NotMapped
  <2>4. PythonOf[n] = ArrowOfSql[s][2] /\ ArrowOfSql[s][2] \in PythonTypes
    BY <2>2, PythonOfIs
       DEF Signed, Unsigned, Floats, Decimals, Instants, Binaries, Strings, PythonTypes
  <2>5. Arrow(n) \in ArrowTypes /\ Arrow(n)[1] = n
    BY <2>3 DEF ArrowTypes, Arrow, Mapped
  <2> HIDE DEF m
  <2>6. Consistent(m)
    BY <1>2, <2>1, <2>3, <2>4, <2>5 DEF Consistent, SqlTypes
  <2> QED
    BY <1>2, <2>1, <2>3, <2>5, <2>6, ConsistentOk DEF m
<1> QED
    BY <1>1, <1>2

LEMMA NamesAre ==
    /\ \A n \in DOMAIN ArrowOfName : Arrow(ArrowOfName[n]) \in ArrowTypes
          /\ ArrowOfName[n] \in Mapped /\ ArrowOfName[n] # "Interval"
    /\ \A n \in DOMAIN ArrowOfParquet : Arrow(ArrowOfParquet[n]) \in ArrowTypes
          /\ ArrowOfParquet[n] \in Mapped
    /\ \A n \in DOMAIN NameOf : NameOf[n] \in DOMAIN ArrowOfName /\ ArrowOfName[NameOf[n]] = n
    /\ "error" \notin DOMAIN ArrowOfName
<1>1. ASSUME NEW n \in Mapped \ {"Interval"} PROVE Arrow(n) \in ArrowTypes
    BY DEF Mapped, ArrowTypes
<1>2. \A n \in DOMAIN ArrowOfName : ArrowOfName[n] \in Mapped \ {"Interval"}
    BY DEF ArrowOfName, Mapped, Signed, Unsigned, Floats, Decimals, Instants, Binaries, Strings
<1>3. \A n \in DOMAIN ArrowOfParquet : ArrowOfParquet[n] \in Mapped \ {"Interval"}
    BY DEF ArrowOfParquet, Mapped, Signed, Unsigned, Floats, Decimals, Instants, Binaries, Strings
<1>4. \A n \in DOMAIN NameOf : NameOf[n] \in DOMAIN ArrowOfName /\ ArrowOfName[NameOf[n]] = n
    BY DEF NameOf, ArrowOfName
<1>5. "error" \notin DOMAIN ArrowOfName
    BY DEF ArrowOfName
<1> QED
    BY <1>1, <1>2, <1>3, <1>4, <1>5

LEMMA FromNames ==
    ASSUME NEW n
    PROVE  /\ Ok(py_map_from_arrow_type_str(n)) =>
                 /\ n \in DOMAIN ArrowOfName
                 /\ Consistent(py_map_from_arrow_type_str(n))
                 /\ py_map_from_arrow_type_str(n).python = PythonOf[ArrowOfName[n]]
                 /\ py_map_from_arrow_type_str(n).arrow[1] # "Interval"
                 /\ py_map_from_arrow_type_str(n).sql \in DOMAIN ArrowOfSql
           /\ Ok(py_map_from_parquet_type_str(n)) => Consistent(py_map_from_parquet_type_str(n))
<1>1. ASSUME n \in DOMAIN ArrowOfName
      PROVE  /\ Consistent(py_map_from_arrow_type_str(n))
             /\ py_map_from_arrow_type_str(n).python = PythonOf[ArrowOfName[n]]
             /\ py_map_from_arrow_type_str(n).arrow[1] # "Interval"
             /\ py_map_from_arrow_type_str(n).sql \in DOMAIN ArrowOfSql
  <2>1. py_map_from_arrow_type_str(n) = map_from_arrow_type(Arrow(ArrowOfName[n]))
    BY <1>1 DEF py_map_from_arrow_type_str
  <2>2. Arrow(ArrowOfName[n])[1] = ArrowOfName[n]
    BY DEF Arrow
  <2>3. /\ Arrow(ArrowOfName[n]) \in ArrowTypes
        /\ ArrowOfName[n] \in Mapped /\ ArrowOfName[n] # "Interval"
    BY <1>1, NamesAre
  <2> QED
    BY <2>1, <2>2, <2>3, FromArrowType
<1>2. n \notin DOMAIN ArrowOfName => ~Ok(py_map_from_arrow_type_str(n))
    BY DEF py_map_from_arrow_type_str, Ok
<1>3. ASSUME n \in DOMAIN ArrowOfParquet PROVE Consistent(py_map_from_parquet_type_str(n))
  <2>1. py_map_from_parquet_type_str(n) = map_from_arrow_type(Arrow(ArrowOfParquet[n]))
    BY <1>3 DEF py_map_from_parquet_type_str
  <2>2. Arrow(ArrowOfParquet[n])[1] = ArrowOfParquet[n]
    BY DEF Arrow
  <2>3. Arrow(ArrowOfParquet[n]) \in ArrowTypes /\ ArrowOfParquet[n] \in Mapped
    BY <1>3, NamesAre
  <2> QED
    BY <2>1, <2>2, <2>3, FromArrowType
<1>4. n \notin DOMAIN ArrowOfParquet => ~Ok(py_map_from_parquet_type_str(n))
    BY DEF py_map_from_parquet_type_str, Ok
<1> QED
    BY <1>1, <1>2, <1>3, <1>4

(* The type of a node, when it has one, is an entry of all three systems.   *)
LEMMA TypesAre == ASSUME NEW e \in Nodes, Ok(_types(e)) PROVE Consistent(_types(e))
<1>1. PICK t \in ArrowTypes : _types(e) = map_from_arrow_type(t)
  <2>1. CASE e.v = "BinaryExpr"
    <3>1. _types(e) \in {map_from_arrow_type(Arrow(n)) :
                            n \in {"Boolean", "Int64", "Float64", "Utf8", "Binary"}}
      BY <2>1 DEF _types, Ok
    <3>2. \A n \in {"Boolean", "Int64", "Float64", "Utf8", "Binary"} : Arrow(n) \in ArrowTypes
      BY DEF ArrowTypes, Signed, Floats, Strings, Binaries
    <3> QED
      BY <3>1, <3>2
  <2>2. CASE e.v = "Cast"
    BY <2>2, NodesAssumption DEF _types
  <2>3. CASE e.v = "Literal"
    <3>1. _types(e) = map_from_scalar_value(e.type)
      BY <2>3 DEF _types
    <3>2. _types(e) = map_from_arrow_type(e.type)
      BY <3>1 DEF map_from_scalar_value, Ok
    <3> QED
      BY <3>2, NodesAssumption
  <2>4. CASE e.v \notin {"BinaryExpr", "Cast", "Literal"}
    BY <2>4 DEF _types, Ok
  <2> QED
    BY <2>1, <2>2, <2>3, <2>4
<1> QED
    BY <1>1, FromArrowType

-----------------------------------------------------------------------------
(* The client's state.  What is found and what is left to visit refer to    *)
(* the columns of the root.                                                 *)
WalkInv ==
    /\ root \in Expressions
    /\ phase \in {"walking", "done", "refused"}
    /\ todo \in Seq(Nodes)
    /\ phase = "done" => todo = <<>>
    /\ \A r : r \in OperandReferences[root] <=> r \in found \/ Referred(r, todo)

(* A type that has come from a SQL type is none of an interval.             *)
MapInv ==
    /\ throughSql \in BOOLEAN
    /\ throughSql => phase = "done" /\ Ok(map)
    /\ Ok(map) => Consistent(map) /\ map.python = given
    /\ throughSql => map.arrow[1] # "Interval" /\ map.sql \in DOMAIN ArrowOfSql

Inv == WalkInv /\ MapInv

LEMMA InitInv == Init => Inv
<1> SUFFICES ASSUME Init PROVE Inv
    OBVIOUS
<1>1. root \in Nodes /\ todo = <<root>> /\ found = {}
    BY NodesAssumption DEF Init
<1>2. \A r : Referred(r, <<root>>) <=> r \in OperandReferences[root]
    BY DEF Referred
<1>3. WalkInv
    BY <1>1, <1>2 DEF Init, WalkInv
<1>4. MapInv
    BY DEF Init, MapInv, Ok
<1> QED
    BY <1>3, <1>4 DEF Inv

LEMMA KeepTypesInv ==
    ASSUME MapInv, KeepTypes, phase = "walking", Here \in Nodes, phase' = phase
    PROVE  MapInv'
<1>1. map' = _types(Here) /\ given' = _types(Here).python /\ throughSql' = throughSql
    BY DEF KeepTypes
<1>2. ~throughSql
    BY DEF MapInv
<1>3. Ok(map') => Consistent(map')
    BY <1>1, TypesAre
<1> QED
    BY <1>1, <1>2, <1>3 DEF MapInv

LEMMA VisitInv ==
    ASSUME Inv, Visiting, KeepTypes, UNCHANGED <<root, phase>>,
           NEW operands \in Seq(Nodes), todo' = operands \o Tail(todo),
           \A r : r \in found' \/ Referred(r, operands) <=>
                    r \in found \/ r \in OperandReferences[Here]
    PROVE  Inv'
<1>1. todo \in Seq(Nodes) /\ todo # <<>> /\ phase = "walking"
    BY DEF Inv, WalkInv, Visiting
<1>2. Here = Head(todo) /\ Here \in Nodes /\ Tail(todo) \in Seq(Nodes)
    BY <1>1 DEF Here
<1>3. todo' \in Seq(Nodes)
    BY <1>2
<1>4. ASSUME NEW r PROVE r \in OperandReferences[root] <=> r \in found' \/ Referred(r, todo')
  <2>1. r \in OperandReferences[root] <=> r \in found \/ Referred(r, todo)
    BY DEF Inv, WalkInv
  <2>2. Referred(r, todo) <=> r \in OperandReferences[Here] \/ Referred(r, Tail(todo))
    BY <1>1, <1>2, ReferredIn
  <2>3. Referred(r, todo') <=> Referred(r, operands) \/ Referred(r, Tail(todo))
    BY <1>2, ReferredIn
  <2> QED
    BY <2>1, <2>2, <2>3
<1>5. WalkInv'
    BY <1>1, <1>3, <1>4 DEF Inv, WalkInv, Referred
<1>6. MapInv'
    BY <1>1, <1>2, KeepTypesInv DEF Inv
<1> QED
    BY <1>5, <1>6 DEF Inv

LEMMA NextInv == Inv /\ [Next]_vars => Inv'
<1> SUFFICES ASSUME Inv, [Next]_vars PROVE Inv'
    OBVIOUS
<1>0. todo \in Seq(Nodes)
    BY DEF Inv, WalkInv
<1>1. ASSUME Visiting PROVE Here \in Nodes /\ Tail(todo) \in Seq(Nodes)
    BY <1>0, <1>1 DEF Visiting, Here
<1>2. /\ <<>> \in Seq(Nodes) /\ \A r : ~Referred(r, <<>>)
      /\ \A s \in Seq(Nodes) : <<>> \o s = s
    BY DEF Referred
<1>3. CASE VisitReference
  <2>1. Here.v \in {"Column", "LambdaVariable"}
    BY <1>3 DEF VisitReference, rex_type
  <2>2. \A r : r \in OperandReferences[Here] <=> r = Here.name
    BY <1>1, <1>3, <2>1, OperandReferencesAt DEF VisitReference
  <2>3. todo' = <<>> \o Tail(todo)
    BY <1>1, <1>2, <1>3 DEF VisitReference
  <2> QED
    BY <1>2, <1>3, <2>2, <2>3, VisitInv DEF VisitReference
<1>4. CASE VisitLiteral
  <2>1. Here.v \in {"Literal", "ScalarVariable"}
    BY <1>4 DEF VisitLiteral, rex_type
  <2>2. Here.args = <<>> /\ Here.base = <<>>
    BY <1>1, <1>4, <2>1, NodesAssumption DEF VisitLiteral, Leaves
  <2>3. \A r : r \notin OperandReferences[Here]
    BY <1>1, <1>2, <1>4, <2>1, <2>2, OperandReferencesAt DEF VisitLiteral
  <2>4. todo' = <<>> \o Tail(todo)
    BY <1>1, <1>2, <1>4 DEF VisitLiteral
  <2> QED
    BY <1>2, <1>4, <2>3, <2>4, VisitInv DEF VisitLiteral
<1>5. CASE VisitCall
  <2>1. Here.v \notin Leaves
    BY <1>5 DEF VisitCall, rex_type, Leaves
  <2>2. Here.v \notin Unimplemented
    <3>1. ASSUME Here.v \in Unimplemented PROVE rex_call_operands(Here) = Refused
      <4>1. Here.v # "Case"
        BY <3>1 DEF Unimplemented
      <4> QED
        BY <2>1, <3>1, <4>1 DEF rex_call_operands
    <3> QED
      BY <1>5, <3>1 DEF VisitCall
  <2>3. /\ rex_call_operands(Here) \in Seq(Nodes)
        /\ \A r : Referred(r, rex_call_operands(Here)) <=> r \in OperandReferences[Here]
    BY <1>1, <1>5, <2>1, <2>2, OperandsRefer DEF VisitCall
  <2> QED
    BY <1>5, <2>3, VisitInv DEF VisitCall
<1>6. CASE VisitRefused
    BY <1>6 DEF VisitRefused, typeVars, Inv, WalkInv, MapInv, Visiting, Referred
<1>7. CASE Finish
    BY <1>7 DEF Finish, typeVars, Inv, WalkInv, MapInv, Referred
<1>8. CASE Ask
  <2>1. Ok(map') /\ Consistent(map') /\ given' = map'.python
    <3>1. PICK m \in {py_map_from_sql_type(s) : s \in SqlTypes}
                \cup {py_map_from_arrow_type_str(n) : n \in DOMAIN ArrowOfName \cup {"other"}}
                \cup {py_map_from_parquet_type_str(n) : n \in DOMAIN ArrowOfParquet \cup {"other"}} :
              Ok(m) /\ map' = m /\ given' = m.python
      BY <1>8 DEF Ask
    <3>2. CASE \E s \in SqlTypes : m = py_map_from_sql_type(s)
      BY <3>1, <3>2, FromSqlType
    <3>3. CASE \E n : m = py_map_from_arrow_type_str(n) \/ m = py_map_from_parquet_type_str(n)
      BY <3>1, <3>3, FromNames
    <3> QED
      BY <3>1, <3>2, <3>3
  <2>2. ~throughSql
    BY <1>8 DEF Ask, Inv, MapInv, Ok
  <2> QED
    BY <1>8, <2>1, <2>2 DEF Ask, Inv, WalkInv, MapInv, Referred
<1>9. CASE FromSql
  <2>1. map.sql \in DOMAIN ArrowOfSql
    BY <1>9, FromSqlType DEF FromSql
  <2>2. /\ Ok(map') /\ Consistent(map') /\ map'.python = ArrowOfSql[map.sql][2]
        /\ map'.sql = map.sql /\ map'.arrow[1] # "Interval"
    BY <1>9, <2>1, FromSqlType DEF FromSql
  <2>3. map'.python = given
    BY <1>9, <2>1, <2>2 DEF FromSql, Inv, MapInv, Consistent
  <2> QED
    BY <1>9, <2>1, <2>2, <2>3 DEF FromSql, Inv, WalkInv, MapInv, Referred
<1>10. CASE FromArrow
  <2>1. Consistent(map) /\ map.python = given
    BY <1>10 DEF FromArrow, Inv, MapInv
  <2>2. map.arrow \in ArrowTypes /\ map.arrow[1] \in Mapped
    BY <2>1 DEF Consistent
  <2>3. /\ Ok(map') /\ Consistent(map') /\ map'.arrow = map.arrow
        /\ map'.python = PythonOf[map.arrow[1]]
        /\ map.arrow[1] # "Interval" => map'.sql \in DOMAIN ArrowOfSql
    BY <1>10, <2>2, FromArrowType DEF FromArrow
  <2>4. map'.python = given
    BY <2>1, <2>3 DEF Consistent
  <2> QED
    BY <1>10, <2>3, <2>4 DEF FromArrow, Inv, WalkInv, MapInv, Referred
<1>11. CASE FromName
  <2> DEFINE n == to_arrow_str(map.arrow)
  <2>1. Consistent(map) /\ map.python = given
    BY <1>11 DEF FromName, Inv, MapInv
  <2>2. map' = py_map_from_arrow_type_str(n) /\ Ok(map')
    BY <1>11 DEF FromName
  <2>3. /\ n \in DOMAIN ArrowOfName /\ Consistent(map')
        /\ map'.python = PythonOf[ArrowOfName[n]]
        /\ map'.arrow[1] # "Interval" /\ map'.sql \in DOMAIN ArrowOfSql
    <3> HIDE DEF n
    <3> QED
      BY <2>2, FromNames
  <2>4. map.arrow[1] \in DOMAIN NameOf /\ ArrowOfName[n] = map.arrow[1]
    BY <2>3, NamesAre DEF to_arrow_str
  <2>5. map'.python = given
    BY <2>1, <2>3, <2>4 DEF Consistent
  <2> HIDE DEF n
  <2> QED
    BY <1>11, <2>2, <2>3, <2>5 DEF FromName, Inv, WalkInv, MapInv, Referred
<1>12. CASE UNCHANGED vars
    BY <1>12 DEF vars, Inv, WalkInv, MapInv, Referred
<1> QED
    BY <1>3, <1>4, <1>5, <1>6, <1>7, <1>8, <1>9, <1>10, <1>11, <1>12 DEF Next, Visit

LEMMA Invariance == Spec => []Inv
    BY InitInv, NextInv, PTL DEF Spec

(* The client's state is well typed: it finds columns of the expression     *)
(* only, and a type it has is an entry of all three systems.                *)
THEOREM RowExpressionsTypes == Spec => []TypeOK
<1>1. Inv => TypeOK
  <2> SUFFICES ASSUME Inv PROVE TypeOK
    OBVIOUS
  <2>1. found \subseteq References[root]
    <3>1. found \subseteq OperandReferences[root] /\ root \in Nodes
      BY NodesAssumption DEF Inv, WalkInv
    <3> QED
      BY <3>1, OperandReferencesWithin
  <2> QED
    BY <2>1 DEF Inv, WalkInv, MapInv, TypeOK, Consistent
<1> QED
    BY <1>1, Invariance, PTL

(* A walk along rex_call_operands that ends without a refusal has met every *)
(* column that stands outside the clauses of aggregate and window functions *)
(* and subqueries, and no other, for expressions of any size and nesting.   *)
THEOREM ColumnsFound == Spec => []WalkFindsColumns
<1>1. Inv => WalkFindsColumns
  <2> SUFFICES ASSUME Inv, phase = "done" PROVE found = OperandReferences[root]
    BY DEF WalkFindsColumns
  <2>1. todo = <<>> /\ \A r : ~Referred(r, <<>>)
    BY DEF Inv, WalkInv, Referred
  <2> QED
    BY <2>1 DEF Inv, WalkInv
<1> QED
    BY <1>1, Invariance, PTL

(* Operator and operands, and the wrapper's parts, mean what a node means,  *)
(* for every node of every expression, every type, clause and option, and   *)
(* every row, as long as the reading does not hide what it is known to hide. *)
THEOREM MeaningKept == Spec => []ReadingsKeepMeaning
<1>1. Inv => ReadingsKeepMeaning
  <2> SUFFICES ASSUME Inv, Visiting, Here.v \notin Leaves PROVE ReadingsKeepMeaning
    BY DEF ReadingsKeepMeaning
  <2>1. Here \in Nodes
    BY DEF Inv, WalkInv, Visiting, Here
  <2> QED
    BY <2>1, OperatorReads, WrapperReads DEF ReadingsKeepMeaning
<1> QED
    BY <1>1, Invariance, PTL

(* Conversions between Arrow, SQL and names, in any order and number, keep  *)
(* the Python type.                                                         *)
THEOREM PythonTypeKept == Spec => []PythonTypeStable
<1>1. Inv => PythonTypeStable
    BY DEF Inv, MapInv, PythonTypeStable
<1> QED
    BY <1>1, Invariance, PTL

(* A client that has gone through a SQL type can go on converting.          *)
THEOREM SqlClosedAlways == Spec => []SqlClosed
<1>1. Inv => SqlClosed
  <2> SUFFICES ASSUME Inv, throughSql
               PROVE  /\ Ok(map_from_arrow_type(map.arrow))
                      /\ Ok(py_map_from_sql_type(map.sql))
    BY DEF SqlClosed
  <2>1. Consistent(map) /\ map.sql \in DOMAIN ArrowOfSql
    BY DEF Inv, MapInv
  <2> QED
    BY <2>1, FromArrowType, FromSqlType DEF Consistent
<1> QED
    BY <1>1, Invariance, PTL
=============================================================================
