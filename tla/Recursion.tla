------------------------------ MODULE Recursion ------------------------------
(***************************************************************************)
(* Recursive functions over finite trees, and induction.  A definition     *)
(*    f[e \in Nodes] == Def(f, e)                                          *)
(* by Def which looks at f at the parts of e only has the value it says.   *)
(* Instantiated, once for each function and each fact shown by induction,  *)
(* where the theorems about the function are.                              *)
(***************************************************************************)
EXTENDS Naturals, WellFoundedInduction, TLAPS

CONSTANTS
    Nodes,
    Height,     \* Height[e]
    Parts(_),   \* Parts(e): the nodes right below e
    Def(_, _),
    Holds(_)    \* the fact

Value == CHOOSE f : f = [e \in Nodes |-> Def(f, e)]

Finite ==
    \A e \in Nodes : /\ Height[e] \in Nat
                     /\ \A d \in Parts(e) : d \in Nodes /\ Height[d] < Height[e]

Local ==
    \A f, g : \A e \in Nodes :
        (\A d \in Parts(e) : f[d] = g[d]) => Def(f, e) = Def(g, e)

Inductive == \A e \in Nodes : (\A d \in Parts(e) : Holds(d)) => Holds(e)

-----------------------------------------------------------------------------
LEMMA Least ==
    ASSUME NEW T, T \subseteq Nat, T # {}
    PROVE  \E n \in T : \A m \in T : ~(m < n)
<1> DEFINE R == OpToRel(<, Nat)
<1>1. IsWellFoundedOn(R, Nat)
    BY NatLessThanWellFounded
<1> HIDE DEF R
<1>2. PICK n \in T : \A m \in T : <<m, n>> \notin R
    BY <1>1, WFMin
<1> QED
    BY <1>2 DEF R, OpToRel

(* A fact that holds of a tree whose parts it holds of holds of every tree. *)
THEOREM Induction == Finite /\ Inductive => \A e \in Nodes : Holds(e)
<1> SUFFICES ASSUME Finite, Inductive, NEW c \in Nodes, ~Holds(c) PROVE FALSE
    OBVIOUS
<1> DEFINE T == {Height[e] : e \in {b \in Nodes : ~Holds(b)}}
<1>1. T \subseteq Nat /\ T # {}
    BY DEF Finite
<1>2. PICK n \in T : \A m \in T : ~(m < n)
  <2> HIDE DEF T
  <2> QED
    BY <1>1, Least
<1>3. PICK e \in Nodes : ~Holds(e) /\ Height[e] = n
    BY <1>2
<1>4. \A d \in Parts(e) : Holds(d)
    BY <1>2, <1>3 DEF Finite
<1> QED
    BY <1>3, <1>4 DEF Inductive

(* Fits(g, n): g is what the definition says on the trees lower than n.     *)
Fits(g, n) == \A e \in Nodes : Height[e] < n => g[e] = Def(g, e)

LEMMA FitsAgree ==
    ASSUME Finite, Local, NEW n \in Nat, NEW m \in Nat, NEW g, NEW h, Fits(g, n), Fits(h, m),
           NEW c \in Nodes, Height[c] < n, Height[c] < m
    PROVE  g[c] = h[c]
<1> SUFFICES ASSUME g[c] # h[c] PROVE FALSE
    OBVIOUS
<1> DEFINE Bad == {b \in Nodes : Height[b] < n /\ Height[b] < m /\ g[b] # h[b]}
           T == {Height[e] : e \in Bad}
<1>1. T \subseteq Nat /\ T # {}
    BY DEF Finite
<1>2. PICK k \in T : \A l \in T : ~(l < k)
  <2> HIDE DEF T
  <2> QED
    BY <1>1, Least
<1>3. PICK e \in Bad : Height[e] = k
    BY <1>2
<1>4. ASSUME NEW d \in Parts(e) PROVE g[d] = h[d]
  <2>1. d \in Nodes /\ Height[d] < Height[e] /\ Height[d] \in Nat /\ Height[e] \in Nat
    BY DEF Finite
  <2>2. Height[d] < n /\ Height[d] < m
    BY <2>1
  <2>3. d \notin Bad
    BY <1>2, <1>3, <2>1
  <2> QED
    BY <2>1, <2>2, <2>3
<1>5. Def(g, e) = Def(h, e)
    BY <1>4 DEF Local
<1>6. g[e] = Def(g, e) /\ h[e] = Def(h, e)
    BY DEF Fits
<1> QED
    BY <1>5, <1>6

LEMMA FitsExists ==
    ASSUME Finite, Local, NEW c \in Nat
    PROVE  \E g : Fits(g, c)
<1> SUFFICES ASSUME ~\E g : Fits(g, c) PROVE FALSE
    OBVIOUS
<1> DEFINE T == {n \in Nat : ~\E g : Fits(g, n)}
<1>1. T \subseteq Nat /\ T # {}
    OBVIOUS
<1>2. PICK n \in T : \A m \in T : ~(m < n)
  <2> HIDE DEF T
  <2> QED
    BY <1>1, Least
<1>3. n # 0
  <2>1. Fits(0, 0)
    BY DEF Fits, Finite
  <2> QED
    BY <2>1
<1>4. n - 1 \in Nat /\ n - 1 < n
    BY <1>3
<1>5. PICK g : Fits(g, n - 1)
    BY <1>2, <1>4
<1> DEFINE h == [e \in Nodes |-> IF Height[e] < n - 1 THEN g[e] ELSE Def(g, e)]
<1>6. ASSUME NEW e \in Nodes, Height[e] < n PROVE h[e] = Def(h, e)
  <2>1. h[e] = Def(g, e)
    BY <1>5 DEF Fits
  <2>2. ASSUME NEW d \in Parts(e) PROVE g[d] = h[d]
    <3>1. d \in Nodes /\ Height[d] < n - 1
      BY <1>4, <1>6 DEF Finite
    <3> QED
      BY <3>1
  <2>3. Def(g, e) = Def(h, e)
    BY <2>2 DEF Local
  <2> QED
    BY <2>1, <2>3
<1>7. Fits(h, n)
    BY <1>6 DEF Fits
<1> QED
    BY <1>7

(* The recursive function exists, and satisfies its definition.             *)
THEOREM ValueIs == Finite /\ Local => Value = [e \in Nodes |-> Def(Value, e)]
<1> SUFFICES ASSUME Finite, Local PROVE Value = [e \in Nodes |-> Def(Value, e)]
    OBVIOUS
<1> DEFINE Near(e) == CHOOSE g : Fits(g, Height[e] + 1)
           h == [e \in Nodes |-> Near(e)[e]]
<1>1. \A e \in Nodes : Height[e] \in Nat /\ Height[e] + 1 \in Nat /\ Height[e] < Height[e] + 1
    BY DEF Finite
<1>2. \A e \in Nodes : Fits(Near(e), Height[e] + 1)
    BY <1>1, FitsExists
<1> HIDE DEF Near
<1>3. ASSUME NEW e \in Nodes PROVE h[e] = Def(h, e)
  <2>1. h[e] = Def(Near(e), e)
    BY <1>1, <1>2 DEF Fits
  <2>2. ASSUME NEW d \in Parts(e) PROVE Near(e)[d] = h[d]
    <3>1. d \in Nodes /\ Height[d] < Height[e]
      BY DEF Finite
    <3>2. Height[d] < Height[e] + 1
      BY <1>1, <3>1
    <3>3. Near(e)[d] = Near(d)[d]
      BY <1>1, <1>2, <3>1, <3>2, FitsAgree
    <3> QED
      BY <3>1, <3>3
  <2> HIDE DEF h
  <2>3. Def(Near(e), e) = Def(h, e)
    BY <2>2 DEF Local
  <2> QED
    BY <2>1, <2>3
<1>4. h = [e \in Nodes |-> Def(h, e)]
    BY <1>3
<1> HIDE DEF h
<1> QED
    BY <1>4 DEF Value
=============================================================================
