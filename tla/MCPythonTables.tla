--------------------------- MODULE MCPythonTables ---------------------------
(* Model-checking instance of PythonTables: the queries of MCFilterPushdown, *)
(* a session with one Python object of each kind, and scans over schemas of  *)
(* one and two columns, in both orders.                                      *)
EXTENDS MCFilterPushdown, PythonTables

(* The reader lacks the column in the middle of the declared order.         *)
MCSchema == [o \in {"r", "a"} |-> IF o = "r" THEN {"u", "w"} ELSE {"u"}]
MCSortLists == {<<"u", "v", "w">>, <<"u", "other">>}

Fields == {"u", "v"} \X {"int", "text"}
MCSchemas ==
    {<<f>> : f \in Fields} \cup {s \in Fields \X Fields : s[1][1] # s[2][1]}
MCProjections == {<<>>, <<1>>, <<2>>, <<1, 2>>}
=============================================================================
