---------------------------- MODULE UserFunctions ----------------------------
(***************************************************************************)
(* The uses of user-defined functions: aggregates, windows, aggregates     *)
(* over windows and, in this module, scalar functions.  Queries of         *)
(* different kinds have nothing in common but the session, so that a       *)
(* behaviour is of one of them; the others are queries that have failed    *)
(* already.                                                                *)
(***************************************************************************)
EXTENDS Aggregation, Sliding, Sequences

CONSTANTS
    Values,         \* of arguments
    MaxBatch,       \* bound: rows of a batch
    MaxArguments    \* bound: arguments of a scalar function

VARIABLES
    invocation,     \* a batch's length and the arguments of a call on it, or Null
    answer          \* what the call gives, or Null

scalarVars == <<invocation, answer>>
allVars == <<vars, windowVars, slidingVars, scalarVars>>

-----------------------------------------------------------------------------
(* ColumnarValue: one value for the batch, or a value per row.              *)
Arguments(n) == ({"scalar"} \X Values) \cup ({"array"} \X [1..n -> Values])
Invocations ==
    UNION {{[rows |-> n, args |-> args] : args \in [1..k -> Arguments(n)]} :
        n \in 0..MaxBatch, k \in 0..MaxArguments}

Arrays(args) == {k \in DOMAIN args : args[k][1] = "array"}

(* The length of the last array among the arguments; one if there is none.  *)
(* Faulty variant: that of the first argument, one for a scalar.            *)
FirstLength(args) ==
    IF args # <<>> /\ args[1][1] = "array" THEN Len(args[1][2]) ELSE 1
InferredLength(args) ==
    IF Arrays(args) = {} THEN 1 ELSE Len(args[Max(Arrays(args))][2])

IntoArray(arg, n) == IF arg[1] = "scalar" THEN [i \in 1..n |-> arg[2]] ELSE arg[2]

(* External: a Python function that works by rows, as pyarrow's kernels do. *)
(* Without arguments it gives an array of one value; arrays of different    *)
(* lengths make it raise.                                                   *)
Raised == <<"error", Null>>
Python(arrays) ==
    IF Len(arrays) = 0 THEN <<"array", << <<>> >> >>
    ELSE IF \E k \in DOMAIN arrays : Len(arrays[k]) # Len(arrays[1]) THEN Raised
    ELSE <<"array", [i \in 1..Len(arrays[1]) |-> [k \in DOMAIN arrays |-> arrays[k][i]]]>>

(* make_scalar_function around to_rust_function: scalars become arrays of   *)
(* the inferred length, and a call with nothing but scalars gives a scalar. *)
MakeScalarFunction(args) ==
    LET arrays == [k \in DOMAIN args |-> IntoArray(args[k], InferredLength(args))]
        given == Python(arrays)
    IN IF given = Raised THEN Raised
       ELSE IF Arrays(args) = {} THEN <<"scalar", given[2][1]>> ELSE given

InvokeScalar ==
    /\ invocation # Null /\ answer = Null
    /\ answer' = MakeScalarFunction(invocation.args)
    /\ UNCHANGED <<vars, windowVars, slidingVars, invocation>>

-----------------------------------------------------------------------------
AFailedAggregate ==
    /\ failed = TRUE /\ single = FALSE /\ reads = "array"
    /\ part = CHOOSE layout \in Layouts : TRUE
AFailedWindow ==
    /\ stopped = TRUE
    /\ evaluator = CHOOSE e \in Evaluators : TRUE
    /\ frame = NewFrame("rows", Null, Null)
    /\ task = CHOOSE deal \in Deals : TRUE

AFailedSlide ==
    /\ halted = TRUE
    /\ support = CHOOSE y \in Supports : TRUE
    /\ over = NewFrame("rows", Null, Null)

AllInit ==
    /\ \/ failed = FALSE /\ AFailedWindow /\ AFailedSlide /\ invocation = Null
       \/ AFailedAggregate /\ stopped = FALSE /\ AFailedSlide /\ invocation = Null
       \/ AFailedAggregate /\ AFailedWindow /\ halted = FALSE /\ invocation = Null
       \/ AFailedAggregate /\ AFailedWindow /\ AFailedSlide /\ invocation \in Invocations
    /\ Fresh /\ WindowFresh /\ SlidingFresh /\ answer = Null

AllNext ==
    \/ Next /\ UNCHANGED <<windowVars, slidingVars, scalarVars>>
    \/ WindowNext /\ UNCHANGED <<vars, slidingVars, scalarVars>>
    \/ SlidingNext /\ UNCHANGED <<vars, windowVars, scalarVars>>
    \/ InvokeScalar

AllSpec == AllInit /\ [][AllNext]_allVars

-----------------------------------------------------------------------------
(* Types of the aggregate and of the window, with how much of a partition   *)
(* is pruned, evaluated and there.                                          *)
QueriesTypeOK == TypeOK /\ WindowTypeOK

(* A scalar function that works by rows gives every row of the batch the    *)
(* value for its own arguments, whichever arguments are scalars, and as     *)
(* many values as the batch has rows, also when it has none.  With nothing  *)
(* but scalars, one value stands for every row.                             *)
RowsAligned ==
    answer # Null =>
        LET args == invocation.args
        IN \/ /\ Arrays(args) = {}
              /\ answer = <<"scalar", [k \in DOMAIN args |-> args[k][2]]>>
           \/ /\ Arrays(args) # {} /\ answer[1] = "array"
              /\ Len(answer[2]) = invocation.rows
              /\ \A i \in 1..invocation.rows :
                    answer[2][i] = [k \in DOMAIN args |-> IntoArray(args[k], invocation.rows)[i]]
=============================================================================
