----------------------------- MODULE ScanSchemas -----------------------------
(***************************************************************************)
(* The schemas on the way of a batch out of a Python table.  The table is  *)
(* registered with a schema read once; the plan of a query advertises      *)
(* another one, made when the table is scanned; each batch comes with its  *)
(* own, and has columns whose contents may be yet another matter.          *)
(*                                                                         *)
(* A schema is a sequence of fields, pairs of a name and a type.  One scan *)
(* is followed, and one batch of it.                                       *)
(***************************************************************************)
EXTENDS Naturals, Sequences

CONSTANTS
    Schemas,        \* schemas a Python object may report
    Projections     \* projections a plan may ask for: sequences of positions

Sources == {"stream", "dataset", "ibis", "provider"}

VARIABLES
    source,         \* the kind of the table
    declared,       \* the schema it was registered with
    reported,       \* the schema its reader, stream or scanner reports
    projection,
    advertised,     \* the schema of the plan's scan
    batch,          \* the schema and the contents of the batch
    step            \* "registered", "planned", "pulled", "delivered", "failed"

scanVars == <<source, declared, reported, projection, advertised, batch, step>>

NoSchema == <<>>
NoBatch == [label |-> NoSchema, contents |-> NoSchema]

-----------------------------------------------------------------------------
InRange(schema, positions) == \A i \in DOMAIN positions : positions[i] \in DOMAIN schema
Project(schema, positions) == [i \in DOMAIN positions |-> schema[positions[i]]]

(* Names and types are compared by position.  Faulty variant: the number of *)
(* columns is.                                                              *)
CheckCounts(schema, label) == Len(schema) = Len(label)
check_batch_schema(schema, label) ==
    /\ Len(schema) = Len(label)
    /\ \A i \in DOMAIN schema : schema[i] = label[i]

(* register_record_batch_reader, register_dataset, register_ibis_table,     *)
(* register_table_provider: the schema is read now and kept.                *)
ScanInit ==
    /\ source \in Sources /\ declared \in Schemas
    /\ reported = NoSchema /\ projection = <<>> /\ advertised = NoSchema
    /\ batch = NoBatch /\ step = "registered"

(* TableProvider::scan.  A stream is planned with the declared schema and   *)
(* asked for its own later; a dataset reports what it did before, and its   *)
(* scanner projects by name; the reader of a Python table is projected by   *)
(* position, over the schema it reports.                                    *)
ScanTable(positions, schema) ==
    /\ step = "registered"
    /\ InRange(declared, positions)
    /\ source \in {"stream", "dataset"} => schema = declared
    /\ projection' = positions /\ reported' = schema
    /\ IF InRange(schema, positions)
       THEN advertised' = Project(schema, positions) /\ step' = "planned"
       ELSE step' = "failed" /\ UNCHANGED advertised
    /\ UNCHANGED <<source, declared, batch>>

(* The pull.  The C interface of a stream tells the schema once, and each   *)
(* batch is taken to have it; a scanner's batches are as projected; those   *)
(* of a Python table's reader come with a schema of their own.              *)
PullBatch(label, contents) ==
    /\ step = "planned"
    /\ source = "stream" => Len(label) = Len(contents)
    /\ source = "dataset" => label = advertised
    /\ source # "stream" => contents = label
    /\ IF source \in {"ibis", "provider"}
       THEN IF InRange(label, projection)
            THEN /\ batch' = [label |-> Project(label, projection),
                              contents |-> Project(contents, projection)]
                 /\ step' = "pulled"
            ELSE step' = "failed" /\ UNCHANGED batch
       ELSE batch' = [label |-> label, contents |-> contents] /\ step' = "pulled"
    /\ UNCHANGED <<source, declared, reported, projection, advertised>>

(* The check of the bridge, against the schema it was given; the batches of *)
(* a stream are projected afterwards, by StreamingTableExec.                *)
DeliverBatch ==
    /\ step = "pulled"
    /\ LET given == IF source = "stream" THEN declared ELSE advertised
       IN IF ~check_batch_schema(given, batch.label)
          THEN step' = "failed" /\ UNCHANGED batch
          ELSE /\ step' = "delivered"
               /\ batch' = IF source = "stream"
                           THEN [label |-> Project(batch.label, projection),
                                 contents |-> Project(batch.contents, projection)]
                           ELSE batch
    /\ UNCHANGED <<source, declared, reported, projection, advertised>>

ScanNext ==
    \/ \E positions \in Projections, schema \in Schemas : ScanTable(positions, schema)
    \/ \E label, contents \in Schemas \cup {advertised} : PullBatch(label, contents)
    \/ DeliverBatch

ScanSpec == ScanInit /\ [][ScanNext]_scanVars

-----------------------------------------------------------------------------
(* Operators trust the schema of the plan and panic on columns of another   *)
(* type.  What a query is given has the columns that the scan advertises,   *)
(* in their order, and while the table reports the schema it was registered *)
(* with, the columns that the query asked for.  Only the contents of a C    *)
(* stream are beyond the check: it has no word but the stream's for them.   *)
ColumnsAsPlanned ==
    step = "delivered" =>
        /\ batch.label = advertised
        /\ source # "stream" => batch.contents = batch.label
        /\ reported = declared => batch.label = Project(declared, projection)
=============================================================================
