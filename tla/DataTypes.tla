------------------------------ MODULE DataTypes ------------------------------
(***************************************************************************)
(* The correspondences between Arrow, SQL and Python types that            *)
(* DataTypeMap keeps.  An Arrow type is a name with its parameters; the    *)
(* only parameters that decide anything are the units of intervals.        *)
(***************************************************************************)
Arrow(name) == <<name, "-">>
Unit(name, unit) == <<name, unit>>

Signed == {"Int8", "Int16", "Int32", "Int64"}
Unsigned == {"UInt8", "UInt16", "UInt32", "UInt64"}
Floats == {"Float16", "Float32", "Float64"}
Decimals == {"Decimal32", "Decimal64", "Decimal128", "Decimal256"}
Instants == {"Timestamp", "Date32", "Date64", "Time32", "Time64"}
Binaries == {"Binary", "LargeBinary"}
Strings == {"Utf8", "LargeUtf8"}
NotMapped ==
    {"Duration", "FixedSizeBinary", "List", "FixedSizeList", "LargeList", "Struct", "Union",
     "Dictionary", "Map", "RunEndEncoded", "Utf8View", "BinaryView"}

IntervalUnits == {"DayTime", "MonthDayNano", "YearMonth"}
ArrowTypes ==
    {Arrow(n) : n \in {"Null", "Boolean"} \cup Signed \cup Unsigned \cup Floats \cup Decimals
                        \cup Instants \cup Binaries \cup Strings \cup NotMapped}
      \cup {Unit("Interval", u) : u \in IntervalUnits}

Error == [arrow |-> Arrow("error"), python |-> "error", sql |-> "error"]
Ok(map) == map # Error
Entry(arrow, python, sql) == [arrow |-> arrow, python |-> python, sql |-> sql]

PythonTypes == {"None", "Bool", "Int", "Float", "Datetime", "Bytes", "Str"}
Mapped ==
    {"Null", "Boolean", "Interval"} \cup Signed \cup Unsigned \cup Floats \cup Decimals
      \cup Instants \cup Binaries \cup Strings
PythonOf ==
    [n \in Mapped |->
        CASE n = "Null" -> "None"
          [] n = "Boolean" -> "Bool"
          [] n \in Signed \cup Unsigned -> "Int"
          [] n \in Floats \cup Decimals -> "Float"
          [] n \in Instants \cup {"Interval"} -> "Datetime"
          [] n \in Binaries -> "Bytes"
          [] n \in Strings -> "Str"]

(* The SQL types of integers do not tell the signed from the unsigned.      *)
SqlOfInteger ==
    [Int8 |-> "TINYINT", UInt8 |-> "TINYINT", Int16 |-> "SMALLINT", UInt16 |-> "SMALLINT",
     Int32 |-> "INTEGER", UInt32 |-> "INTEGER", Int64 |-> "BIGINT", UInt64 |-> "BIGINT"]
SqlOfInterval ==
    [DayTime |-> "INTERVAL_DAY", MonthDayNano |-> "INTERVAL_MONTH",
     YearMonth |-> "INTERVAL_YEAR_MONTH"]

(* Faulty variant: instants become timestamps, which no SQL type leads back *)
(* from.                                                                    *)
SqlOfTimestamps(t) ==
    CASE t[1] \in DOMAIN SqlOfInteger -> SqlOfInteger[t[1]]
      [] t[1] = "Interval" -> SqlOfInterval[t[2]]
      [] t[1] = "Null" -> "NULL"
      [] t[1] = "Boolean" -> "BOOLEAN"
      [] t[1] \in Floats -> "FLOAT"
      [] t[1] \in Decimals -> "DECIMAL"
      [] t[1] \in Instants -> "TIMESTAMP"
      [] t[1] \in Binaries -> "BINARY"
      [] t[1] \in Strings -> "VARCHAR"

SqlOf(t) ==
    CASE t[1] \in DOMAIN SqlOfInteger -> SqlOfInteger[t[1]]
      [] t[1] = "Interval" -> SqlOfInterval[t[2]]
      [] t[1] = "Null" -> "NULL"
      [] t[1] = "Boolean" -> "BOOLEAN"
      [] t[1] \in Floats -> "FLOAT"
      [] t[1] \in Decimals -> "DECIMAL"
      [] t[1] \in Instants -> "DATE"
      [] t[1] \in Binaries -> "BINARY"
      [] t[1] \in Strings -> "VARCHAR"

map_from_arrow_type(t) ==
    IF t[1] \in Mapped THEN Entry(t, PythonOf[t[1]], SqlOf(t)) ELSE Error

(* A scalar is given by its engine type.  Some variants have no Arrow type  *)
(* here: those of nested values, and those that fall to the last arm.       *)
NoScalar ==
    {"Struct", "FixedSizeList", "LargeList", "Map", "Union", "RunEndEncoded", "Float16",
     "Decimal32", "Decimal64", "Utf8View", "BinaryView"}
map_from_scalar_value(t) == IF t[1] \in NoScalar THEN Error ELSE map_from_arrow_type(t)

(* DataTypeMap.sql: the SQL types that lead back to an Arrow type; all      *)
(* others are refused.  Faulty variant: CHAR is a string.                   *)
ArrowOfSql ==
    [BIGINT |-> <<"Int64", "Int">>, BINARY |-> <<"Binary", "Bytes">>,
     BOOLEAN |-> <<"Boolean", "Bool">>, CHAR |-> <<"UInt8", "Int">>,
     DATE |-> <<"Date64", "Datetime">>, DECIMAL |-> <<"Decimal128", "Float">>,
     DOUBLE |-> <<"Decimal256", "Float">>, FLOAT |-> <<"Decimal128", "Float">>,
     INTEGER |-> <<"Int8", "Int">>, NULL |-> <<"Null", "None">>,
     SMALLINT |-> <<"Int16", "Int">>, TINYINT |-> <<"Int8", "Int">>,
     VARBINARY |-> <<"LargeBinary", "Bytes">>, VARCHAR |-> <<"Utf8", "Str">>]
RefusedSql ==
    {"ANY", "ARRAY", "COLUMN_LIST", "CURSOR", "DISTINCT", "DYNAMIC_STAR", "GEOMETRY", "INTERVAL",
     "INTERVAL_DAY", "INTERVAL_DAY_HOUR", "INTERVAL_DAY_MINUTE", "INTERVAL_DAY_SECOND",
     "INTERVAL_HOUR", "INTERVAL_HOUR_MINUTE", "INTERVAL_HOUR_SECOND", "INTERVAL_MINUTE",
     "INTERVAL_MINUTE_SECOND", "INTERVAL_MONTH", "INTERVAL_SECOND", "INTERVAL_YEAR",
     "INTERVAL_YEAR_MONTH", "MAP", "MULTISET", "OTHER", "REAL", "ROW", "SARG", "STRUCTURED",
     "SYMBOL", "TIME", "TIME_WITH_LOCAL_TIME_ZONE", "TIMESTAMP",
     "TIMESTAMP_WITH_LOCAL_TIME_ZONE", "UNKNOWN"}
SqlTypes == DOMAIN ArrowOfSql \cup RefusedSql

CharIsString(s) ==
    IF s \notin DOMAIN ArrowOfSql THEN Error
    ELSE IF s = "CHAR" THEN Entry(Arrow("Utf8"), "Int", "CHAR")
    ELSE Entry(Arrow(ArrowOfSql[s][1]), ArrowOfSql[s][2], s)

py_map_from_sql_type(s) ==
    IF s \in DOMAIN ArrowOfSql
    THEN Entry(Arrow(ArrowOfSql[s][1]), ArrowOfSql[s][2], s)
    ELSE Error

(* Names of Arrow types, without the bracketed suffix, which is cut off.    *)
ArrowOfName ==
    [bool |-> "Boolean", boolean |-> "Boolean", uint8 |-> "UInt8", uint16 |-> "UInt16",
     uint32 |-> "UInt32", uint64 |-> "UInt64", int8 |-> "Int8", int16 |-> "Int16",
     int32 |-> "Int32", int64 |-> "Int64", float |-> "Float32", double |-> "Float64",
     float16 |-> "Float16", float32 |-> "Float32", float64 |-> "Float64",
     datetime64 |-> "Date64", object |-> "Utf8"]
py_map_from_arrow_type_str(name) ==
    IF name \in DOMAIN ArrowOfName THEN map_from_arrow_type(Arrow(ArrowOfName[name])) ELSE Error

NameOf ==
    [Boolean |-> "boolean", UInt8 |-> "uint8", UInt16 |-> "uint16", UInt32 |-> "uint32",
     UInt64 |-> "uint64", Int8 |-> "int8", Int16 |-> "int16", Int32 |-> "int32",
     Int64 |-> "int64", Float16 |-> "float16", Float32 |-> "float32", Float64 |-> "float64",
     Date64 |-> "datetime64", Utf8 |-> "object"]
to_arrow_str(t) == IF t[1] \in DOMAIN NameOf THEN NameOf[t[1]] ELSE "error"

(* Physical types of parquet columns.                                       *)
ArrowOfParquet ==
    [boolean |-> "Boolean", int32 |-> "Int32", int64 |-> "Int64", int96 |-> "Timestamp",
     float |-> "Float32", double |-> "Float64", byte_array |-> "Utf8"]
py_map_from_parquet_type_str(name) ==
    IF name \in DOMAIN ArrowOfParquet
    THEN map_from_arrow_type(Arrow(ArrowOfParquet[name]))
    ELSE Error
=============================================================================
