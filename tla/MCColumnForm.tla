---------------------------- MODULE MCColumnForm ----------------------------
(* One type of each behaviour but the blobs, and the two whose branch is    *)
(* missing or incomplete; the key UNIQUE is left to TableDesigner.          *)
EXTENDS ColumnForm

MCDataTypes == <<"VARCHAR", "INT", "TINYINT", "DECIMAL", "YEAR">>
MCSwitches == {"primaryKey", "autoIncrement", "zeroFill", "binary", "notNull"}
=============================================================================
