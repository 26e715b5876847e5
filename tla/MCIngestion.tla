---------------------------- MODULE MCIngestion ----------------------------
(***************************************************************************)
(* Two versions of a workbook, the second with a sheet inserted before the *)
(* first one's, so that the index of that sheet moves.                     *)
(***************************************************************************)
EXTENDS Ingestion, TLC

CONSTANTS v1, v2     \* model values: the contents

Table(name, index) == [name |-> name, index |-> index]
Workbook == (v1 :> {Table("risks", 0)}) @@ (v2 :> {Table("owners", 0), Table("risks", 1)})
=============================================================================
