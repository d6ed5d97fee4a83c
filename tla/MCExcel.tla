------------------------------ MODULE MCExcel ------------------------------
(* Small instances of ExcelJobs: one building.                             *)
EXTENDS ExcelJobs

CONSTANTS j1, j2, w1, w2
=============================================================================
