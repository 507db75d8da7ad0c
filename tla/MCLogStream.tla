------------------------------ MODULE MCLogStream ------------------------------
(***************************************************************************)
(* Values of LogStream's constants for TLC: three records and one page;     *)
(* pages do not meet, so one is as good as several.                         *)
(***************************************************************************)
EXTENDS LogStream

CONSTANTS r1, r2, r3, v1
================================================================================
