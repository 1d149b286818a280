------------------------------ MODULE MCSqlFS ------------------------------
(***************************************************************************)
(* TLC instances of SqlFS: files of a few bytes, buffers that do and do    *)
(* not divide their length.                                                *)
(***************************************************************************)
EXTENDS SqlFS
=============================================================================
