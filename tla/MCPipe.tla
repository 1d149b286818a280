------------------------------- MODULE MCPipe -------------------------------
(***************************************************************************)
(* TLC instances of Pipe: a pipe shared by a few writers.  With            *)
(* CloseInParallel = FALSE the callers follow the repository's convention  *)
(* (Close deferred in the writing goroutine), with TRUE they do what the   *)
(* comment on Pipe() allows.                                               *)
(***************************************************************************)
EXTENDS Pipe
=============================================================================
