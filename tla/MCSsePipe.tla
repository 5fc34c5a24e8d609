------------------------------ MODULE MCSsePipe ------------------------------
(***************************************************************************)
(* SsePipe for TLC: both modes of the pipe, with batches cut anywhere.     *)
(***************************************************************************)
EXTENDS SsePipe
=============================================================================
