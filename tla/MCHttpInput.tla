----------------------------- MODULE MCHttpInput -----------------------------
(***************************************************************************)
(* HttpInput for TLC: every body of at most MaxChunks chunks, whole or cut *)
(* inside a scalar, and a table that fills up.                             *)
(***************************************************************************)
EXTENDS HttpInput
=============================================================================
