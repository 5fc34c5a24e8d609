--------------------------- MODULE MCBodyCollector ---------------------------
(***************************************************************************)
(* BodyCollector for TLC: bodies below, at and above the limit.            *)
(***************************************************************************)
EXTENDS BodyCollector
=============================================================================
