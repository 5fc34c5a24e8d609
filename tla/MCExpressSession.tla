-------------------------- MODULE MCExpressSession --------------------------
(***************************************************************************)
(* ExpressSession for TLC: one or two session middleware on a request.     *)
(***************************************************************************)
EXTENDS ExpressSession

IdSymmetry == Permutations(Ids)
=============================================================================
