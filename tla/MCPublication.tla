----------------------------- MODULE MCPublication -----------------------------
(***************************************************************************)
(* A small instance of Publication.                                        *)
(***************************************************************************)
EXTENDS Publication, TLC

\* Deploy runs are alike.
MCSymmetry == Permutations(Deploys)
=============================================================================
