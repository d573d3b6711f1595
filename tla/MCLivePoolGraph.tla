-------------------------- MODULE MCLivePoolGraph --------------------------
(***************************************************************************)
(* A small instance of LivePoolGraph: four pools on three tokens, enough   *)
(* for a triangle with one side doubled and for two pools on one pair.     *)
(***************************************************************************)
EXTENDS LivePoolGraph, TLC

CONSTANTS a, b, c, r1

TokenSymmetry == Permutations(Tokens)

=============================================================================
