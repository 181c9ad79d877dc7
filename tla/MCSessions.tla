----------------------------- MODULE MCSessions -----------------------------
(***************************************************************************)
(* Sessions for TLC: symmetry of the interchangeable constants.            *)
(***************************************************************************)
EXTENDS Sessions, TLC

Symmetry == Permutations(Procs) \cup Permutations(Users)
              \cup Permutations(ResetTokens) \cup Permutations(Tokens)
=============================================================================
