--------------------------- MODULE MCRegistration ---------------------------
(***************************************************************************)
(* Registration for TLC: symmetry of the interchangeable constants.        *)
(***************************************************************************)
EXTENDS Registration, TLC

Symmetry == Permutations(Procs) \cup Permutations(Logins)
              \cup Permutations(Invites) \cup Permutations(Families)
=============================================================================
