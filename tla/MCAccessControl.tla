--------------------------- MODULE MCAccessControl ---------------------------
(***************************************************************************)
(* Model values for AccessControl.  Users, families and request slots are  *)
(* interchangeable: no action names one of them.                           *)
(***************************************************************************)
EXTENDS AccessControl, TLC

CONSTANTS u1, u2, f1, f2, p1, p2

MCUsers == {u1, u2}
MCFamilies == {f1, f2}
MCProcs == {p1, p2}
MCConsentTTLs == {1}

\* At first the two users are one family; a Move parts them.
MCInit == Init /\ \E f \in Families : family = [u \in Users |-> f]
MCSpec == MCInit /\ [][Next]_vars

Symmetry == Permutations(MCUsers) \cup Permutations(MCFamilies) \cup Permutations(MCProcs)
=============================================================================
