---------------------------- MODULE MCMembership ----------------------------
(***************************************************************************)
(* Model values for Membership.  Users, families, invites and request      *)
(* slots are interchangeable, in their initial values and in every action. *)
(***************************************************************************)
EXTENDS Membership, TLC

CONSTANTS u1, u2, u3, f1, f2, i1, i2, p1, p2

MCUsers == {u1, u2}
MCThreeUsers == {u1, u2, u3}
MCFamilies == {f1, f2}
MCOneFamily == {f1}
MCInvites == {i1}
MCProcs == {p1, p2}

Symmetry == Permutations(MCUsers) \cup Permutations(MCFamilies) \cup Permutations(MCProcs)
ThreeSymmetry ==
  Permutations(MCThreeUsers) \cup Permutations(MCFamilies) \cup Permutations(MCProcs)
=============================================================================
