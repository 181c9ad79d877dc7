------------------------------ MODULE MCAccounts ------------------------------
(***************************************************************************)
(* Model values for Accounts and Billing: one family, whose plan and       *)
(* coupon change while two requests run.                                   *)
(***************************************************************************)
EXTENDS Accounts, TLC

CONSTANTS f1, c1, p1, p2, u1, u2, a1, a2, a3

MCFamilies == {f1}
MCCoupons == {c1}
MCProcs == {p1, p2}
MCUsers == {u1, u2}
MCAccounts == {a1, a2, a3}
MCMaxima == {1}

Symmetry == Permutations(MCProcs) \cup Permutations(MCUsers) \cup Permutations(MCAccounts)
=============================================================================
