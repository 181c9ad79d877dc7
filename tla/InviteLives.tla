---------------------------- MODULE InviteLives ----------------------------
(***************************************************************************)
(* What a signup invite promises (internal/auth/handler.go, Register;      *)
(* internal/handlers/admin.go), without requests, families or statements:  *)
(* it is open until one account is spent on it or it is revoked; while it  *)
(* is held it can be given back or lost, and nothing brings back what is   *)
(* spent, lost or revoked.  Module Registration implements this            *)
(* specification.                                                          *)
(***************************************************************************)

CONSTANTS
  Invites,   \* signup invites
  Logins     \* accounts

VARIABLES
  life,    \* life[i]: where the invite is in its life
  heirs    \* heirs[i]: the accounts that i has created

vars == <<life, heirs>>

Init ==
  /\ life = [i \in Invites |-> "unissued"]
  /\ heirs = [i \in Invites |-> {}]

\* i goes from one of some stages of its life to another one.
Goes(i, from, to) == life[i] \in from /\ life' = [life EXCEPT ![i] = to]

Issue(i) == Goes(i, {"unissued"}, "open") /\ UNCHANGED heirs

Revoke(i) == Goes(i, {"open"}, "revoked") /\ UNCHANGED heirs

\* One of those who present it holds it, and may give it back.
Take(i) == Goes(i, {"open"}, "held") /\ UNCHANGED heirs

GiveBack(i) == Goes(i, {"held"}, "open") /\ UNCHANGED heirs

\* Its one account.
Spend(i, l) == Goes(i, {"held"}, "spent") /\ heirs' = [heirs EXCEPT ![i] = {l}]

\* Taken, and nobody holds it: no account comes of it.
Lose(i) == Goes(i, {"open", "held"}, "lost") /\ UNCHANGED heirs

\* An account was created and nobody was told: nothing is promised from here on.
Misfire(i) == Goes(i, {"held"}, "void") /\ UNCHANGED heirs

Next ==
  \E i \in Invites :
    \/ Issue(i) \/ Revoke(i) \/ Take(i) \/ GiveBack(i) \/ Lose(i) \/ Misfire(i)
    \/ \E l \in Logins : Spend(i, l)

Spec == Init /\ [][Next]_vars
=============================================================================
