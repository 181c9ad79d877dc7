--------------------------- MODULE SessionChains ---------------------------
(***************************************************************************)
(* What the refresh-token machinery of internal/auth promises, without     *)
(* tokens, requests or passwords: a login opens a session chain for one    *)
(* account; a chain stays open through any number of rotations; once it is *)
(* closed (logout, expiry, password change, failed rotation) it is closed  *)
(* for good.  Module Sessions implements this specification.               *)
(***************************************************************************)

CONSTANTS
  Chains,   \* session chains, one per login
  Users,    \* accounts
  NoUser    \* the owner of a chain that was never opened

VARIABLES
  chain,    \* chain[c]: "unopened", "open" or "closed"
  owner     \* owner[c]: the account c was opened for

vars == <<chain, owner>>

Init ==
  /\ chain = [c \in Chains |-> "unopened"]
  /\ owner = [c \in Chains |-> NoUser]

\* A login succeeds.
Open(c, u) ==
  /\ chain[c] = "unopened"
  /\ chain' = [chain EXCEPT ![c] = "open"]
  /\ owner' = [owner EXCEPT ![c] = u]

\* Some open chains end together: one of them, or every one that a password
\* change reaches.
Close(S) ==
  /\ S # {}
  /\ \A c \in S : chain[c] = "open"
  /\ chain' = [c \in Chains |-> IF c \in S THEN "closed" ELSE chain[c]]
  /\ UNCHANGED owner

Next ==
  \/ \E c \in Chains, u \in Users : Open(c, u)
  \/ \E S \in SUBSET Chains : Close(S)

Spec == Init /\ [][Next]_vars
=============================================================================
