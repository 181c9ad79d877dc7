---------------------------- MODULE MCOFXReminder ----------------------------
(***************************************************************************)
(* OFXReminder for TLC.  Symmetry is for runs of Spec only: fairness sets  *)
(* Steady apart from the other replicas.                                   *)
(***************************************************************************)
EXTENDS OFXReminder, TLC

CONSTANTS
  f1, f2, f3, r1, r2,
  MaxLost  \* bound on the claims whose mail is lost

MCFamilies == {f1, f2}
MCThreeFamilies == {f1, f2, f3}
MCReplicas == {r1, r2}

MCBound == Cardinality(lost) <= MaxLost

Symmetry == Permutations(MCThreeFamilies) \cup Permutations(MCReplicas)

(***************************************************************************)
(* For liveness the imports of a family must not come to an end.  Their    *)
(* numbers only name points in time: Renumber lets two points that nothing *)
(* tells apart, any more, have one name, so that Import has a number left. *)
(***************************************************************************)
\* The points of f that are, or may become, its sent_at.
Marks(f) ==
  {sent[f]} \cup {run[r].rows[f].now : r \in {q \in Replicas : f \in DOMAIN run[q].rows}}

Renumber(f, k) ==
  LET name(p) == IF p >= k THEN p - 1 ELSE p IN
  /\ imports[f] = MaxImports /\ k - 1 \notin Marks(f)
  /\ imports' = [imports EXCEPT ![f] = @ - 1]
  /\ last' = [last EXCEPT ![f] = name(@)]
  /\ sent' = [sent EXCEPT ![f] = name(@)]
  /\ run' = [r \in Replicas |-> [run[r] EXCEPT !.rows =
       [g \in DOMAIN @ |-> IF g = f THEN [ref |-> name(@[g].ref), now |-> name(@[g].now)]
                           ELSE @[g]]]]
  /\ UNCHANGED <<age, today, blind, history>>

MCFairNext == Next \/ \E f \in Families, k \in 1 .. MaxImports : Renumber(f, k)

MCFairSpec == Init /\ [][MCFairNext]_vars /\ Fairness

\* No guard, no fairness and no part of StaleFamilyClaimed reads the history.
MCView == <<tables, run>>
=============================================================================
