------------------------------ MODULE MCTagging ------------------------------
(***************************************************************************)
(* Model values for Tagging.                                               *)
(***************************************************************************)
EXTENDS Tagging, TLC

CONSTANTS t1, t2, s1, c1, p1, p2, b1, b2

MCTxs == {t1, t2}
MCSystemTags == {s1}
MCCustomTags == {c1}
MCProcs == {p1, p2}
MCSlots == {b1, b2}

\* At first t1 is tagged by hand, and t2 is to come or is there untagged.
MCInit ==
  /\ Init
  /\ tx[t1].manual /\ ~tx[t2].manual
  /\ tagged = {<<t1, c1>>} /\ lag = FALSE /\ shared = <<>>
MCSpec == MCInit /\ [][Next]_vars

\* A new family; others have trained.
MCNewInit ==
  /\ Init
  /\ \A t \in Txs : tx[t].at = "new"
  /\ model = NoModel /\ shared = <<Trained({})>>
MCNewSpec == MCNewInit /\ [][Next]_vars

Symmetry == Permutations(MCProcs) \cup Permutations(MCSlots)

(***************************************************************************)
(* Of the states TLC tells apart what a step or a property can still read. *)
(* Of a request that is to learn that is the tags; of a batch between two  *)
(* transactions those to come; of an import that has classified nothing of *)
(* the classifier.  The rows for all families are read by Inherit alone,   *)
(* which needs a failure: without one to come, what matters of them is     *)
(* that no tag of a family is there.                                       *)
(***************************************************************************)
LiveRequest(r) ==
  CASE r.at = "learn" -> [Idle EXCEPT !.at = "learn", !.plan = r.plan]
    [] r.at = "next" /\ r.kind = "batch" -> [r EXCEPT !.on = {}, !.plan = {}]
    [] r.at = "row" -> [r EXCEPT !.docs = NoModel, !.left = {},
                                 !.plan = {d \in @ : d[1] \in r.on}]
    [] OTHER -> r

LiveShared(m) ==
  IF faults < MaxFaults THEN m
  ELSE [known |-> {}, docs |-> {d \in m.docs : d[2] \in CustomTags}]

LiveBuild(b) == IF b.all THEN [b EXCEPT !.docs = LiveShared(@)] ELSE b

MCView ==
  <<tags, tx, tagged, rule, model, [i \in DOMAIN shared |-> LiveShared(shared[i])], due,
    [b \in Builders |-> LiveBuild(build[b])], [p \in Procs |-> LiveRequest(req[p])],
    hand, excused, lag, started, faults>>
=============================================================================
