------------------------------- MODULE MCParts -------------------------------
(***************************************************************************)
(* StatementImport and the small parts, StatementFiles, Listing,           *)
(* RateLimiter, Migrations and NaiveBayes, for TLC.  They share nothing: a *)
(* behaviour is one of one part and the others stand still, so the state   *)
(* spaces add up.                                                          *)
(***************************************************************************)
EXTENDS
  StatementImport, StatementFiles, Listing, RateLimiter, Migrations, NaiveBayes, TLC

CONSTANTS
  row1, row2, row3, account1, account2, replica1, key1, key2, machine1, machine2,
  class1, class2, class3, word1, word2, noise1,
  MaxExcuses  \* bound on the transactions with a failure or deletion

\* The account of SomeRows is one of the accounts.
ASSUME PartsAssumption == account1 \in ListAccounts

VARIABLE part   \* which part runs

\* Statements of one or two transactions, in both orders.
MCFiles == {<<f>> : f \in Bank} \cup {<<f, g>> : f, g \in Bank}

\* Who asks for all accounts by name gets what he gets who asks for none: Effective.
MCBound ==
  /\ Cardinality(missed) + Cardinality(dropped) + Cardinality(removed) <= MaxExcuses
  /\ walk.asked # ListAccounts

MCAmounts == {-5, 0, 5}
MCRows == {row1, row2, row3}
MCListAccounts == {account1, account2}
MCReplicas == {replica1}
MCKeys == {key1, key2}
MCMachines == {machine1, machine2}
MCClasses == {class1, class2, class3}
MCWords == {word1, word2, noise1}
MCNoise == {noise1}

\* Rows that are there come before those that are not, then by account and day.
Place(r) ==
  (IF There(r) THEN 0 ELSE 4) + (IF row[r].account = account1 THEN 0 ELSE 2) + row[r].day

ThereOn(a) == {r \in Rows : There(r) /\ row[r].account = a}

\* At first there are at least two transactions.  Rows and accounts are interchangeable:
\* of the tables that differ by their names only, one at least is in order.
MCListingInit ==
  /\ ListingInit
  /\ Cardinality({r \in Rows : There(r)}) >= 2
  /\ Place(row1) <= Place(row2) /\ Place(row2) <= Place(row3)
  /\ Cardinality(ThereOn(account1)) >= Cardinality(ThereOn(account2))

\* The table that the other parts leave alone.
SomeRows == row = [r \in Rows |-> [account |-> account1, day |-> 0, at |-> "new"]]

MCInit ==
  /\ part \in {"import", "files", "listing", "limiter", "migrations", "classifier"}
  /\ Init /\ FilesInit /\ LimiterInit /\ MigrationsInit /\ BayesInit
  /\ IF part = "listing" THEN MCListingInit ELSE SomeRows /\ free = FALSE /\ today = 0
       /\ visible = {} /\ list = NoList /\ walk = NoWalk /\ changes = 0

Still(others) == UNCHANGED <<part, others>>

MCNext ==
  \/ /\ part = "import" /\ Next
     /\ Still(<<filesVars, listingVars, limiterVars, migrationVars, bayesVars>>)
  \/ /\ part = "files" /\ FilesNext
     /\ Still(<<vars, listingVars, limiterVars, migrationVars, bayesVars>>)
  \/ /\ part = "listing" /\ ListingNext
     /\ Still(<<vars, filesVars, limiterVars, migrationVars, bayesVars>>)
  \/ /\ part = "limiter" /\ LimiterNext
     /\ Still(<<vars, filesVars, listingVars, migrationVars, bayesVars>>)
  \/ /\ part = "migrations" /\ MigrationsNext
     /\ Still(<<vars, filesVars, listingVars, limiterVars, bayesVars>>)
  \/ /\ part = "classifier" /\ BayesNext
     /\ Still(<<vars, filesVars, listingVars, limiterVars, migrationVars>>)

MCSpec ==
  MCInit /\ [][MCNext]_
    <<part, vars, filesVars, listingVars, limiterVars, migrationVars, bayesVars>>

\* Every small part is well typed.
PartsTypeOK == FilesTypeOK /\ ListingTypeOK /\ LimiterTypeOK /\ MigrationsTypeOK

\* Bank, Plans and Imports are closed under renaming, MCFiles with Bank.
MCSymmetry == Permutations(Bank) \cup Permutations(Plans) \cup Permutations(Imports)

(***************************************************************************)
(* Of the states TLC tells apart what a step or a property can still read: *)
(* which transactions a row fits that was deleted and no request holds,    *)
(* and which came too late for one that is reconciled, is of the past; so  *)
(* is a transaction that is not there and will not come, a walk of which   *)
(* WalkComplete asks nothing any more, and, of a page that is answered,    *)
(* what it was read with.                                                  *)
(***************************************************************************)
LivePlan(p) ==
  CASE plan[p].status = "RECONCILED" -> [plan[p] EXCEPT !.late = {}]
    [] plan[p].status = "deleted" /\ \A r \in Imports : req[r].match # p ->
         [plan[p] EXCEPT !.fits = {}]
    [] OTHER -> plan[p]

LiveRow(r) ==
  IF changes < MaxChanges \/ There(r) \/ r \in Shown THEN row[r]
  ELSE [account |-> account1, day |-> 0, at |-> "gone"]

LiveWalk ==
  IF walk.still /\ ~walk.tied THEN walk
  ELSE [walk EXCEPT !.times = NoWalk.times, !.tied = FALSE, !.still = FALSE]

LivePage ==
  IF list.at # "done" THEN list
  ELSE [list EXCEPT !.asked = {}, !.allowed = {}, !.from = 0,
                    !.changed = IF list.data = <<>> THEN {} ELSE @]

MCView == <<part, [p \in Plans |-> LivePlan(p)], posted, req, history,
            today, [r \in Rows |-> LiveRow(r)], visible, free, LivePage, LiveWalk, changes,
            filesVars, limiterVars, migrationVars, bayesVars>>
=============================================================================
