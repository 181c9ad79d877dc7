------------------------------ MODULE Listing ------------------------------
(***************************************************************************)
(* GET /transactions (internal/handlers/transaction.go, List;              *)
(* internal/repository/transaction.go, List): a client walks the pages of  *)
(* its transactions while rows, the lists of the accounts and the plan     *)
(* change.                                                                 *)
(*                                                                         *)
(* A page is four statements: the visible accounts, the family with its    *)
(* plan, the count and the rows.  Rows are ordered by date alone, so rows  *)
(* of one day come in any order, another one in each statement.  The other *)
(* filters of the query only narrow the rows and are left out.             *)
(***************************************************************************)
EXTENDS Integers, FiniteSets, Sequences, FiniteSetsExt

CONSTANTS
  Rows, ListAccounts,        \* ids of transactions and accounts
  HistoryDays,               \* FreeHistoryDays
  Limits, Froms,             \* limits and first days that clients ask for (0: all)
  DefaultLimit, MaxLimit,    \* 20 and 100
  LastDay, MaxChanges        \* bounds of the model

ASSUME ListingAssumption ==
  /\ HistoryDays \in Nat \ {0} /\ LastDay \in Nat \ {0} /\ MaxChanges \in Nat
  /\ DefaultLimit \in 1..MaxLimit /\ MaxLimit \in Nat /\ Limits \subseteq Int
  /\ Froms \subseteq 0..LastDay
  /\ IsFiniteSet(Rows)

VARIABLES
  today,
  row,       \* the table transactions: account, date_posted and whether it is there
  visible,   \* accounts whose list lets the user see them
  free,      \* whether the family is on the limits of FREE
  list,      \* the request for a page, if there is one
  walk,      \* history: the client's walk through the pages
  changes    \* how much has changed

listingVars == <<today, row, visible, free, list, walk, changes>>

\* A request for a page.  changed is history: what others changed since it began;
\* midnight tells that a day ended meanwhile: it does not live to see a second.
NoList == [at |-> "idle", page |-> 1, limit |-> DefaultLimit, asked |-> {}, allowed |-> {},
           from |-> 0, total |-> 0, data |-> <<>>, changed |-> {}, midnight |-> FALSE]

\* times is how often the walk has shown each row, tied that two rows of one day
\* stood on both sides of the end of a page, still that nothing has changed and
\* no read was cut short.
NoWalk == [page |-> 0, limit |-> DefaultLimit, asked |-> {}, from |-> 0,
           times |-> [r \in Rows |-> 0], tied |-> FALSE, still |-> TRUE, over |-> FALSE]

ListingInit ==
  /\ today = LastDay - 1
  /\ row \in [Rows -> [account : ListAccounts, day : 0..(LastDay - 1), at : {"new", "there"}]]
  /\ visible = ListAccounts
  /\ free \in BOOLEAN
  /\ list = NoList /\ walk = NoWalk /\ changes = 0

There(r) == row[r].at = "there"

-----------------------------------------------------------------------------
(* What changes meanwhile.                                                 *)

Change(what) ==
  /\ changes < MaxChanges /\ changes' = changes + 1
  /\ list' = [list EXCEPT !.changed = IF list.at = "idle" THEN @ ELSE @ \cup {what}]
  /\ walk' = [walk EXCEPT !.still = FALSE]

\* An import or a deletion.
ChangeRow(r) ==
  /\ row[r].at # "gone"
  /\ row' = [row EXCEPT ![r].at = IF @ = "new" THEN "there" ELSE "gone"]
  /\ Change("rows")
  /\ UNCHANGED <<today, visible, free>>

ChangeVisible(a) ==
  /\ visible' = IF a \in visible THEN visible \ {a} ELSE visible \cup {a}
  /\ Change("visible")
  /\ UNCHANGED <<today, row, free>>

ChangePlan == free' = ~free /\ Change("plan") /\ UNCHANGED <<today, row, visible>>

NextDay ==
  /\ today < LastDay /\ today' = today + 1
  /\ ~list.midnight /\ list' = [list EXCEPT !.midnight = list.at # "idle"]
  /\ walk' = [walk EXCEPT !.still = FALSE]
  /\ UNCHANGED <<row, visible, free, changes>>

-----------------------------------------------------------------------------
(* The request for a page.                                                 *)

Clamp(limit) == IF limit < 1 THEN DefaultLimit ELSE IF limit > MaxLimit THEN MaxLimit ELSE limit

\* The client begins a walk, asking for some accounts (or none in particular) and
\* the days since from (0: all).
BeginWalk(limit, asked, from) ==
  /\ list.at = "idle" /\ walk.page = 0
  /\ walk' = [NoWalk EXCEPT !.page = 1, !.limit = limit, !.asked = asked, !.from = from]
  /\ UNCHANGED <<today, row, visible, free, list, changes>>

\* FindVisibleAccounts has seen these: an error while they come in is none (nothing
\* asks rows.Err).  No account: an empty page.
ReadVisible(seen) ==
  /\ list.at = "idle" /\ walk.page > 0 /\ ~walk.over
  /\ list' = [NoList EXCEPT !.at = IF seen = {} THEN "done" ELSE "plan",
               !.page = walk.page, !.limit = Clamp(walk.limit), !.asked = walk.asked,
               !.allowed = seen, !.from = walk.from]
  /\ walk' = [walk EXCEPT !.still = @ /\ seen = visible]
  /\ UNCHANGED <<today, row, visible, free, changes>>

\* The plan's history: an error of FindByID is no limit.
ReadPlan(fails) ==
  LET earliest == today - HistoryDays IN
  /\ list.at = "plan"
  /\ list' = [list EXCEPT !.at = "count",
               !.from = IF free /\ ~fails /\ list.from < earliest THEN earliest ELSE @,
               !.changed = IF fails THEN @ \cup {"plan"} ELSE @]
  /\ walk' = [walk EXCEPT !.still = @ /\ ~fails]
  /\ UNCHANGED <<today, row, visible, free, changes>>

\* Accounts asked for that are visible; nothing asked for: all that are visible.
Effective == IF list.asked = {} THEN list.allowed ELSE list.asked \cap list.allowed

Matching == {r \in Rows : There(r) /\ row[r].account \in Effective /\ row[r].day >= list.from}

CountRows ==
  /\ list.at = "count"
  /\ list' = [list EXCEPT !.at = "page", !.total = Cardinality(Matching)]
  /\ UNCHANGED <<today, row, visible, free, walk, changes>>

Skip(page, limit) == (page - 1) * limit

\* The orders in which the database may return the rows that match.
Orders ==
  {s \in [1..Cardinality(Matching) -> Matching] :
     /\ \A i, j \in DOMAIN s : i # j => s[i] # s[j]
     /\ \A i, j \in DOMAIN s : i < j => row[s[i]].day >= row[s[j]].day}

\* LIMIT and OFFSET; an error while the rows come in ends the page early, as above.
ReadRows(s, cut) ==
  LET skip == Skip(list.page, list.limit)
      end == Min({skip + list.limit, Len(s)})
      data == SubSeq(s, skip + 1, IF cut THEN end - 1 ELSE end)
  IN
  /\ list.at = "page"
  /\ cut => end > skip
  /\ list' = [list EXCEPT !.at = "done", !.data = data]
  /\ walk' = [walk EXCEPT !.tied = @ \/ (end \in 1..(Len(s) - 1)
                                         /\ row[s[end]].day = row[s[end + 1]].day),
                          !.still = @ /\ ~cut]
  /\ UNCHANGED <<today, row, visible, free, changes>>

\* Mutant of TotalPages: the division without what is left over.
TotalPagesFloor(total, limit) == total \div limit

TotalPages(total, limit) == (total + limit - 1) \div limit

\* The client takes the answer and goes on as long as there are pages.
TakePage ==
  /\ list.at = "done"
  /\ walk' = [walk EXCEPT
       !.times = [r \in Rows |-> @[r] + Cardinality({i \in DOMAIN list.data : list.data[i] = r})],
       !.page = @ + 1, !.over = list.page >= TotalPages(list.total, list.limit)]
  /\ list' = NoList
  /\ UNCHANGED <<today, row, visible, free, changes>>

\* An error answer, or no more interest: the client starts again some time.
GiveUp ==
  /\ walk.page > 0
  /\ walk' = NoWalk /\ list' = NoList
  /\ UNCHANGED <<today, row, visible, free, changes>>

ListingNext ==
  \/ \E r \in Rows : ChangeRow(r)
  \/ \E a \in ListAccounts : ChangeVisible(a)
  \/ ChangePlan
  \/ NextDay
  \/ \E limit \in Limits, asked \in SUBSET ListAccounts, from \in Froms :
       BeginWalk(limit, asked, from)
  \/ \E seen \in SUBSET visible : ReadVisible(seen)
  \/ \E fails \in BOOLEAN : ReadPlan(fails)
  \/ CountRows
  \/ list.at = "page" /\ \E s \in Orders, cut \in BOOLEAN : ReadRows(s, cut)
  \/ TakePage
  \/ GiveUp

ListingSpec == ListingInit /\ [][ListingNext]_listingVars

-----------------------------------------------------------------------------
(* Properties.                                                             *)

\* The table, the request and the walk are well typed; a page is no longer than
\* MaxLimit.
ListingTypeOK ==
  /\ today \in 0..LastDay /\ visible \subseteq ListAccounts /\ free \in BOOLEAN
  /\ row \in [Rows -> [account : ListAccounts, day : 0..LastDay, at : {"new", "there", "gone"}]]
  /\ list.at \in {"idle", "plan", "count", "page", "done"}
  /\ list.data \in Seq(Rows) /\ Len(list.data) <= MaxLimit
  /\ list.allowed \subseteq ListAccounts /\ list.from \in Int /\ list.total \in 0..Cardinality(Rows)
  /\ walk.page \in Nat /\ changes \in 0..MaxChanges

Shown == {list.data[i] : i \in DOMAIN list.data}

\* A page shows only accounts that the user may see, whatever accounts were asked
\* for, and on the plan FREE nothing older than its history: unless the list or
\* the plan was changed while this request ran, or reading the plan failed
\* (internal/handlers/transaction.go:517-528, internal/repository/transaction.go:304-330).
OnlyAllowed ==
  \A r \in Shown :
    /\ row[r].account \in visible \/ "visible" \in list.changed
    /\ free => \/ row[r].day >= today - HistoryDays - (IF list.midnight THEN 1 ELSE 0)
               \/ "plan" \in list.changed

\* A walk through all pages shows each row that matches exactly once, unless
\* something changed meanwhile, a read failed or was cut short, of the accounts or
\* of the rows, or two rows of one day stood at the end of a page: ORDER BY
\* date_posted does not order those (internal/repository/transaction.go:394-448,
\* internal/repository/account.go:52-93).
WalkComplete ==
  walk.over /\ walk.still /\ ~walk.tied =>
    \A r \in Rows :
      walk.times[r] =
        IF /\ There(r) /\ row[r].account \in visible
           /\ walk.asked = {} \/ row[r].account \in walk.asked
           /\ row[r].day >= walk.from
           /\ ~free \/ row[r].day >= today - HistoryDays
        THEN 1 ELSE 0

\* The pages of a list hold what the user may see, all of it and once
\* (internal/handlers/transaction.go:402-468).
PagesFaithful == OnlyAllowed /\ WalkComplete
=============================================================================
