------------------------------ MODULE Accounts ------------------------------
(***************************************************************************)
(* Bank accounts and who may see them (internal/handlers/account.go,       *)
(* internal/repository/account.go), composed with the plans of Billing     *)
(* that bound their number.                                                *)
(*                                                                         *)
(* An account has a list of users; the empty list opens it to the family.  *)
(* No request is a transaction: Create counts, inserts the account and     *)
(* then each user of the list; Update reads the account, then its list,    *)
(* and always writes the list anew, by a DELETE and one INSERT per user,   *)
(* even for a change of the name.  The columns besides the list are left   *)
(* out, and so is Update's UPDATE, which writes only those.                *)
(***************************************************************************)
EXTENDS Billing

CONSTANTS Users, Accounts, NoUser, NoAccount,
          FreeMaxAccounts   \* accounts of a family on the plan FREE

ASSUME AccountsAssumption ==
  /\ NoUser \notin Users /\ NoAccount \notin Accounts
  /\ IsFiniteSet(Accounts) /\ FreeMaxAccounts \in Nat

VARIABLES
  account,   \* the tables accounts and account_allowed_users
  gone,      \* users that have deleted themselves
  req,       \* requests in flight
  want,      \* history: the list that was last asked for
  mixed,     \* history: the last write of the list was not one whole write
  paid       \* history: families that have had a plan without limits

vars == <<billingVars, account, gone, req, want, mixed, paid>>

Account == [exists : BOOLEAN, family : Families \cup {NoFamily},
            by : Users \cup {NoUser}, allowed : SUBSET Users]
Nothing == [exists |-> FALSE, family |-> NoFamily, by |-> NoUser, allowed |-> {}]

\* A request: list is what it will write, asks whether the payload has it.
\* alone is history: no other request wrote the list of this account since this
\* one has read it.
Request ==
  [at : {"idle", "count", "insert", "read", "write", "list"}, user : Users \cup {NoUser},
   family : Families \cup {NoFamily}, account : Accounts \cup {NoAccount},
   list : SUBSET Users, asks : BOOLEAN, alone : BOOLEAN]
Idle == [at |-> "idle", user |-> NoUser, family |-> NoFamily, account |-> NoAccount,
         list |-> {}, asks |-> FALSE, alone |-> TRUE]

Init ==
  /\ BillingInit
  /\ account = [a \in Accounts |-> Nothing]
  /\ gone = {}
  /\ req = [p \in Procs |-> Idle]
  /\ want = [a \in Accounts |-> {}]
  /\ mixed = [a \in Accounts |-> FALSE]
  /\ paid = {f \in Families : IsPro(plan[f])}

AccountsOf(f) == {a \in Accounts : account[a].exists /\ account[a].family = f}

\* Requests that have begun to write the list of a.
Writing(a) == {p \in Procs : req[p].at = "list" /\ req[p].account = a}

\* p goes on as r, having written the list of a: others are no longer alone.
Wrote(p, a, r) ==
  req' = [q \in Procs |-> IF q = p THEN r
                          ELSE [req[q] EXCEPT !.alone = @ /\ req[q].account # a]]

Finish(p) == req' = [req EXCEPT ![p] = Idle]

-----------------------------------------------------------------------------
(* Create.                                                                 *)

\* CheckCanAddAccount reads the family, and counts only if the plan has a limit.
\* The access token of a user who is gone still brings requests.
CheckPlan(p, u, f, L) ==
  /\ ComesIn
  /\ req[p] = Idle /\ apply[p] = NotApplying
  /\ req' = [req EXCEPT ![p] = [Idle EXCEPT !.at = IF IsPro(plan[f]) THEN "insert" ELSE "count",
                                            !.user = u, !.family = f, !.list = L, !.asks = TRUE]]
  /\ UNCHANGED <<plan, coupon, apply, granted, lost, peak, account, gone, want, mixed, paid>>

CountAccounts(p) ==
  /\ req[p].at = "count"
  /\ IF Cardinality(AccountsOf(req[p].family)) >= FreeMaxAccounts
     THEN Finish(p)
     ELSE req' = [req EXCEPT ![p].at = "insert"]
  /\ UNCHANGED <<billingVars, account, gone, want, mixed, paid>>

\* The account is there, and open, before the first user of its list.
InsertAccount(p, a) ==
  LET L == req[p].list IN
  /\ req[p].at = "insert"
  /\ ~account[a].exists
  /\ IF req[p].user \in gone
     THEN UNCHANGED <<account, want, mixed>> /\ Finish(p)
     ELSE /\ account' = [account EXCEPT ![a] = [exists |-> TRUE, family |-> req[p].family,
                                                by |-> req[p].user, allowed |-> {}]]
          /\ want' = [want EXCEPT ![a] = L]
          /\ mixed' = [mixed EXCEPT ![a] = FALSE]
          /\ Wrote(p, a, IF L = {} THEN Idle
                         ELSE [req[p] EXCEPT !.at = "list", !.account = a])
  /\ UNCHANGED <<billingVars, gone, paid>>

-----------------------------------------------------------------------------
(* Update.                                                                 *)

\* FindByID: the row, for a user of its family.
FindRow(p, u, a) ==
  /\ ComesIn
  /\ req[p] = Idle /\ apply[p] = NotApplying
  /\ account[a].exists
  /\ req' = [req EXCEPT ![p] = [Idle EXCEPT !.at = "read", !.user = u,
                                            !.family = account[a].family, !.account = a,
                                            !.alone = Writing(a) = {}]]
  /\ UNCHANGED <<plan, coupon, apply, granted, lost, peak, account, gone, want, mixed, paid>>

\* Who an account with this list is open to (FindVisibleAccounts asks the same).
OpenTo(list, u) == list = {} \/ u \in list

\* p has read the list; it will write N.
Decide(p, read, N, asks, alone) ==
  /\ IF OpenTo(read, req[p].user)
     THEN req' = [req EXCEPT ![p].at = "write", ![p].list = N, ![p].asks = asks,
                             ![p].alone = alone]
     ELSE Finish(p)
  /\ UNCHANGED <<billingVars, account, gone, want, mixed, paid>>

\* Mutant of Rename: the list that goes back is empty.
RenameOpening(p) ==
  /\ req[p].at = "read"
  /\ Decide(p, account[req[p].account].allowed, {}, FALSE, req[p].alone)

\* The payload has no list: what was read goes back.
Rename(p) ==
  LET list == account[req[p].account].allowed IN
  /\ req[p].at = "read"
  /\ Decide(p, list, list, FALSE, req[p].alone)

\* The query of the list fails or is cut short, its error is dropped, and what has
\* come in goes back: of nothing, the account counts as open.
RenameBlind(p, read) ==
  /\ req[p].at = "read"
  /\ read \subseteq account[req[p].account].allowed
  /\ Decide(p, read, read, FALSE, FALSE)

\* The payload has a list, and the query of the old one may fail as well.
ChangeList(p, L, read) ==
  /\ req[p].at = "read"
  /\ read \subseteq account[req[p].account].allowed
  /\ Decide(p, read, L, TRUE, req[p].alone)

\* The end of a write: the list is what was asked for if no other came in between.
Done(p, a) ==
  /\ mixed' = [mixed EXCEPT ![a] = ~req[p].alone \/ (@ /\ ~req[p].asks)]
  /\ Wrote(p, a, Idle)

Asked(p, a) == want' = IF req[p].asks THEN [want EXCEPT ![a] = req[p].list] ELSE want

\* Update of the repository: DELETE of the whole list.
ClearList(p) ==
  LET a == req[p].account IN
  /\ req[p].at = "write"
  /\ account' = [account EXCEPT ![a].allowed = {}]
  /\ Asked(p, a)
  /\ IF req[p].list = {} THEN Done(p, a)
     ELSE Wrote(p, a, [req[p] EXCEPT !.at = "list"]) /\ UNCHANGED mixed
  /\ UNCHANGED <<billingVars, gone, paid>>

\* INSERT of the next user: the primary key refuses a second row, the foreign
\* keys an account or a user that is gone; then the rest is not written.
InsertAllowed(p, u) ==
  LET a == req[p].account  left == req[p].list \ {u} IN
  /\ req[p].at = "list" /\ u \in req[p].list
  /\ IF ~account[a].exists \/ u \in gone \/ u \in account[a].allowed
     THEN /\ mixed' = [mixed EXCEPT ![a] = TRUE]
          /\ Finish(p) /\ UNCHANGED account
     ELSE /\ account' = [account EXCEPT ![a].allowed = @ \cup {u}]
          /\ IF left = {} THEN Done(p, a)
                          ELSE Wrote(p, a, [req[p] EXCEPT !.list = left]) /\ UNCHANGED mixed
  /\ UNCHANGED <<billingVars, gone, want, paid>>

\* A statement fails or the server stops.
Fail(p) ==
  /\ req[p].at \in {"write", "list"}
  /\ mixed' = [a \in Accounts |-> mixed[a] \/ p \in Writing(a)]
  /\ Finish(p)
  /\ UNCHANGED <<billingVars, account, gone, want, paid>>

-----------------------------------------------------------------------------
\* Delete: only for who has created the account.  The list goes with the row.
Delete(u, a) ==
  /\ ComesIn
  /\ account[a].exists /\ account[a].by = u
  /\ account' = [account EXCEPT ![a] = Nothing]
  /\ UNCHANGED <<plan, coupon, apply, granted, lost, peak, gone, req, want, mixed, paid>>

\* Mutant of EraseUser: the lists keep the user.
EraseUserListed(u, v) ==
  /\ ComesIn
  /\ u \notin gone /\ v \notin gone \cup {u}
  /\ gone' = gone \cup {u}
  /\ account' = [a \in Accounts |-> [account[a] EXCEPT !.by = IF @ = u THEN v ELSE @]]
  /\ UNCHANGED <<plan, coupon, apply, granted, lost, peak, req, want, mixed, paid>>

\* DELETE /me: the user leaves every list, and someone else has created what
\* the user had.
EraseUser(u, v) ==
  /\ ComesIn
  /\ u \notin gone /\ v \notin gone \cup {u}
  /\ gone' = gone \cup {u}
  /\ account' = [a \in Accounts |->
       [account[a] EXCEPT !.allowed = @ \ {u}, !.by = IF @ = u THEN v ELSE @]]
  /\ UNCHANGED <<plan, coupon, apply, granted, lost, peak, req, want, mixed, paid>>

\* A step of Billing; a slot serves one request at a time.
BillingStep ==
  /\ BillingNext
  /\ \A p \in Procs : req[p] = Idle \/ apply'[p] = NotApplying
  /\ paid' = paid \cup {f \in Families : IsPro(plan'[f])}
  /\ UNCHANGED <<account, gone, req, want, mixed>>

Next ==
  \/ BillingStep
  \/ \E p \in Procs, u \in Users, f \in Families, L \in SUBSET Users : CheckPlan(p, u, f, L)
  \/ \E p \in Procs : CountAccounts(p)
  \/ \E p \in Procs, a \in Accounts : InsertAccount(p, a)
  \/ \E p \in Procs, u \in Users, a \in Accounts : FindRow(p, u, a)
  \/ \E p \in Procs : Rename(p) \/ ClearList(p) \/ Fail(p)
  \/ \E p \in Procs, read \in SUBSET Users : RenameBlind(p, read)
  \/ \E p \in Procs, L \in SUBSET Users, read \in SUBSET Users :
       ChangeList(p, L, read)
  \/ \E p \in Procs, u \in Users : InsertAllowed(p, u)
  \/ \E u \in Users, a \in Accounts : Delete(u, a)
  \/ \E u \in Users, v \in Users : EraseUser(u, v)

Spec == Init /\ [][Next]_vars

-----------------------------------------------------------------------------
(* Properties.                                                             *)

\* The tables and requests of both modules are well typed, a slot serves one
\* request, and lists hold users that exist, of accounts that exist.
TypeOK ==
  /\ BillingTypeOK
  /\ account \in [Accounts -> Account]
  /\ gone \subseteq Users
  /\ req \in [Procs -> Request]
  /\ want \in [Accounts -> SUBSET Users] /\ mixed \in [Accounts -> BOOLEAN]
  /\ paid \subseteq Families
  /\ \A p \in Procs : req[p] = Idle \/ apply[p] = NotApplying
  /\ \A a \in Accounts : /\ account[a].allowed \cap gone = {}
                         /\ ~account[a].exists => account[a] = Nothing

\* What makes TypeOK inductive: a request names what its statements are about.
WellFormed(r) ==
  /\ r.at \in {"count", "insert"} => r.user \in Users /\ r.family \in Families
  /\ r.at \in {"read", "write", "list"} => r.user \in Users /\ r.account \in Accounts

\* A family that has never had a plan without limits has more accounts than the
\* plan FREE allows only as far as requests overlapped between count and INSERT
\* (internal/billing/service.go:88-110, internal/handlers/account.go:93).
QuotaByOverlap ==
  \A f \in Families \ paid :
    Cardinality(AccountsOf(f)) <= FreeMaxAccounts + Cardinality(Procs) - 1

\* What makes QuotaByOverlap inductive: requests that have counted take the place
\* of the accounts they are to insert, and have counted unless there was no limit.
PlacesTaken ==
  /\ \A f \in Families : IsPro(plan[f]) => f \in paid
  /\ \A f \in Families \ paid :
       Cardinality(AccountsOf(f))
         + Cardinality({p \in Procs : req[p].at = "insert" /\ req[p].family = f})
       <= FreeMaxAccounts + Cardinality(Procs) - 1

\* What a plan and a coupon limit is counted right, and overrun only by requests
\* that overlap and increments that fail.
LimitsByOverlap == QuotaByOverlap /\ OverspentByOverlap /\ GrantsCounted

\* Once no request is on it, the list of an account is the one that was last
\* asked for, without the users that are gone: unless the last write overlapped
\* with another or with its own read, failed in the middle, or had not been able
\* to read the list.  An account is open by mistake in those cases and while its
\* list is being written, and when everyone on its list is gone
\* (internal/repository/account.go:23-49, 121-143).
ListAsAsked ==
  \A a \in Accounts :
    account[a].exists /\ ~mixed[a] /\ (\A p \in Procs : req[p].account # a)
      => account[a].allowed = want[a] \ gone
=============================================================================
