--------------------------- MODULE StatementImport ---------------------------
(***************************************************************************)
(* The import of bank statements (Import in internal/handlers/             *)
(* transaction.go) into one account of one family, with its statements     *)
(* FindReconciliationMatch, Reconcile and BulkUpsert in internal/          *)
(* repository/transaction.go, among other imports and among the users who  *)
(* plan payments and delete transactions.                                  *)
(*                                                                         *)
(* No transaction spans an import: each statement commits by itself.  A    *)
(* bank transaction is named by its FITID.  The amount, the four days and  *)
(* the nearest date come down to which bank transactions a planned payment *)
(* fits, and to any of the fitting ones being the nearest.  Tags, names    *)
(* and the classifier decide nothing about which rows there are and are    *)
(* left out; so are rows created with another status than the two that     *)
(* FindReconciliationMatch asks for, which no import reads or writes.      *)
(***************************************************************************)
EXTENDS Sequences, FiniteSets

CONSTANTS
  Bank,      \* the transactions of the account, as the bank knows them
  Plans,     \* ids of the rows that users create
  Imports,   \* the requests to import a file
  Files,     \* the statements: FITIDs in the order of the file
  NoKey,     \* the FITID "MANUAL_..." of a row the bank does not know yet
  NoPlan     \* no match

ASSUME ConstantsAssumption ==
  /\ Files \subseteq Seq(Bank)
  /\ NoKey \notin Bank
  /\ NoPlan \notin Plans

VARIABLES
  plan,      \* the rows users created
  posted,    \* the FITIDs of the rows imports inserted
  req,       \* the requests
  met,       \* history: pairs of imports that ran at the same time
  missed,    \* history: transactions whose search for a match failed
  dropped,   \* history: transactions whose Reconcile failed
  removed    \* history: transactions that rows deleted by users stood for

vars == <<plan, posted, req, met, missed, dropped, removed>>

history == <<met, missed, dropped, removed>>

Pending == {"PLANNED", "PENDING_RECONCILIATION"}

\* fits: the transactions whose amount and date the row agrees with.  late,
\* history: those of them queued or inserted when the row was created.
Plan == [status : Pending \union {"none", "RECONCILED", "deleted"},
         key : Bank \union {NoKey}, fits : SUBSET Bank, late : SUBSET Bank]

\* file: what the request uploaded.  rest: what its loop has to go.  match: the
\* plan found for the first of them.  queue: toInsert.
Request == [at : {"idle", "running", "ok", "failed"}, file : Seq(Bank),
            rest : Seq(Bank), match : Plans \union {NoPlan}, queue : Seq(Bank)]

In(s) == {s[k] : k \in DOMAIN s}

Init ==
  /\ plan = [p \in Plans |-> [status |-> "none", key |-> NoKey, fits |-> {}, late |-> {}]]
  /\ posted = {}
  /\ req = [r \in Imports |-> [at |-> "idle", file |-> <<>>, rest |-> <<>>,
                               match |-> NoPlan, queue |-> <<>>]]
  /\ met = {} /\ missed = {} /\ dropped = {} /\ removed = {}

Running(r) == req[r].at = "running"

-----------------------------------------------------------------------------
(* The users.                                                              *)

\* Queued by an import, or inserted.
Underway == posted \union UNION {In(req[r].queue) : r \in {i \in Imports : Running(i)}}

\* Create with one of the statuses to be reconciled.
CreatePlan(p) ==
  \E status \in Pending, fits \in (SUBSET Bank) \ {{}} :
    /\ plan[p].status = "none"
    /\ plan' = [plan EXCEPT ![p] = [status |-> status, key |-> NoKey, fits |-> fits,
                                    late |-> fits \intersect Underway]]
    /\ UNCHANGED <<posted, req, history>>

\* Delete, of a row that a user created.
DeletePlan(p) ==
  /\ plan[p].status \notin {"none", "deleted"}
  /\ plan' = [plan EXCEPT ![p].status = "deleted", ![p].key = NoKey, ![p].late = {}]
  /\ removed' = removed \union plan[p].fits
  /\ UNCHANGED <<posted, req, met, missed, dropped>>

\* Delete, of a row that an import inserted.
DeletePosted(f) ==
  /\ f \in posted
  /\ posted' = posted \ {f}
  /\ removed' = removed \union {f}
  /\ UNCHANGED <<plan, req, met, missed, dropped>>

-----------------------------------------------------------------------------
(* The import.                                                             *)

\* The file is parsed.
Start(r, file) ==
  /\ req[r].at = "idle"
  /\ req' = [req EXCEPT ![r].at = "running", ![r].file = file, ![r].rest = file]
  /\ met' = met \union {pair \in Imports \X Imports :
                          \/ pair[1] = r /\ Running(pair[2])
                          \/ pair[2] = r /\ Running(pair[1])}
  /\ UNCHANGED <<plan, posted, missed, dropped, removed>>

\* Mutant of Matches: planned payments only.
MatchesPlanned(f) == {p \in Plans : plan[p].status = "PLANNED" /\ f \in plan[p].fits}

\* Mutant of Matches: what is reconciled already matches again.
MatchesAgain(f) ==
  {p \in Plans : plan[p].status \in Pending \union {"RECONCILED"} /\ f \in plan[p].fits}

\* The WHERE of FindReconciliationMatch.
Matches(f) == {p \in Plans : plan[p].status \in Pending /\ f \in plan[p].fits}

\* The loop of Import is at its next transaction, and has not searched yet.
Searching(r) == Running(r) /\ req[r].rest # <<>> /\ req[r].match = NoPlan

\* FindReconciliationMatch finds a row.
Match(r) ==
  /\ Searching(r)
  /\ \E p \in Matches(Head(req[r].rest)) : req' = [req EXCEPT ![r].match = p]
  /\ UNCHANGED <<plan, posted, history>>

\* No row: the transaction is for BulkUpsert.
Enqueue(r) ==
  req' = [req EXCEPT ![r].queue = Append(@, Head(req[r].rest)), ![r].rest = Tail(@)]

NoMatch(r) ==
  /\ Searching(r)
  /\ Matches(Head(req[r].rest)) = {}
  /\ Enqueue(r)
  /\ UNCHANGED <<plan, posted, history>>

\* The query fails: the error counts as no match.
MatchFails(r) ==
  /\ Searching(r)
  /\ Enqueue(r)
  /\ missed' = missed \union {Head(req[r].rest)}
  /\ UNCHANGED <<plan, posted, met, dropped, removed>>

\* The FITID is that of a row other than p: UNIQUE (fitid, account_id, family_id).
Taken(f, p) == f \in posted \/ \E q \in Plans \ {p} : plan[q].key = f

\* Mutant of Advance: the match stays.
AdvanceOnly(r) == req' = [req EXCEPT ![r].rest = Tail(@)]

\* continue: the loop goes on, whatever became of the UPDATE.
Advance(r) == req' = [req EXCEPT ![r].rest = Tail(@), ![r].match = NoPlan]

\* Reconcile: an UPDATE by id, whatever the status is by now.  A row that was
\* deleted, or a FITID that another row has, leaves everything as it is.
Reconcile(r) ==
  LET p == req[r].match
      f == Head(req[r].rest)
  IN /\ Running(r)
     /\ p # NoPlan
     /\ plan' = IF plan[p].status = "deleted" \/ Taken(f, p) THEN plan
                ELSE [plan EXCEPT ![p].key = f, ![p].status = "RECONCILED"]
     /\ Advance(r)
     /\ UNCHANGED <<posted, history>>

\* The UPDATE fails, and Import drops the error.
ReconcileFails(r) ==
  /\ Running(r)
  /\ req[r].match # NoPlan
  /\ dropped' = dropped \union {Head(req[r].rest)}
  /\ Advance(r)
  /\ UNCHANGED <<plan, posted, met, missed, removed>>

Saving(r) == Running(r) /\ req[r].rest = <<>> /\ req[r].queue # <<>>

\* One turn of BulkUpsert's loop: the row is inserted, or skipped on conflict.
Upsert(r) ==
  LET f == Head(req[r].queue)
  IN /\ Saving(r)
     /\ posted' = IF Taken(f, NoPlan) THEN posted ELSE posted \union {f}
     /\ req' = [req EXCEPT ![r].queue = Tail(@)]
     /\ UNCHANGED <<plan, history>>

\* No 200: what the request held in memory is gone.
Fail(r) == req' = [req EXCEPT ![r].at = "failed", ![r].rest = <<>>,
                              ![r].match = NoPlan, ![r].queue = <<>>]

\* The INSERT or that of a tag fails, or its reply is lost, and the request with
\* it.  What is committed stays.
UpsertFails(r) ==
  LET f == Head(req[r].queue)
  IN /\ Saving(r)
     /\ posted' \in {posted, IF Taken(f, NoPlan) THEN posted ELSE posted \union {f}}
     /\ Fail(r)
     /\ UNCHANGED <<plan, history>>

Reply(r) ==
  /\ Running(r)
  /\ req[r].rest = <<>> /\ req[r].queue = <<>>
  /\ req' = [req EXCEPT ![r].at = "ok"]
  /\ UNCHANGED <<plan, posted, history>>

\* The process stops, or the handler panics.
Crash(r) ==
  /\ Running(r)
  /\ Fail(r)
  /\ UNCHANGED <<plan, posted, history>>

-----------------------------------------------------------------------------
Step(r) ==
  \/ \E file \in Files : Start(r, file)
  \/ Match(r) \/ NoMatch(r) \/ MatchFails(r)
  \/ Reconcile(r) \/ ReconcileFails(r)
  \/ Upsert(r) \/ UpsertFails(r)
  \/ Reply(r) \/ Crash(r)

Next ==
  \/ \E r \in Imports : Step(r)
  \/ \E p \in Plans : CreatePlan(p) \/ DeletePlan(p)
  \/ \E f \in Bank : DeletePosted(f)

Spec == Init /\ [][Next]_vars

-----------------------------------------------------------------------------
(* Properties.                                                             *)

\* The FITID of a live row.
Recorded(f) == Taken(f, NoPlan)

\* Tables, requests and history are well typed, no two rows have one FITID, and
\* a match is for the transaction the loop is at.
TypeOK ==
  /\ plan \in [Plans -> Plan]
  /\ posted \subseteq Bank
  /\ req \in [Imports -> Request]
  /\ met \subseteq Imports \X Imports
  /\ missed \subseteq Bank /\ dropped \subseteq Bank /\ removed \subseteq Bank
  /\ \A p \in Plans :
       LET f == plan[p].key
       IN /\ plan[p].status # "RECONCILED" => f = NoKey
          /\ plan[p].status = "RECONCILED" => f \in plan[p].fits /\ ~Taken(f, p)
  /\ \A r \in Imports :
       LET p == req[r].match
       IN p # NoPlan => /\ Running(r) /\ req[r].rest # <<>>
                        /\ Head(req[r].rest) \in plan[p].fits
                        /\ plan[p].status # "none"

\* Row p, reconciled with a transaction of an import that overlapped r, could
\* have been f's.
LostTo(r, f, p) ==
  /\ plan[p].status = "RECONCILED"
  /\ f \in plan[p].fits
  /\ \E i \in Imports : plan[p].key \in In(req[i].file) /\ <<r, i>> \in met

\* An import that replied 200 recorded every transaction of its file.  Missing
\* are only those whose row a user deleted, those whose Reconcile failed, and
\* those that overlapping imports of like transactions lose to one another when
\* both reconcile one planned payment.
AckedRecorded ==
  \A r \in Imports : req[r].at = "ok" =>
    \A f \in In(req[r].file) :
      \/ Recorded(f)
      \/ f \in removed \union dropped
      \/ \E p \in Plans : LostTo(r, f, p)

\* A transaction is not in the books twice: where an import inserted it beside a
\* planned payment it fits, the payment was planned too late to be found, or the
\* search for it failed.
NoDoubleEntry ==
  \A f \in posted, p \in Plans :
    plan[p].status \in Pending /\ f \in plan[p].fits => f \in plan[p].late \union missed
=============================================================================
