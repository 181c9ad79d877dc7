----------------------------- MODULE OFXReminder -----------------------------
(***************************************************************************)
(* The daily OFX reminder (internal/jobs/ofx_reminder.go) on every replica *)
(* of the API, with ClaimStaleOFXReminders                                 *)
(* (internal/repository/family.go), which the replicas share.              *)
(*                                                                         *)
(* The claim is one UPDATE over a CTE: its reads are those of one snapshot *)
(* (ClaimSnapshot), its writes wait for row locks, check their rows again  *)
(* and appear at the commit (ClaimCommit).  The mails follow one by one.   *)
(*                                                                         *)
(* Time is counted in days.  All claims are made at 19h, so the families   *)
(* marked within 20 hours are those marked today.  The points in time that *)
(* the query compares are counted per family: 0 is created_at, k the k-th  *)
(* OFX import, and sent_at is named by the newest of them it comes after.  *)
(* imported_at is taken by the API, sent_at by the database: they are one  *)
(* clock here, as the query takes them to be.                              *)
(***************************************************************************)
EXTENDS Integers, FiniteSets

CONSTANTS
  Families,
  Replicas,
  Steady,      \* a replica that is up at 19h again and again
  DailyCap,    \* OFX_REMINDERS_DAILY_CAP
  StaleAfter,  \* ofxStaleAfter, in days
  MaxAge,      \* bound on age, beyond which it stays
  MaxImports   \* bound on the imports of a family

ASSUME ConstantsAssumption ==
  /\ Steady \in Replicas
  /\ DailyCap \in Nat /\ StaleAfter \in Nat
  /\ MaxAge \in Nat /\ MaxAge >= StaleAfter
  /\ MaxImports \in Nat

\* The families are the rows of a table.
ASSUME FamiliesFinite == IsFiniteSet(Families)

VARIABLES
  imports,  \* the imports of a family so far
  last,     \* last_ref: its newest import that was not deleted, or 0
  age,      \* days since last_ref
  sent,     \* ofx_reminder_sent_at: the newest import before it, or Never
  today,    \* families whose ofx_reminder_sent_at is within 20 hours
  run,      \* the job of each replica
  blind,    \* history: claims of today made while another was uncommitted
  claims,   \* history: the claims <<family, last_ref>>
  mails,    \* history: mails per family and last_ref
  lost      \* history: claims whose mail failed, or whose run ended early

vars == <<imports, last, age, sent, today, run, blind, claims, mails, lost>>

Never == -1

Points == 0 .. MaxImports

\* The CTE's rows while the claim runs, then the claimed families still to be
\* mailed: last_ref, and how many imports precede now().
Rows == UNION {[S -> [ref : Points, now : Points]] : S \in SUBSET Families}

NoRows == [f \in {} |-> [ref |-> 0, now |-> 0]]

Run == [at : {"down", "wait", "claim", "mail"}, ran : BOOLEAN, rows : Rows]

Init ==
  /\ imports = [f \in Families |-> 0] /\ last = [f \in Families |-> 0]
  /\ age = [f \in Families |-> 0]
  /\ sent = [f \in Families |-> Never]
  /\ today = {}
  /\ run = [r \in Replicas |-> [at |-> "wait", ran |-> FALSE, rows |-> NoRows]]
  /\ blind = 0
  /\ claims = {}
  /\ mails = [f \in Families |-> [k \in Points |-> 0]]
  /\ lost = {}

history == <<claims, mails, lost>>
tables == <<imports, last, age, sent, today>>

-----------------------------------------------------------------------------
(* The families.                                                           *)

\* BulkUpsert inserts OFX transactions that were not there.
Import(f) ==
  /\ imports[f] < MaxImports
  /\ imports' = [imports EXCEPT ![f] = @ + 1]
  /\ last' = [last EXCEPT ![f] = imports[f] + 1]
  /\ age' = [age EXCEPT ![f] = 0]
  /\ UNCHANGED <<sent, today, run, blind, history>>

\* The transactions of the last imports are deleted, or the account they are in.
DeleteImports(f) ==
  \E k \in 0 .. (last[f] - 1), a \in age[f] .. MaxAge :
    /\ last' = [last EXCEPT ![f] = k]
    /\ age' = [age EXCEPT ![f] = a]
    /\ UNCHANGED <<imports, sent, today, run, blind, history>>

-----------------------------------------------------------------------------
(* The job.                                                                *)

\* HAVING: stale, and not reminded since the last import.
Due(f) == age[f] >= StaleAfter /\ sent[f] < last[f]

\* Mutant of Limit: every family that was ever marked counts.
LimitForever ==
  LET left == DailyCap - Cardinality({f \in Families : sent[f] # Never})
  IN IF left > 0 THEN left ELSE 0

\* Mutant of Limit: each run counts for itself.
LimitPerRun == DailyCap

\* LIMIT GREATEST($2 - count, 0).
Limit ==
  LET left == DailyCap - Cardinality(today) IN IF left > 0 THEN left ELSE 0

\* The rows of the CTE, the most recent last_ref first.
Selections ==
  LET due == {f \in Families : Due(f)} IN
  {S \in SUBSET due :
     /\ Cardinality(S) <= Limit
     /\ S = due \/ Cardinality(S) = Limit
     /\ \A f \in S, g \in due \ S : age[f] <= age[g]}

\* It is 19h: the statement of r takes its snapshot.
ClaimSnapshot(r) ==
  /\ run[r].at = "wait" /\ ~run[r].ran
  /\ \E S \in Selections :
       run' = [run EXCEPT ![r] = [at |-> "claim", ran |-> TRUE,
                 rows |-> [f \in S |-> [ref |-> last[f], now |-> imports[f]]]]]
  /\ blind' = IF \E q \in Replicas : run[q].at = "claim" THEN blind + 1 ELSE blind
  /\ UNCHANGED <<tables, history>>

\* Mutant of Unmarked: the UPDATE does not check its rows again.
UnmarkedBefore(r) == DOMAIN run[r].rows

\* The rows that pass the condition of the UPDATE, on the row as it is now.
Unmarked(r) == {f \in DOMAIN run[r].rows : sent[f] < run[r].rows[f].ref}

\* The UPDATE commits.
Mark(r) ==
  LET won == Unmarked(r) IN
  /\ run[r].at = "claim"
  /\ sent' = [f \in Families |-> IF f \in won THEN run[r].rows[f].now ELSE sent[f]]
  /\ today' = today \cup won
  /\ claims' = claims \cup {<<f, run[r].rows[f].ref>> : f \in won}
  /\ UNCHANGED <<imports, last, age, blind, mails>>

\* Mutant of Proceed: a run without families is not over.
ProceedAlways(r, rest) ==
  run' = [run EXCEPT ![r].at = "mail",
                     ![r].rows = [f \in rest |-> run[r].rows[f]]]

\* The run of r goes on with the families in rest.
Proceed(r, rest) ==
  run' = [run EXCEPT ![r].at = IF rest = {} THEN "wait" ELSE "mail",
                     ![r].rows = [f \in rest |-> run[r].rows[f]]]

\* The claim returns the families it marked.
ClaimCommit(r) == Mark(r) /\ Proceed(r, Unmarked(r)) /\ UNCHANGED lost

\* The UPDATE commits, but reading its rows fails: the run ends.
ClaimUnheard(r) ==
  /\ Mark(r) /\ Proceed(r, {})
  /\ lost' = lost \cup {<<f, run[r].rows[f].ref>> : f \in Unmarked(r)}

\* The claim fails, by its timeout of 10 s at the latest: the run ends.
ClaimFails(r) ==
  /\ run[r].at = "claim"
  /\ Proceed(r, {})
  /\ UNCHANGED <<tables, blind, history>>

\* A family of the queue is handled.
Take(r, f) ==
  /\ run[r].at = "mail" /\ f \in DOMAIN run[r].rows
  /\ Proceed(r, DOMAIN run[r].rows \ {f})

\* The mail to the recipients of f is sent.
Mail(r, f) ==
  /\ Take(r, f)
  /\ mails' = [mails EXCEPT ![f][run[r].rows[f].ref] = @ + 1]
  /\ UNCHANGED <<tables, blind, claims, lost>>

\* Mutant of MailFails: the failure of one family ends the run.
MailFailsAll(r, f) ==
  /\ run[r].at = "mail" /\ f \in DOMAIN run[r].rows
  /\ Proceed(r, {})
  /\ lost' = lost \cup {<<f, run[r].rows[f].ref>>}
  /\ UNCHANGED <<tables, blind, claims, mails>>

\* No mail to f: nobody to send to, the list, the template or the send fails
\* or panics.  A send that reports an error may have been delivered.
MailFails(r, f) ==
  /\ Take(r, f)
  /\ lost' = lost \cup {<<f, run[r].rows[f].ref>>}
  /\ \/ mails' = [mails EXCEPT ![f][run[r].rows[f].ref] = @ + 1]
     \/ UNCHANGED mails
  /\ UNCHANGED <<tables, blind, claims>>

\* The claims of the run of r whose mails are still to come.
Pending(r) ==
  IF run[r].at = "mail"
  THEN {<<f, run[r].rows[f].ref>> : f \in DOMAIN run[r].rows} ELSE {}

\* The process of r ends: a crash, or a shutdown that cancels the pause
\* between two families.  A statement it leaves behind fails or is unheard.
Stop(r) ==
  /\ run[r].at \notin {"down", "claim"}
  /\ lost' = lost \cup Pending(r)
  /\ run' = [run EXCEPT ![r].at = "down", ![r].rows = NoRows]
  /\ UNCHANGED <<tables, blind, claims, mails>>

\* A new process waits for the next 19h, today or tomorrow.
Restart(r) ==
  /\ run[r].at = "down"
  /\ \E ran \in {run[r].ran, TRUE} :
       run' = [run EXCEPT ![r].at = "wait", ![r].ran = ran]
  /\ UNCHANGED <<tables, blind, history>>

\* A day later.  A run takes minutes.
Tick ==
  /\ \A r \in Replicas : run[r].at \in {"wait", "down"}
  /\ age' = [f \in Families |-> IF age[f] < MaxAge THEN age[f] + 1 ELSE age[f]]
  /\ today' = {}
  /\ run' = [r \in Replicas |-> [run[r] EXCEPT !.ran = FALSE]]
  /\ blind' = 0
  /\ UNCHANGED <<imports, last, sent, history>>

Handle(r) == \E f \in Families : Mail(r, f) \/ MailFails(r, f)

Next ==
  \/ \E f \in Families : Import(f) \/ DeleteImports(f)
  \/ \E r \in Replicas :
       \/ ClaimSnapshot(r) \/ ClaimCommit(r) \/ ClaimUnheard(r) \/ ClaimFails(r)
       \/ \E f \in Families : Mail(r, f) \/ MailFails(r, f)
       \/ Stop(r) \/ Restart(r)
  \/ Tick

Spec == Init /\ [][Next]_vars

UpAt19h(r) == run[r].at = "wait" /\ ~run[r].ran

\* Statements and sends end (each has a timeout); one replica, however often
\* it is stopped, is up at 19h again and again; neither its start of a run nor
\* its claim is prevented for ever.
Fairness ==
  /\ \A r \in Replicas :
       WF_vars(ClaimCommit(r) \/ ClaimUnheard(r) \/ ClaimFails(r)) /\ WF_vars(Handle(r))
  /\ []<>UpAt19h(Steady)
  /\ SF_vars(ClaimSnapshot(Steady))
  /\ SF_vars(ClaimCommit(Steady))

FairSpec == Spec /\ Fairness

-----------------------------------------------------------------------------
(* Properties.                                                             *)

\* Type correctness; a run that mails has somebody to mail to.
TypeOK ==
  /\ imports \in [Families -> Points] /\ last \in [Families -> Points]
  /\ age \in [Families -> 0 .. MaxAge]
  /\ sent \in [Families -> Points \cup {Never}]
  /\ today \subseteq Families
  /\ run \in [Replicas -> Run]
  /\ \A r \in Replicas :
       /\ run[r].at = "mail" => run[r].rows # NoRows
       /\ run[r].at \in {"wait", "down"} => run[r].rows = NoRows
  /\ blind \in Nat
  /\ claims \subseteq Families \X Points
  /\ mails \in [Families -> [Points -> Nat]]
  /\ lost \subseteq Families \X Points

\* A family gets one reminder at most for each import (or for none since it
\* was created), whichever replicas run together or stop ("Exatamente 1 envio
\* por família").  Exactly one is more than the code can promise: see lost.
OneMailPerImport == \A f \in Families, k \in Points : mails[f][k] <= 1

\* What makes it inductive: sent_at has passed every last_ref that was claimed,
\* and no two mails to come, nor a mail to come and one sent, are for one.
ClaimsUnique ==
  /\ \A f \in Families : last[f] <= imports[f]
  /\ \A f \in Families, k \in Points : mails[f][k] > 0 => sent[f] >= k
  /\ \A r \in Replicas :
       /\ \A f \in DOMAIN run[r].rows : run[r].rows[f].ref <= run[r].rows[f].now
       /\ run[r].at = "mail" =>
            \A f \in DOMAIN run[r].rows :
              sent[f] >= run[r].rows[f].ref /\ mails[f][run[r].rows[f].ref] = 0
  /\ \A r, q \in Replicas : Pending(r) \cap Pending(q) # {} => r = q

\* A claim is followed by its mail, or what the mail failed of concerns that
\* family or the process of the run: no failure of another family loses it.
ClaimsAccounted ==
  \A c \in claims :
    mails[c[1]][c[2]] > 0 \/ c \in lost \/ \E r \in Replicas : c \in Pending(r)

\* The families marked within 20 hours exceed the cap by at most one cap for
\* each claim that was made while another was uncommitted (email.md: "até
\* +DAILY_CAP por réplica extra naquele disparo"); restarts, failed claims and
\* replicas that follow one another do not exceed it.
CapUnlessBlind == Cardinality(today) <= DailyCap * (1 + blind)

\* f is left out of what the cap admits today.
CapTaken(f) == Cardinality(today \ {f}) >= DailyCap

\* A family that stays due and is never reminded waits for a reason: again and
\* again others take the whole cap, and one of them keeps importing, going
\* stale and being reminded.  (The query takes the most recently stale first,
\* so it may wait for ever.)  Restarts, failed runs, other replicas and the
\* failures of mails put a claim off, but not for ever.
StaleFamilyClaimed ==
  \A f \in Families :
    \/ []<>~Due(f)
    \/ /\ []<>CapTaken(f)
       /\ \E g \in Families \ {f} : []<>(age[g] = 0) /\ []<>(g \in today)
=============================================================================
