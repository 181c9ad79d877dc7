-------------------------- MODULE OFXReminderProofs --------------------------
(***************************************************************************)
(* Proofs about what runs beside the requests: OFXReminder, for any number *)
(* of families, replicas and imports, and any cap; and, in the last        *)
(* section, Migrations, for any number of machines and migrations.         *)
(***************************************************************************)
EXTENDS OFXReminder, Migrations, FiniteSetTheorems, TLAPS

LEMMA RowsFacts ==
  ASSUME NEW rows \in Rows
  PROVE  /\ DOMAIN rows \subseteq Families
         /\ \A f \in DOMAIN rows : rows[f].ref \in Points /\ rows[f].now \in Points
         /\ rows = [f \in DOMAIN rows |-> rows[f]]
  BY DEF Rows

LEMMA RestRows ==
  ASSUME NEW rows \in Rows, NEW rest \in SUBSET (DOMAIN rows)
  PROVE  /\ [f \in rest |-> rows[f]] \in Rows
         /\ rest = {} => [f \in rest |-> rows[f]] = NoRows
         /\ rest # {} => [f \in rest |-> rows[f]] # NoRows
<1> DEFINE new == [f \in rest |-> rows[f]]
<1>1. PICK S \in SUBSET Families : rows \in [S -> [ref : Points, now : Points]]
  BY DEF Rows
<1>2. rest \in SUBSET Families /\ new \in [rest -> [ref : Points, now : Points]]
  BY <1>1
<1>3. new \in Rows
  BY <1>2 DEF Rows
<1>4. DOMAIN new = rest /\ DOMAIN NoRows = {}
  BY DEF NoRows
<1>5. rest = {} => new = NoRows
  BY DEF NoRows
<1>6. QED
  BY <1>3, <1>4, <1>5

LEMMA NoRowsOK == NoRows \in Rows /\ DOMAIN NoRows = {}
<1>1. NoRows \in [{} -> [ref : Points, now : Points]]
  BY DEF NoRows
<1>2. QED
  BY <1>1 DEF Rows, NoRows

\* The part of TypeOK about the job of one replica.
RunOK(job) ==
  /\ job \in Run
  /\ job.at = "mail" => job.rows # NoRows
  /\ job.at \in {"wait", "down"} => job.rows = NoRows

LEMMA RunsOK == TypeOK => \A r \in Replicas : RunOK(run[r])
  BY DEF TypeOK, RunOK

\* What Proceed leaves: the job of r on the rest of its rows.
LEMMA ProceedOK ==
  ASSUME TypeOK, NEW r \in Replicas, NEW rest \in SUBSET (DOMAIN run[r].rows),
         Proceed(r, rest)
  PROVE  /\ run' \in [Replicas -> Run] /\ \A q \in Replicas : RunOK(run'[q])
         /\ \A q \in Replicas : q # r => run'[q] = run[q]
         /\ run'[r].at \in {"wait", "mail"}
         /\ DOMAIN run'[r].rows = rest
         /\ \A f \in rest : run'[r].rows[f] = run[r].rows[f]
         /\ rest # {} => run'[r].at = "mail"
<1> DEFINE new == [f \in rest |-> run[r].rows[f]]
           job == [run[r] EXCEPT !.at = IF rest = {} THEN "wait" ELSE "mail", !.rows = new]
<1>1. run \in [Replicas -> Run] /\ run[r].rows \in Rows
  BY DEF TypeOK, Run
<1>2. /\ new \in Rows /\ (rest = {} => new = NoRows) /\ (rest # {} => new # NoRows)
  BY <1>1, RestRows
<1>3. run' = [run EXCEPT ![r] = job]
  BY DEF Proceed
<1>4. /\ job.at = IF rest = {} THEN "wait" ELSE "mail"
      /\ job.rows = new /\ job \in Run
  BY <1>1, <1>2 DEF Run
<1>5. RunOK(job)
  BY <1>2, <1>4 DEF RunOK
<1>6. \A q \in Replicas : run'[q] = IF q = r THEN job ELSE run[q]
  BY <1>1, <1>3
<1>7. run' \in [Replicas -> Run]
  BY <1>1, <1>3, <1>4
<1>8. \A q \in Replicas : RunOK(run'[q])
  BY <1>5, <1>6, RunsOK
<1>9. /\ run'[r].rows = new
      /\ run'[r].at = IF rest = {} THEN "wait" ELSE "mail"
  BY <1>4, <1>6
<1>10. DOMAIN new = rest /\ \A f \in rest : new[f] = run[r].rows[f]
  OBVIOUS
<1> HIDE DEF new, job
<1>11. \A q \in Replicas : q # r => run'[q] = run[q]
  BY <1>6
<1>12. QED
  BY <1>7, <1>8, <1>9, <1>10, <1>11

LEMMA ProceedEnds ==
  ASSUME TypeOK, NEW r \in Replicas, Proceed(r, {})
  PROVE  run'[r].at = "wait"
  BY DEF Proceed, TypeOK, Run

-----------------------------------------------------------------------------
(* Type correctness.                                                       *)

LEMMA InitTypeOK == Init => TypeOK
  BY NoRowsOK, ConstantsAssumption DEF Init, TypeOK, Run, Points, Never

\* The tables and history after a claim that commits.
LEMMA MarkOK ==
  ASSUME TypeOK, NEW r \in Replicas, Mark(r)
  PROVE  /\ sent' \in [Families -> Points \cup {Never}]
         /\ today' \subseteq Families
         /\ claims' \subseteq Families \X Points
         /\ Unmarked(r) \subseteq DOMAIN run[r].rows
         /\ {<<f, run[r].rows[f].ref>> : f \in Unmarked(r)} \subseteq Families \X Points
<1>1. run[r].rows \in Rows
  BY DEF TypeOK, Run
<1>2. Unmarked(r) \subseteq DOMAIN run[r].rows /\ Unmarked(r) \subseteq Families
  BY <1>1, RowsFacts DEF Unmarked
<1>3. \A f \in Unmarked(r) : run[r].rows[f].ref \in Points /\ run[r].rows[f].now \in Points
  BY <1>1, <1>2, RowsFacts
<1>4. QED
  BY <1>2, <1>3 DEF Mark, TypeOK

LEMMA PendingOK ==
  ASSUME TypeOK, NEW r \in Replicas
  PROVE  Pending(r) \subseteq Families \X Points
<1>1. run[r].rows \in Rows
  BY DEF TypeOK, Run
<1>2. QED
  BY <1>1, RowsFacts DEF Pending

LEMMA NextTypeOK == TypeOK /\ [Next]_vars => TypeOK'
<1> SUFFICES ASSUME TypeOK, [Next]_vars PROVE TypeOK'
  OBVIOUS
<1> DEFINE JobsOK == run \in [Replicas -> Run] /\ \A r \in Replicas : RunOK(run[r])
           TimesOK == /\ imports \in [Families -> Points] /\ last \in [Families -> Points]
                      /\ age \in [Families -> 0 .. MaxAge]
           MarksOK == /\ sent \in [Families -> Points \cup {Never}]
                      /\ today \subseteq Families
           HistoryOK == /\ blind \in Nat
                        /\ claims \subseteq Families \X Points
                        /\ mails \in [Families -> [Points -> Nat]]
                        /\ lost \subseteq Families \X Points
<1>a. ASSUME JobsOK', TimesOK', MarksOK', HistoryOK'
      PROVE  TypeOK'
  BY <1>a DEF TypeOK, RunOK
<1>b. JobsOK /\ TimesOK /\ MarksOK /\ HistoryOK
  BY RunsOK DEF TypeOK
<1>c. ASSUME NEW r \in Replicas, NEW job, RunOK(job), run' = [run EXCEPT ![r] = job]
      PROVE  JobsOK'
  BY <1>b, <1>c DEF RunOK
<1>1. ASSUME NEW f \in Families, Import(f) \/ DeleteImports(f)
      PROVE  TypeOK'
  <2>1. TimesOK'
    <3>1. CASE Import(f)
      BY <1>b, <3>1, ConstantsAssumption DEF Import, Points
    <3>2. CASE DeleteImports(f)
      <4>1. PICK k \in 0 .. (last[f] - 1), a \in age[f] .. MaxAge :
              /\ last' = [last EXCEPT ![f] = k] /\ age' = [age EXCEPT ![f] = a]
              /\ imports' = imports
        BY <3>2 DEF DeleteImports
      <4>2. k \in Points /\ a \in 0 .. MaxAge
        BY <1>b, <4>1, ConstantsAssumption DEF Points
      <4>3. QED
        BY <1>b, <4>1, <4>2
    <3>3. QED
      BY <1>1, <3>1, <3>2
  <2>2. UNCHANGED <<sent, today, run, blind, claims, mails, lost>>
    BY <1>1 DEF Import, DeleteImports, history
  <2>3. JobsOK' /\ MarksOK' /\ HistoryOK'
    BY <1>b, <2>2
  <2>4. QED
    BY <1>a, <2>1, <2>3
<1>2. ASSUME NEW r \in Replicas, ClaimSnapshot(r)
      PROVE  TypeOK'
  <2>1. PICK S \in Selections :
          run' = [run EXCEPT ![r] = [at |-> "claim", ran |-> TRUE,
                    rows |-> [f \in S |-> [ref |-> last[f], now |-> imports[f]]]]]
    BY <1>2 DEF ClaimSnapshot
  <2> DEFINE rows == [f \in S |-> [ref |-> last[f], now |-> imports[f]]]
             job == [at |-> "claim", ran |-> TRUE, rows |-> rows]
  <2>2. S \in SUBSET Families
    BY DEF Selections
  <2>3. rows \in [S -> [ref : Points, now : Points]]
    BY <1>b, <2>2
  <2>4. rows \in Rows
    BY <2>2, <2>3 DEF Rows
  <2>5. RunOK(job)
    BY <2>4 DEF RunOK, Run
  <2>6. JobsOK'
    BY <1>c, <2>1, <2>5
  <2>7. blind' \in Nat /\ UNCHANGED <<imports, last, age, sent, today, claims, mails, lost>>
    BY <1>2, <1>b DEF ClaimSnapshot, tables, history
  <2>8. TimesOK' /\ MarksOK' /\ HistoryOK'
    BY <1>b, <2>7
  <2>9. QED
    BY <1>a, <2>6, <2>8
<1>3. ASSUME NEW r \in Replicas, ClaimCommit(r) \/ ClaimUnheard(r)
      PROVE  TypeOK'
  <2>1. Mark(r) /\ \E rest \in SUBSET Unmarked(r) : Proceed(r, rest)
    BY <1>3 DEF ClaimCommit, ClaimUnheard
  <2>2. JobsOK'
    BY <2>1, MarkOK, ProceedOK
  <2>3. lost' \subseteq Families \X Points
    BY <1>3, <1>b, <2>1, MarkOK DEF ClaimCommit, ClaimUnheard
  <2>4. TimesOK' /\ MarksOK' /\ HistoryOK'
    BY <1>b, <2>1, <2>3, MarkOK DEF Mark
  <2>5. QED
    BY <1>a, <2>2, <2>4
<1>4. ASSUME NEW r \in Replicas, ClaimFails(r)
      PROVE  TypeOK'
  <2>1. Proceed(r, {}) /\ UNCHANGED <<tables, blind, history>>
    BY <1>4 DEF ClaimFails
  <2>2. JobsOK'
    BY <2>1, ProceedOK
  <2>3. TimesOK' /\ MarksOK' /\ HistoryOK'
    BY <1>b, <2>1 DEF tables, history
  <2>4. QED
    BY <1>a, <2>2, <2>3
<1>5. ASSUME NEW r \in Replicas, NEW f \in Families, Mail(r, f) \/ MailFails(r, f)
      PROVE  TypeOK'
  <2>1. Take(r, f) /\ UNCHANGED <<tables, blind, claims>>
    BY <1>5 DEF Mail, MailFails
  <2>2. JobsOK'
    BY <2>1, ProceedOK DEF Take
  <2>3. run[r].rows[f].ref \in Points
    BY <1>b, <2>1, RowsFacts DEF Take, Run
  <2>4. \/ mails' = [mails EXCEPT ![f][run[r].rows[f].ref] = @ + 1]
        \/ mails' = mails
    BY <1>5 DEF Mail, MailFails
  <2>5. mails' \in [Families -> [Points -> Nat]]
    BY <1>b, <2>3, <2>4
  <2>6. lost' \subseteq Families \X Points
    BY <1>5, <1>b, <2>3 DEF Mail, MailFails
  <2>7. TimesOK' /\ MarksOK' /\ HistoryOK'
    BY <1>b, <2>1, <2>5, <2>6 DEF tables
  <2>8. QED
    BY <1>a, <2>2, <2>7
<1>6. ASSUME NEW r \in Replicas, Stop(r) \/ Restart(r)
      PROVE  TypeOK'
  <2>1. PICK ran \in {run[r].ran, TRUE}, at \in {"down", "wait"} :
          run' = [run EXCEPT ![r] = [run[r] EXCEPT !.at = at, !.ran = ran, !.rows = NoRows]]
    <3>1. CASE Stop(r)
      <4>1. run' = [run EXCEPT ![r] = [run[r] EXCEPT !.at = "down", !.rows = NoRows]]
        BY <3>1 DEF Stop
      <4>2. [run[r] EXCEPT !.at = "down", !.rows = NoRows]
              = [run[r] EXCEPT !.at = "down", !.ran = run[r].ran, !.rows = NoRows]
        BY <1>b DEF RunOK, Run
      <4>3. QED
        BY <4>1, <4>2
    <3>2. CASE Restart(r)
      <4>1. PICK ran \in {run[r].ran, TRUE} :
              run' = [run EXCEPT ![r] = [run[r] EXCEPT !.at = "wait", !.ran = ran]]
        BY <3>2 DEF Restart
      <4>2. run[r].rows = NoRows
        BY <1>b, <3>2 DEF Restart, RunOK
      <4>3. [run[r] EXCEPT !.at = "wait", !.ran = ran]
              = [run[r] EXCEPT !.at = "wait", !.ran = ran, !.rows = NoRows]
        BY <4>2, <1>b DEF RunOK, Run
      <4>4. QED
        BY <4>1, <4>3
    <3>3. QED
      BY <1>6, <3>1, <3>2
  <2> DEFINE job == [run[r] EXCEPT !.at = at, !.ran = ran, !.rows = NoRows]
  <2>a. /\ job \in Run /\ job.rows = NoRows /\ job.at \in {"down", "wait"}
    BY <1>b, NoRowsOK DEF RunOK, Run
  <2>b. RunOK(job)
    BY <2>a DEF RunOK
  <2>2. JobsOK'
    BY <1>c, <2>1, <2>b
  <2>3. /\ UNCHANGED <<imports, last, age, sent, today, blind, claims, mails>>
        /\ lost' \subseteq Families \X Points
    BY <1>6, <1>b, PendingOK DEF Stop, Restart, tables, history
  <2>4. TimesOK' /\ MarksOK' /\ HistoryOK'
    BY <1>b, <2>3
  <2>5. QED
    BY <1>a, <2>2, <2>4
<1>7. CASE Tick
  <2>1. \A r \in Replicas : RunOK([run[r] EXCEPT !.ran = FALSE])
    BY <1>b DEF RunOK, Run
  <2>2. JobsOK'
    BY <1>7, <2>1 DEF Tick, RunOK
  <2>3. TimesOK'
    BY <1>7, <1>b, ConstantsAssumption DEF Tick
  <2>4. MarksOK' /\ HistoryOK'
    BY <1>7, <1>b DEF Tick, history
  <2>5. QED
    BY <1>a, <2>2, <2>3, <2>4
<1>8. CASE UNCHANGED vars
  BY <1>8 DEF vars, TypeOK
<1>9. QED
  BY <1>1, <1>2, <1>3, <1>4, <1>5, <1>6, <1>7, <1>8 DEF Next

\* The tables, the jobs and the history are well typed in every reachable
\* state: a run that mails has families left, one that waits has none.
THEOREM TypeCorrect == Spec => []TypeOK
  BY InitTypeOK, NextTypeOK, PTL DEF Spec

-----------------------------------------------------------------------------
(* One mail per import.                                                    *)

\* ClaimsUnique for the job of r.
JobUnique(r) ==
  /\ \A f \in DOMAIN run[r].rows : run[r].rows[f].ref <= run[r].rows[f].now
  /\ run[r].at = "mail" =>
       \A f \in DOMAIN run[r].rows :
         sent[f] >= run[r].rows[f].ref /\ mails[f][run[r].rows[f].ref] = 0

\* r and q are both to mail f for one last_ref.
Clash(r, q, f) ==
  /\ run[r].at = "mail" /\ f \in DOMAIN run[r].rows
  /\ run[q].at = "mail" /\ f \in DOMAIN run[q].rows
  /\ run[r].rows[f].ref = run[q].rows[f].ref

UniqueByJob ==
  /\ \A f \in Families : last[f] <= imports[f]
  /\ \A f \in Families, k \in Points : mails[f][k] > 0 => sent[f] >= k
  /\ \A r \in Replicas : JobUnique(r)
  /\ \A r, q \in Replicas : (\E f : Clash(r, q, f)) => r = q

LEMMA UniqueParts == ClaimsUnique <=> UniqueByJob
<1>1. ASSUME NEW r \in Replicas, NEW q \in Replicas
      PROVE  Pending(r) \cap Pending(q) # {} <=> \E f : Clash(r, q, f)
  <2>1. ASSUME NEW f, Clash(r, q, f)
        PROVE  Pending(r) \cap Pending(q) # {}
    <3>1. <<f, run[r].rows[f].ref>> \in Pending(r) /\ <<f, run[r].rows[f].ref>> \in Pending(q)
      BY <2>1 DEF Pending, Clash
    <3>2. QED
      BY <3>1
  <2>2. ASSUME NEW c \in Pending(r) \cap Pending(q)
        PROVE  \E f : Clash(r, q, f)
    <3>1. PICK f \in DOMAIN run[r].rows : c = <<f, run[r].rows[f].ref>>
      BY <2>2 DEF Pending
    <3>2. PICK g \in DOMAIN run[q].rows : c = <<g, run[q].rows[g].ref>>
      BY <2>2 DEF Pending
    <3>3. f = g /\ run[r].rows[f].ref = run[q].rows[f].ref
      BY <3>1, <3>2
    <3>4. QED
      BY <2>2, <3>3 DEF Pending, Clash
  <2>3. QED
    BY <2>1, <2>2
<1>2. QED
  BY <1>1 DEF ClaimsUnique, UniqueByJob, JobUnique

LEMMA UniquePartsNext == ClaimsUnique' <=> UniqueByJob'
  BY UniqueParts, PTL

\* A step that neither marks nor mails, and after which the job of r has some
\* of its rows, or rows of a claim.
LEMMA UniqueQuiet ==
  ASSUME ClaimsUnique, NEW r \in Replicas, sent' = sent, mails' = mails,
         \A f \in Families : last'[f] <= imports'[f],
         \A q \in Replicas : q # r => run'[q] = run[q],
         \A f \in DOMAIN run'[r].rows : run'[r].rows[f].ref <= run'[r].rows[f].now,
         run'[r].at = "mail" =>
           /\ run[r].at = "mail" /\ DOMAIN run'[r].rows \subseteq DOMAIN run[r].rows
           /\ \A f \in DOMAIN run'[r].rows : run'[r].rows[f] = run[r].rows[f]
  PROVE  ClaimsUnique'
<1>1. \A q \in Replicas : JobUnique(q)'
  <2>1. JobUnique(r)'
    BY UniqueParts DEF UniqueByJob, JobUnique
  <2>2. \A q \in Replicas : q # r => JobUnique(q)'
    BY UniqueParts DEF UniqueByJob, JobUnique
  <2>3. QED
    BY <2>1, <2>2
<1>2. \A q, s \in Replicas : \A f : Clash(q, s, f)' => Clash(q, s, f)
  BY DEF Clash
<1>3. \A f \in Families, k \in Points : mails'[f][k] > 0 => sent'[f] >= k
  BY UniqueParts DEF UniqueByJob
<1>4. QED
  BY <1>1, <1>2, <1>3, UniqueParts, UniquePartsNext DEF UniqueByJob

\* A claim commits: sent_at moves past the last_ref of each row it marks.
LEMMA UniqueMark ==
  ASSUME TypeOK, ClaimsUnique, NEW r \in Replicas, Mark(r),
         NEW rest \in SUBSET Unmarked(r), Proceed(r, rest)
  PROVE  ClaimsUnique'
<1>0. /\ run[r].rows \in Rows /\ sent \in [Families -> Points \cup {Never}]
      /\ mails \in [Families -> [Points -> Nat]]
  BY DEF TypeOK, Run
<1>1. /\ DOMAIN run[r].rows \subseteq Families
      /\ \A f \in DOMAIN run[r].rows :
           /\ run[r].rows[f].ref \in Points /\ run[r].rows[f].now \in Points
           /\ run[r].rows[f].ref <= run[r].rows[f].now
  BY <1>0, RowsFacts, UniqueParts DEF UniqueByJob, JobUnique
<1>2. Points \subseteq Int /\ Never \in Int /\ Points \subseteq Nat
  BY ConstantsAssumption DEF Points, Never
<1>3. /\ \A q \in Replicas : q # r => run'[q] = run[q]
      /\ DOMAIN run'[r].rows = rest
      /\ \A f \in rest : run'[r].rows[f] = run[r].rows[f]
  BY MarkOK, ProceedOK
<1>4. \A f \in Unmarked(r) : /\ f \in DOMAIN run[r].rows
                             /\ sent[f] < run[r].rows[f].ref
                             /\ sent'[f] = run[r].rows[f].now
  BY <1>1 DEF Unmarked, Mark
<1>5. \A f \in Families : f \notin Unmarked(r) => sent'[f] = sent[f]
  BY DEF Mark
<1>6. UNCHANGED <<imports, last, mails>>
  BY DEF Mark
<1>7. \A f \in Families : sent[f] \in Int /\ sent'[f] \in Int /\ sent'[f] >= sent[f]
  <2> SUFFICES ASSUME NEW f \in Families
               PROVE  sent[f] \in Int /\ sent'[f] \in Int /\ sent'[f] >= sent[f]
    OBVIOUS
  <2>1. sent[f] \in Int
    BY <1>0, <1>2
  <2>2. CASE f \in Unmarked(r)
    <3> DEFINE row == run[r].rows[f]
    <3>1. /\ sent[f] < row.ref /\ sent'[f] = row.now /\ row.ref <= row.now
          /\ row.ref \in Points /\ row.now \in Points
      BY <1>1, <1>4, <2>2
    <3>2. row.ref \in Int /\ row.now \in Int
      BY <1>2, <3>1
    <3>3. QED
      BY <2>1, <3>1, <3>2
  <2>3. CASE f \notin Unmarked(r)
    BY <1>5, <2>1, <2>3
  <2>4. QED
    BY <2>2, <2>3
<1>8. ASSUME NEW f \in Families, NEW k \in Points, mails'[f][k] > 0
      PROVE  sent'[f] >= k
  BY <1>2, <1>6, <1>7, <1>8, UniqueParts DEF UniqueByJob
<1>9. ASSUME NEW f \in rest
      PROVE  /\ sent'[f] >= run[r].rows[f].ref
             /\ mails[f][run[r].rows[f].ref] = 0
  <2>1. /\ f \in Unmarked(r) /\ f \in Families /\ run[r].rows[f].ref \in Points
    BY <1>1, <1>4
  <2>2. sent'[f] >= run[r].rows[f].ref
    BY <1>1, <1>2, <1>4, <2>1
  <2>3. ~(mails[f][run[r].rows[f].ref] > 0)
    <3>1. sent[f] \in Int /\ run[r].rows[f].ref \in Int /\ sent[f] < run[r].rows[f].ref
      BY <1>2, <1>4, <1>7, <2>1
    <3>2. ~(sent[f] >= run[r].rows[f].ref)
      BY <3>1
    <3>3. QED
      BY <2>1, <3>2, UniqueParts DEF UniqueByJob
  <2>4. mails[f][run[r].rows[f].ref] \in Nat
    BY <1>0, <2>1
  <2>5. QED
    BY <2>2, <2>3, <2>4
<1>10. JobUnique(r)'
  BY <1>1, <1>3, <1>4, <1>6, <1>9 DEF JobUnique
<1>11. ASSUME NEW q \in Replicas, q # r
       PROVE  JobUnique(q)'
  <2>1. run[q].rows \in Rows /\ run'[q] = run[q] /\ JobUnique(q)
    BY <1>3, <1>11, UniqueParts DEF UniqueByJob, TypeOK, Run
  <2>2. \A f \in DOMAIN run[q].rows : f \in Families /\ run[q].rows[f].ref \in Int
    BY <1>2, <2>1, RowsFacts
  <2>3. QED
    BY <1>6, <1>7, <2>1, <2>2 DEF JobUnique
<1>12. ASSUME NEW q \in Replicas, NEW f, q # r
       PROVE  ~Clash(r, q, f)' /\ ~Clash(q, r, f)'
  <2> SUFFICES ASSUME f \in rest, run[q].at = "mail", f \in DOMAIN run[q].rows,
                      run[r].rows[f].ref = run[q].rows[f].ref
               PROVE  FALSE
    BY <1>3, <1>12 DEF Clash
  <2>1. sent[f] >= run[q].rows[f].ref
    BY UniqueParts DEF UniqueByJob, JobUnique
  <2>2. sent[f] < run[r].rows[f].ref /\ f \in Families
    BY <1>1, <1>4
  <2>3. sent[f] \in Int /\ run[r].rows[f].ref \in Int
    BY <1>1, <1>2, <1>4, <1>7, <2>2
  <2>4. QED
    BY <2>1, <2>2, <2>3
<1>13. ASSUME NEW q \in Replicas, NEW s \in Replicas, NEW f, Clash(q, s, f)'
       PROVE  q = s
  <2>1. CASE q # r /\ s # r
    BY <1>3, <1>13, <2>1, UniqueParts DEF UniqueByJob, Clash
  <2>2. CASE q = r \/ s = r
    BY <1>12, <1>13, <2>2
  <2>3. QED
    BY <2>1, <2>2
<1>14. \A f \in Families : last'[f] <= imports'[f]
  BY <1>6, UniqueParts DEF UniqueByJob
<1>15. QED
  BY <1>8, <1>10, <1>11, <1>13, <1>14, UniqueParts, UniquePartsNext DEF UniqueByJob

\* A mail that is sent, or whose sending reports an error, is the first one
\* for its import, and the last.
LEMMA UniqueMail ==
  ASSUME TypeOK, ClaimsUnique, OneMailPerImport, NEW r \in Replicas, NEW f \in Families,
         Take(r, f), UNCHANGED tables,
         mails' = [mails EXCEPT ![f][run[r].rows[f].ref] = @ + 1]
  PROVE  ClaimsUnique' /\ OneMailPerImport'
<1> DEFINE k == run[r].rows[f].ref
           rest == DOMAIN run[r].rows \ {f}
<1>0. /\ run[r].rows \in Rows /\ mails \in [Families -> [Points -> Nat]]
      /\ run[r].at = "mail" /\ f \in DOMAIN run[r].rows
  BY DEF TypeOK, Run, Take
<1>1. k \in Points /\ sent[f] >= k /\ mails[f][k] = 0
  BY <1>0, RowsFacts, UniqueParts DEF UniqueByJob, JobUnique
<1>2. /\ \A q \in Replicas : q # r => run'[q] = run[q]
      /\ DOMAIN run'[r].rows = rest
      /\ \A g \in rest : run'[r].rows[g] = run[r].rows[g]
  BY ProceedOK DEF Take
<1>3. UNCHANGED <<imports, last, sent>>
  BY DEF tables
<1>4. \A g \in Families, j \in Points :
        mails'[g][j] = IF g = f /\ j = k THEN 1 ELSE mails[g][j]
  BY <1>0, <1>1
<1>5. OneMailPerImport'
  BY <1>4 DEF OneMailPerImport
<1>6. \A g \in Families, j \in Points : mails'[g][j] > 0 => sent'[g] >= j
  BY <1>1, <1>3, <1>4, UniqueParts DEF UniqueByJob
<1>7. ASSUME NEW q \in Replicas
      PROVE  JobUnique(q)'
  <2>1. run[q].rows \in Rows /\ JobUnique(q)
    BY UniqueParts DEF UniqueByJob, TypeOK, Run
  <2>2. \A g \in DOMAIN run[q].rows : g \in Families /\ run[q].rows[g].ref \in Points
    BY <2>1, RowsFacts
  <2>3. \A g \in DOMAIN run'[q].rows : /\ g \in DOMAIN run[q].rows
                                     /\ run'[q].rows[g] = run[q].rows[g]
    BY <1>2
  <2>4. run'[q].at = "mail" => run[q].at = "mail"
    BY <1>0, <1>2
  <2>5. ASSUME NEW g \in DOMAIN run'[q].rows, run'[q].at = "mail"
        PROVE  ~(g = f /\ run[q].rows[g].ref = k)
    <3>1. CASE q = r
      BY <1>2, <3>1
    <3>2. CASE q # r
      BY <1>0, <2>3, <2>4, <2>5, <3>2, UniqueParts DEF UniqueByJob, Clash
    <3>3. QED
      BY <3>1, <3>2
  <2>6. QED
    BY <1>3, <1>4, <2>1, <2>2, <2>3, <2>4, <2>5 DEF JobUnique
<1>8. \A q, s \in Replicas : \A g : Clash(q, s, g)' => Clash(q, s, g)
  BY <1>0, <1>2 DEF Clash
<1>9. \A g \in Families : last'[g] <= imports'[g]
  BY <1>3, UniqueParts DEF UniqueByJob
<1>10. QED
  BY <1>5, <1>6, <1>7, <1>8, <1>9, UniqueParts, UniquePartsNext DEF UniqueByJob

\* No process makes a family receive two reminders for one import.
LEMMA NextUnique ==
  TypeOK /\ ClaimsUnique /\ OneMailPerImport /\ [Next]_vars
    => ClaimsUnique' /\ OneMailPerImport'
<1> SUFFICES ASSUME TypeOK, ClaimsUnique, OneMailPerImport, [Next]_vars
             PROVE  ClaimsUnique' /\ OneMailPerImport'
  OBVIOUS
<1> DEFINE Goal == ClaimsUnique' /\ OneMailPerImport'
<1>0. /\ last \in [Families -> Points] /\ imports \in [Families -> Points]
      /\ Points \subseteq Int
      /\ \A f \in Families : last[f] <= imports[f]
      /\ \A r \in Replicas :
           run[r].rows \in Rows /\ \A f \in DOMAIN run[r].rows :
                                     run[r].rows[f].ref <= run[r].rows[f].now
  BY UniqueParts DEF UniqueByJob, JobUnique, TypeOK, Run, Points
<1>a. ASSUME mails' = mails
      PROVE  OneMailPerImport'
  BY <1>a DEF OneMailPerImport
<1>1. ASSUME NEW f \in Families, Import(f) \/ DeleteImports(f)
      PROVE  Goal
  <2>1. /\ UNCHANGED <<sent, run, mails>>
    BY <1>1 DEF Import, DeleteImports, history
  <2>2. \A g \in Families : last'[g] <= imports'[g]
    <3>1. CASE Import(f)
      <4>1. /\ imports[f] \in Int /\ imports'[f] = imports[f] + 1 /\ last'[f] = imports[f] + 1
            /\ \A g \in Families : g # f => imports'[g] = imports[g] /\ last'[g] = last[g]
        BY <1>0, <3>1 DEF Import
      <4>2. last'[f] <= imports'[f]
        BY <4>1
      <4>3. QED
        BY <1>0, <4>1, <4>2
    <3>2. CASE DeleteImports(f)
      <4>1. PICK k \in 0 .. (last[f] - 1) : last' = [last EXCEPT ![f] = k] /\ imports' = imports
        BY <3>2 DEF DeleteImports
      <4>2. /\ last'[f] = k /\ last[f] \in Int /\ imports[f] \in Int /\ last[f] <= imports[f]
            /\ \A g \in Families : g # f => last'[g] = last[g]
        BY <1>0, <4>1
      <4>3. k <= imports[f]
        BY <4>2
      <4>4. QED
        BY <1>0, <4>1, <4>2, <4>3
    <3>3. QED
      BY <1>1, <3>1, <3>2
  <2>3. ClaimsUnique'
    BY <2>1, <2>2 DEF ClaimsUnique, Pending
  <2>4. QED
    BY <1>a, <2>1, <2>3
<1>2. ASSUME NEW r \in Replicas, ClaimSnapshot(r)
      PROVE  Goal
  <2>1. PICK S \in Selections :
          run' = [run EXCEPT ![r] = [at |-> "claim", ran |-> TRUE,
                    rows |-> [f \in S |-> [ref |-> last[f], now |-> imports[f]]]]]
    BY <1>2 DEF ClaimSnapshot
  <2>2. S \subseteq Families
    BY DEF Selections
  <2>3. /\ \A q \in Replicas : q # r => run'[q] = run[q]
        /\ run'[r].at = "claim" /\ run'[r].rows = [f \in S |-> [ref |-> last[f], now |-> imports[f]]]
    BY <2>1 DEF TypeOK
  <2>4. \A f \in DOMAIN run'[r].rows : run'[r].rows[f].ref <= run'[r].rows[f].now
    BY <1>0, <2>2, <2>3
  <2>5. UNCHANGED <<imports, last, sent, mails>>
    BY <1>2 DEF ClaimSnapshot, tables, history
  <2>6. ClaimsUnique'
    BY <1>0, <2>3, <2>4, <2>5, UniqueQuiet
  <2>7. QED
    BY <1>a, <2>5, <2>6
<1>3. ASSUME NEW r \in Replicas, ClaimCommit(r) \/ ClaimUnheard(r)
      PROVE  Goal
  <2>1. Mark(r) /\ \E rest \in SUBSET Unmarked(r) : Proceed(r, rest)
    BY <1>3 DEF ClaimCommit, ClaimUnheard
  <2>2. ClaimsUnique'
    BY <2>1, UniqueMark
  <2>3. QED
    BY <1>a, <2>1, <2>2 DEF Mark
\* The steps that only drop rows.
<1>4. ASSUME NEW r \in Replicas, UNCHANGED tables, mails' = mails,
             NEW rest \in SUBSET (DOMAIN run[r].rows), Proceed(r, rest),
             rest # {} => run[r].at = "mail"
      PROVE  Goal
  <2>1. /\ \A q \in Replicas : q # r => run'[q] = run[q]
        /\ DOMAIN run'[r].rows = rest
        /\ \A f \in rest : run'[r].rows[f] = run[r].rows[f]
        /\ run'[r].at = "mail" => rest # {}
    BY <1>4, ProceedOK, ProceedEnds
  <2>2. QED
    BY <1>0, <1>a, <1>4, <2>1, UniqueQuiet DEF tables
<1>5. ASSUME NEW r \in Replicas, ClaimFails(r)
      PROVE  Goal
  BY <1>4, <1>5 DEF ClaimFails, history
<1>6. ASSUME NEW r \in Replicas, NEW f \in Families, Mail(r, f) \/ MailFails(r, f)
      PROVE  Goal
  <2>1. Take(r, f) /\ UNCHANGED tables
    BY <1>6 DEF Mail, MailFails
  <2>2. CASE mails' = [mails EXCEPT ![f][run[r].rows[f].ref] = @ + 1]
    BY <2>1, <2>2, UniqueMail
  <2>3. CASE mails' = mails
    BY <1>4, <2>1, <2>3 DEF Take
  <2>4. QED
    BY <1>6, <2>2, <2>3 DEF Mail, MailFails
<1>7. ASSUME NEW r \in Replicas, Stop(r) \/ Restart(r)
      PROVE  Goal
  <2>1. UNCHANGED <<imports, last, sent, mails>>
    BY <1>7 DEF Stop, Restart, tables, history
  <2>2. /\ \A q \in Replicas : q # r => run'[q] = run[q]
        /\ run'[r].at \in {"down", "wait"}
        /\ run'[r].rows = NoRows \/ run'[r].rows = run[r].rows
    BY <1>7 DEF Stop, Restart, TypeOK, Run
  <2>3. \A f \in DOMAIN run'[r].rows : run'[r].rows[f].ref <= run'[r].rows[f].now
    BY <1>0, <2>2, NoRowsOK
  <2>4. ClaimsUnique'
    BY <1>0, <2>1, <2>2, <2>3, UniqueQuiet
  <2>5. QED
    BY <1>a, <2>1, <2>4
<1>8. CASE Tick \/ UNCHANGED vars
  <2>1. UNCHANGED <<imports, last, sent, mails>>
    BY <1>8 DEF Tick, vars, history
  <2>2. \A r \in Replicas : run'[r].at = run[r].at /\ run'[r].rows = run[r].rows
    BY <1>8 DEF Tick, vars, TypeOK, Run
  <2>3. ClaimsUnique'
    BY <2>1, <2>2 DEF ClaimsUnique, Pending
  <2>4. QED
    BY <1>a, <2>1, <2>3
<1>9. QED
  BY <1>1, <1>2, <1>3, <1>5, <1>6, <1>7, <1>8 DEF Next

LEMMA InitUnique == Init => ClaimsUnique /\ OneMailPerImport
  BY NoRowsOK DEF Init, ClaimsUnique, OneMailPerImport, Pending

\* However the replicas overlap, stop, restart and fail, and whatever is
\* imported and deleted, a family gets one reminder at most for each import.
THEOREM MailsOnce == Spec => []OneMailPerImport
<1>1. Init => ClaimsUnique /\ OneMailPerImport
  BY InitUnique
<1>2. TypeOK /\ (ClaimsUnique /\ OneMailPerImport) /\ [Next]_vars
        => (ClaimsUnique /\ OneMailPerImport)'
  BY NextUnique
<1>3. QED
  BY <1>1, <1>2, TypeCorrect, PTL DEF Spec

-----------------------------------------------------------------------------
(* No claim is forgotten.                                                  *)

Accounted(c) ==
  mails[c[1]][c[2]] > 0 \/ c \in lost \/ \E r \in Replicas : c \in Pending(r)

\* A step after which every claim, if new or pending for r, is accounted for.
LEMMA AccountedQuiet ==
  ASSUME TypeOK, ClaimsAccounted, NEW r \in Replicas,
         \A f \in Families, k \in Points : mails[f][k] > 0 => mails'[f][k] > 0,
         lost \subseteq lost',
         \A q \in Replicas : q # r => run'[q] = run[q],
         \A c \in Pending(r) \cup (claims' \ claims) : Accounted(c)'
  PROVE  ClaimsAccounted'
<1> SUFFICES ASSUME NEW c \in claims'
             PROVE  Accounted(c)'
  BY DEF ClaimsAccounted, Accounted
<1>1. CASE c \notin claims \/ c \in Pending(r)
  BY <1>1
<1>2. CASE c \in claims /\ c \notin Pending(r)
  <2>1. /\ c \in Families \X Points
        /\ mails[c[1]][c[2]] > 0 \/ c \in lost \/ \E q \in Replicas : c \in Pending(q)
    BY <1>2 DEF ClaimsAccounted, TypeOK
  <2>2. CASE mails[c[1]][c[2]] > 0
    BY <2>1, <2>2 DEF Accounted
  <2>3. CASE c \in lost
    BY <2>3 DEF Accounted
  <2>4. CASE \E q \in Replicas : c \in Pending(q)
    <3>1. PICK q \in Replicas : c \in Pending(q)
      BY <2>4
    <3>2. c \in Pending(q)'
      BY <1>2, <3>1 DEF Pending
    <3>3. QED
      BY <3>2 DEF Accounted
  <2>5. QED
    BY <2>1, <2>2, <2>3, <2>4
<1>3. QED
  BY <1>1, <1>2

LEMMA NextAccounted == TypeOK /\ ClaimsAccounted /\ [Next]_vars => ClaimsAccounted'
<1> SUFFICES ASSUME TypeOK, ClaimsAccounted, [Next]_vars PROVE ClaimsAccounted'
  OBVIOUS
<1> DEFINE Goal == ClaimsAccounted'
<1>1. ASSUME UNCHANGED history, \A r \in Replicas : Pending(r)' = Pending(r)
      PROVE  Goal
  BY <1>1 DEF history, ClaimsAccounted
<1>2. ASSUME NEW f \in Families, Import(f) \/ DeleteImports(f)
      PROVE  Goal
  BY <1>1, <1>2 DEF Import, DeleteImports, Pending
<1>3. ASSUME NEW r \in Replicas, ClaimSnapshot(r) \/ ClaimFails(r) \/ Restart(r)
      PROVE  Goal
  <2>1. UNCHANGED history
    BY <1>3 DEF ClaimSnapshot, ClaimFails, Restart
  <2>2. /\ run[r].at # "mail" /\ \A q \in Replicas : q # r => run'[q] = run[q]
        /\ run'[r].at # "mail"
    <3>1. CASE ClaimSnapshot(r)
      BY <3>1 DEF ClaimSnapshot, TypeOK
    <3>2. CASE ClaimFails(r)
      BY <3>2, ProceedOK, ProceedEnds DEF ClaimFails
    <3>3. CASE Restart(r)
      BY <3>3 DEF Restart, TypeOK, Run
    <3>4. QED
      BY <1>3, <3>1, <3>2, <3>3
  <2>3. \A q \in Replicas : Pending(q)' = Pending(q)
    BY <2>2 DEF Pending
  <2>4. QED
    BY <1>1, <2>1, <2>3
<1>4. ASSUME NEW r \in Replicas, ClaimCommit(r) \/ ClaimUnheard(r)
      PROVE  Goal
  <2> DEFINE won == {<<f, run[r].rows[f].ref>> : f \in Unmarked(r)}
  <2>1. /\ Mark(r) /\ Pending(r) = {} /\ mails' = mails /\ lost \subseteq lost'
        /\ claims' = claims \cup won
    BY <1>4 DEF ClaimCommit, ClaimUnheard, Mark, Pending
  <2>2. PICK rest \in SUBSET Unmarked(r) :
          Proceed(r, rest) /\ (rest = Unmarked(r) \/ won \subseteq lost')
    BY <1>4 DEF ClaimCommit, ClaimUnheard
  <2>3. /\ \A q \in Replicas : q # r => run'[q] = run[q]
        /\ DOMAIN run'[r].rows = rest
        /\ \A f \in rest : run'[r].rows[f] = run[r].rows[f]
        /\ rest # {} => run'[r].at = "mail"
    BY <2>1, <2>2, MarkOK, ProceedOK
  <2>4. ASSUME NEW c \in won
        PROVE  Accounted(c)'
    <3>1. PICK f \in Unmarked(r) : c = <<f, run[r].rows[f].ref>>
      OBVIOUS
    <3>2. CASE rest = Unmarked(r)
      BY <2>3, <3>1, <3>2 DEF Accounted, Pending
    <3>3. CASE won \subseteq lost'
      BY <3>3 DEF Accounted
    <3>4. QED
      BY <2>2, <3>2, <3>3
  <2>5. QED
    BY <2>1, <2>3, <2>4, AccountedQuiet
<1>5. ASSUME NEW r \in Replicas, NEW f \in Families, Mail(r, f) \/ MailFails(r, f)
      PROVE  Goal
  <2> DEFINE k == run[r].rows[f].ref
             rest == DOMAIN run[r].rows \ {f}
  <2>1. /\ Take(r, f) /\ claims' = claims /\ lost \subseteq lost'
        /\ run[r].at = "mail" /\ f \in DOMAIN run[r].rows /\ run[r].rows \in Rows
        /\ mails \in [Families -> [Points -> Nat]]
    BY <1>5 DEF Mail, MailFails, Take, TypeOK, Run
  <2>2. k \in Points
    BY <2>1, RowsFacts
  <2>3. /\ \A q \in Replicas : q # r => run'[q] = run[q]
        /\ DOMAIN run'[r].rows = rest
        /\ \A g \in rest : run'[r].rows[g] = run[r].rows[g]
        /\ rest # {} => run'[r].at = "mail"
    BY <2>1, ProceedOK DEF Take
  <2>4. mails' = [mails EXCEPT ![f][k] = @ + 1] \/ mails' = mails
    BY <1>5 DEF Mail, MailFails
  <2>5. \A g \in Families, j \in Points : mails[g][j] > 0 => mails'[g][j] > 0
    BY <2>1, <2>2, <2>4
  <2>6. mails'[f][k] > 0 \/ <<f, k>> \in lost'
    BY <1>5, <2>1, <2>2 DEF Mail, MailFails
  <2>7. ASSUME NEW c \in Pending(r)
        PROVE  Accounted(c)'
    <3>1. PICK g \in DOMAIN run[r].rows : c = <<g, run[r].rows[g].ref>>
      BY <2>1 DEF Pending
    <3>2. CASE g = f
      BY <2>6, <3>1, <3>2 DEF Accounted
    <3>3. CASE g # f
      BY <2>3, <3>1, <3>3 DEF Accounted, Pending
    <3>4. QED
      BY <3>2, <3>3
  <2>8. QED
    BY <2>1, <2>3, <2>5, <2>7, AccountedQuiet
<1>6. ASSUME NEW r \in Replicas, Stop(r)
      PROVE  Goal
  <2>1. /\ lost' = lost \cup Pending(r) /\ claims' = claims /\ mails' = mails
        /\ \A q \in Replicas : q # r => run'[q] = run[q]
    BY <1>6 DEF Stop, TypeOK
  <2>2. \A c \in Pending(r) : Accounted(c)'
    BY <2>1 DEF Accounted
  <2>3. QED
    BY <2>1, <2>2, AccountedQuiet
<1>7. CASE Tick \/ UNCHANGED vars
  <2>1. /\ UNCHANGED history
        /\ \A r \in Replicas : run'[r].at = run[r].at /\ run'[r].rows = run[r].rows
    BY <1>7 DEF Tick, vars, history, TypeOK, Run
  <2>2. QED
    BY <1>1, <2>1 DEF Pending
<1>8. QED
  BY <1>2, <1>3, <1>4, <1>5, <1>6, <1>7 DEF Next

\* A claimed family is mailed, is still to be mailed, or lost its mail to a
\* failure of its own or to the end of the process: the recover around each
\* family and the loop that goes on lose no other.
THEOREM ClaimsKept == Spec => []ClaimsAccounted
<1>1. Init => ClaimsAccounted
  BY DEF Init, ClaimsAccounted
<1>2. QED
  BY <1>1, NextAccounted, TypeCorrect, PTL DEF Spec
-----------------------------------------------------------------------------
(* The cap.                                                                *)

\* The rows selected by claims that are not committed yet.
Selected == {c \in Replicas \X Families :
               run[c[1]].at = "claim" /\ c[2] \in DOMAIN run[c[1]].rows}

\* What counts against the cap is what is marked together with what a claim
\* under way may mark.
CapCounted ==
  /\ IsFiniteSet(Selected)
  /\ Cardinality(today) + Cardinality(Selected) <= DailyCap * (1 + blind)

LEMMA Finite ==
  ASSUME NEW S \in SUBSET Families
  PROVE  IsFiniteSet(S) /\ Cardinality(S) \in Nat
  BY FamiliesFinite, FS_Subset, FS_CardinalityType

\* The rows of one claim, as members of Selected.
LEMMA RowsOf ==
  ASSUME NEW r \in Replicas, NEW S \in SUBSET Families
  PROVE  /\ IsFiniteSet({r} \X S)
         /\ Cardinality({r} \X S) = Cardinality(S)
<1>1. /\ IsFiniteSet({r}) /\ Cardinality({r}) = 1
      /\ IsFiniteSet(S) /\ Cardinality(S) \in Nat
  BY Finite, FS_Singleton
<1>2. /\ IsFiniteSet({r} \X S)
      /\ Cardinality({r} \X S) = Cardinality({r}) * Cardinality(S)
  BY <1>1, FS_Product
<1>3. QED
  BY <1>1, <1>2

LEMMA DisjointUnion ==
  ASSUME NEW S, NEW T, IsFiniteSet(S), IsFiniteSet(T), S \cap T = {}
  PROVE  /\ IsFiniteSet(S \cup T)
         /\ Cardinality(S \cup T) = Cardinality(S) + Cardinality(T)
<1>1. /\ Cardinality(S) \in Nat /\ Cardinality(T) \in Nat
      /\ Cardinality({}) = 0
  BY FS_CardinalityType, FS_EmptySet
<1>2. /\ IsFiniteSet(S \cup T)
      /\ Cardinality(S \cup T) = Cardinality(S) + Cardinality(T) - Cardinality(S \cap T)
  BY FS_Union
<1>3. Cardinality(S \cap T) = 0
  BY <1>1
<1>4. QED
  BY <1>1, <1>2, <1>3

\* A step after which no more is marked and selected than before.
LEMMA CapQuiet ==
  ASSUME TypeOK, CapCounted, UNCHANGED <<today, blind>>, Selected' \subseteq Selected
  PROVE  CapCounted'
<1>1. /\ IsFiniteSet(Selected') /\ Cardinality(Selected') <= Cardinality(Selected)
      /\ Cardinality(Selected') \in Nat /\ Cardinality(Selected) \in Nat
  BY FS_Subset, FS_CardinalityType DEF CapCounted
<1>2. Cardinality(today) \in Nat
  BY Finite DEF TypeOK
<1>3. DailyCap * (1 + blind) \in Int
  BY ConstantsAssumption DEF TypeOK
<1>4. Cardinality(today) + Cardinality(Selected') <= DailyCap * (1 + blind)
  BY <1>1, <1>2, <1>3 DEF CapCounted
<1>5. QED
  BY <1>1, <1>4 DEF CapCounted

\* A claim takes its snapshot: it selects up to what is left of the cap, seeing
\* what is marked and not what others have selected.
LEMMA CapSnapshot ==
  ASSUME TypeOK, CapCounted, NEW r \in Replicas, ClaimSnapshot(r)
  PROVE  CapCounted'
<1>1. PICK S \in Selections :
        run' = [run EXCEPT ![r] = [at |-> "claim", ran |-> TRUE,
                  rows |-> [f \in S |-> [ref |-> last[f], now |-> imports[f]]]]]
  BY DEF ClaimSnapshot
<1>2. S \in SUBSET Families /\ Cardinality(S) <= Limit
  BY DEF Selections
<1>3. /\ \A q \in Replicas : q # r => run'[q] = run[q]
      /\ run[r].at = "wait" /\ run'[r].at = "claim"
      /\ DOMAIN run'[r].rows = S /\ UNCHANGED today
  BY <1>1 DEF ClaimSnapshot, TypeOK, tables
<1> DEFINE rows == {r} \X S
           n == Cardinality(today)
           m == Cardinality(Selected)
           s == Cardinality(S)
<1>4. Selected' = Selected \cup rows /\ Selected \cap rows = {}
  BY <1>2, <1>3 DEF Selected
<1>5. /\ IsFiniteSet(Selected) /\ m \in Nat /\ n \in Nat /\ s \in Nat
      /\ IsFiniteSet(rows) /\ Cardinality(rows) = s
  BY <1>2, Finite, RowsOf, FS_CardinalityType DEF CapCounted, TypeOK
<1>6. /\ IsFiniteSet(Selected')
      /\ Cardinality(Selected') = m + s
  <2>1. /\ IsFiniteSet(Selected \cup rows)
        /\ Cardinality(Selected \cup rows) = Cardinality(Selected) + Cardinality(rows)
    BY <1>4, <1>5, DisjointUnion
  <2>2. QED
    BY <1>4, <1>5, <2>1
<1> HIDE DEF rows, n, m, s
<1>7. /\ blind \in Nat /\ DailyCap \in Nat
      /\ n + m <= DailyCap * (1 + blind)
      /\ s <= IF DailyCap - n > 0 THEN DailyCap - n ELSE 0
  BY <1>2, ConstantsAssumption DEF TypeOK, CapCounted, Limit, n, m, s
<1>8. n + (m + s) <= DailyCap * (1 + blind')
  <2>1. CASE \E q \in Replicas : run[q].at = "claim"
    <3>1. blind' = blind + 1
      BY <2>1 DEF ClaimSnapshot
    <3>2. DailyCap * (1 + (blind + 1)) = DailyCap * (1 + blind) + DailyCap
      BY <1>7
    <3>3. s <= DailyCap
      BY <1>5, <1>7
    <3>4. DailyCap * (1 + blind) \in Int
      BY <1>7
    <3>5. QED
      BY <1>5, <1>7, <3>1, <3>2, <3>3, <3>4
  <2>2. CASE ~\E q \in Replicas : run[q].at = "claim"
    <3>1. blind' = blind /\ Selected = {}
      BY <2>2 DEF ClaimSnapshot, Selected
    <3>2. m = 0
      BY <3>1, FS_EmptySet DEF m
    <3>3. DailyCap <= DailyCap * (1 + blind) /\ DailyCap * (1 + blind) \in Int
      BY <1>7
    <3>4. QED
      BY <1>5, <1>7, <3>1, <3>2, <3>3
  <2>3. QED
    BY <2>1, <2>2
<1>9. QED
  BY <1>3, <1>6, <1>8 DEF CapCounted, n

\* A claim commits: what it marks, it had selected.
LEMMA CapMark ==
  ASSUME TypeOK, CapCounted, NEW r \in Replicas, Mark(r),
         NEW rest \in SUBSET Unmarked(r), Proceed(r, rest)
  PROVE  CapCounted'
<1> DEFINE S == DOMAIN run[r].rows
           won == Unmarked(r)
           rows == {r} \X S
<1>1. S \in SUBSET Families /\ won \in SUBSET S
  BY RowsFacts DEF Unmarked, TypeOK, Run
<1>2. /\ \A q \in Replicas : q # r => run'[q] = run[q]
      /\ run[r].at = "claim" /\ run'[r].at \in {"wait", "mail"}
      /\ today' = today \cup won /\ blind' = blind
  BY <1>1, ProceedOK DEF Mark
<1>3. Selected = Selected' \cup rows /\ Selected' \cap rows = {}
  BY <1>1, <1>2 DEF Selected
<1>4. IsFiniteSet(Selected') /\ IsFiniteSet(rows) /\ Cardinality(rows) = Cardinality(S)
  BY <1>1, <1>3, RowsOf, FS_Subset DEF CapCounted
<1>5. Cardinality(Selected) = Cardinality(Selected') + Cardinality(S)
  <2>1. Cardinality(Selected' \cup rows) = Cardinality(Selected') + Cardinality(rows)
    BY <1>3, <1>4, DisjointUnion
  <2>2. QED
    BY <1>3, <1>4, <2>1
<1>6. /\ Cardinality(today') <= Cardinality(today) + Cardinality(S)
      /\ Cardinality(today) \in Nat /\ Cardinality(today') \in Nat /\ Cardinality(S) \in Nat
      /\ Cardinality(Selected') \in Nat
  <2>1. Cardinality(won) <= Cardinality(S) /\ Cardinality(won) \in Nat
    BY <1>1, Finite, FS_Subset
  <2>2. /\ IsFiniteSet(today) /\ IsFiniteSet(won) /\ today \cap won \in SUBSET Families
        /\ today \cup won \in SUBSET Families /\ today \in SUBSET Families
    BY <1>1, Finite DEF TypeOK
  <2>3. Cardinality(today \cup won)
          = Cardinality(today) + Cardinality(won) - Cardinality(today \cap won)
    BY <2>2, FS_Union
  <2>4. Cardinality(today \cap won) \in Nat /\ Cardinality(today) \in Nat
    BY <2>2, Finite
  <2>5. Cardinality(today \cup won) \in Nat /\ Cardinality(S) \in Nat
    BY <1>1, <2>2, Finite
  <2>6. Cardinality(Selected') \in Nat
    BY <1>4, FS_CardinalityType
  <2>7. QED
    BY <1>2, <2>1, <2>3, <2>4, <2>5, <2>6
<1>7. DailyCap * (1 + blind) \in Int
  BY ConstantsAssumption DEF TypeOK
<1>8. Cardinality(today') + Cardinality(Selected') <= DailyCap * (1 + blind)
  BY <1>5, <1>6, <1>7 DEF CapCounted
<1>9. QED
  BY <1>2, <1>4, <1>8 DEF CapCounted

LEMMA NextCap == TypeOK /\ CapCounted /\ [Next]_vars => CapCounted'
<1> SUFFICES ASSUME TypeOK, CapCounted, [Next]_vars PROVE CapCounted'
  OBVIOUS
<1> DEFINE Goal == CapCounted'
<1>1. ASSUME NEW f \in Families, Import(f) \/ DeleteImports(f)
      PROVE  Goal
  BY <1>1, CapQuiet DEF Import, DeleteImports, Selected
<1>2. ASSUME NEW r \in Replicas, ClaimSnapshot(r)
      PROVE  Goal
  BY <1>2, CapSnapshot
<1>3. ASSUME NEW r \in Replicas, ClaimCommit(r) \/ ClaimUnheard(r)
      PROVE  Goal
  BY <1>3, CapMark DEF ClaimCommit, ClaimUnheard
\* The other steps of a replica start no claim.
<1>4. ASSUME NEW r \in Replicas, UNCHANGED <<today, blind>>,
             \A q \in Replicas : q # r => run'[q] = run[q], run'[r].at # "claim"
      PROVE  Goal
  <2>1. Selected' \subseteq Selected
    BY <1>4 DEF Selected
  <2>2. QED
    BY <1>4, <2>1, CapQuiet
<1>5. ASSUME NEW r \in Replicas, ClaimFails(r)
      PROVE  Goal
  BY <1>4, <1>5, ProceedOK DEF ClaimFails, tables
<1>6. ASSUME NEW r \in Replicas, NEW f \in Families, Mail(r, f) \/ MailFails(r, f)
      PROVE  Goal
  <2>1. Take(r, f) /\ UNCHANGED <<today, blind>>
    BY <1>6 DEF Mail, MailFails, tables
  <2>2. QED
    BY <1>4, <2>1, ProceedOK DEF Take
<1>7. ASSUME NEW r \in Replicas, Stop(r) \/ Restart(r)
      PROVE  Goal
  <2>1. UNCHANGED <<today, blind>> /\ \A q \in Replicas : q # r => run'[q] = run[q]
    BY <1>7 DEF Stop, Restart, tables, TypeOK
  <2>2. run'[r].at \in {"down", "wait"}
    BY <1>7 DEF Stop, Restart, TypeOK, Run
  <2>3. QED
    BY <1>4, <2>1, <2>2
\* The new day finds no claim under way.
<1>8. CASE Tick
  <2>1. Selected' = {} /\ today' = {} /\ blind' = 0
    BY <1>8 DEF Tick, Selected, TypeOK, Run
  <2>2. QED
    BY <2>1, FS_EmptySet, ConstantsAssumption DEF CapCounted
<1>9. CASE UNCHANGED vars
  BY <1>9 DEF vars, CapCounted, Selected
<1>10. QED
  BY <1>1, <1>2, <1>3, <1>5, <1>6, <1>7, <1>8, <1>9 DEF Next

\* The mails of a day exceed the cap only by what claims selected while another
\* was uncommitted, by one cap for each of them: failed claims, restarts and
\* replicas that follow one another add nothing.
THEOREM CapHolds == Spec => []CapUnlessBlind
<1>1. Init => CapCounted
  <2>1. Init => Selected = {} /\ today = {} /\ blind = 0
    BY DEF Init, Selected
  <2>2. QED
    BY <2>1, FS_EmptySet, ConstantsAssumption DEF CapCounted
<1>2. TypeOK /\ CapCounted => CapUnlessBlind
  <2> SUFFICES ASSUME TypeOK, CapCounted PROVE CapUnlessBlind
    OBVIOUS
  <2>1. Cardinality(today) \in Nat /\ Cardinality(Selected) \in Nat
    BY Finite, FS_CardinalityType DEF TypeOK, CapCounted
  <2>2. DailyCap * (1 + blind) \in Int
    BY ConstantsAssumption DEF TypeOK
  <2>3. QED
    BY <2>1, <2>2 DEF CapCounted, CapUnlessBlind
<1>3. QED
  BY <1>1, <1>2, NextCap, TypeCorrect, PTL DEF Spec

-----------------------------------------------------------------------------
(* cmd/migrate up, on any number of machines.                              *)

Underway(m) == runner[m].at \in {"loop", "record"}

\* A process has only passed migrations that are recorded, and records one whose
\* effect is there.
Passed ==
  \A m \in Machines :
    /\ Underway(m) => /\ \A i \in 1..(runner[m].next - 1) : i \in recorded
                      /\ runner[m].applied \subseteq recorded
    /\ runner[m].at = "record" => /\ runner[m].next \in effects
                                  /\ runner[m].next <= runner[m].build

\* What is recorded, and a process is still to come to without knowing it, is excused.
UnknownExcused ==
  \A m \in Machines : Underway(m) =>
    \A i \in recorded : i \in runner[m].applied \/ i < runner[m].next \/ i \in excused

\* So is an effect without a record, if no process is about to record it.
UnrecordedExcused ==
  \A i \in effects : \/ i \in recorded \/ i \in excused
                     \/ \E m \in Machines : runner[m].at = "record" /\ runner[m].next = i

\* Before the ids are read the loop has not begun.
Fresh == \A m \in Machines : runner[m].at = "read" => runner[m].next = 1

MigrationsInv ==
  /\ MigrationsTypeOK /\ RecordFollowsEffect
  /\ Passed /\ UnknownExcused /\ UnrecordedExcused /\ RepeatsExcused /\ Fresh

Runner == [at : {"idle", "read", "loop", "record"}, build : 0..LastMigration,
           applied : SUBSET Ids, next : 1..(LastMigration + 1)]

LEMMA NobodyRuns == NoRunner \in Runner /\ NoRunner.at = "idle" /\ NoRunner.next = 1
  BY MigrationsAssumption DEF NoRunner, Runner, Ids

LEMMA MigrationsStart == MigrationsInit => MigrationsInv
<1> SUFFICES ASSUME MigrationsInit PROVE MigrationsInv
  OBVIOUS
<1> USE MigrationsAssumption
<1>1. \A m \in Machines : runner[m] = NoRunner
  BY DEF MigrationsInit
<1>2. NoRunner \in Runner /\ NoRunner.at = "idle"
  BY NobodyRuns
<1>3. MigrationsTypeOK
  BY <1>2 DEF MigrationsInit, MigrationsTypeOK, Runner
<1>4. RecordFollowsEffect
  <2>1. recorded = 1..0 /\ effects = 1..0 /\ 0 \in 0..LastMigration
    BY DEF MigrationsInit
  <2>2. QED
    BY <2>1 DEF RecordFollowsEffect
<1>5. QED
  BY <1>1, <1>2, <1>3, <1>4
  DEF MigrationsInv, MigrationsInit, Passed, UnknownExcused, UnrecordedExcused, RepeatsExcused,
      Underway, Fresh

\* One process moves.
PutRunner(m, r) == r \in Runner /\ runner' = [runner EXCEPT ![m] = r]

LEMMA RunnerPut ==
  ASSUME MigrationsInv, NEW m \in Machines, NEW r, PutRunner(m, r)
  PROVE  /\ runner' \in [Machines -> Runner] /\ runner'[m] = r
         /\ \A q \in Machines \ {m} : runner'[q] = runner[q]
  BY DEF MigrationsInv, MigrationsTypeOK, PutRunner, Runner

\* It ends, or comes to where nothing is under way: what it was about to record, if
\* it was, is recorded or excused.
LEMMA RunnerLeaves ==
  ASSUME MigrationsInv, NEW m \in Machines, NEW r, PutRunner(m, r),
         r.at \in {"idle", "read"}, r.next = 1, UNCHANGED <<recorded, effects, repeated>>, runs' \in Nat,
         excused \subseteq excused', excused' \subseteq Ids,
         runner[m].at = "record" => runner[m].next \in recorded \cup excused'
  PROVE  MigrationsInv'
<1>1. /\ runner' \in [Machines -> Runner] /\ runner'[m] = r
      /\ \A q \in Machines \ {m} : runner'[q] = runner[q]
  BY RunnerPut
<1>2. MigrationsTypeOK'
  BY <1>1 DEF MigrationsInv, MigrationsTypeOK, Runner
<1>3. RecordFollowsEffect' /\ RepeatsExcused'
  BY DEF MigrationsInv, RecordFollowsEffect, RepeatsExcused
<1>4. \A q \in Machines : Underway(q)' => q # m /\ Underway(q)
  BY <1>1 DEF Underway
<1>5. Passed' /\ UnknownExcused'
  BY <1>1, <1>4 DEF MigrationsInv, Passed, UnknownExcused, Underway
<1>6. UnrecordedExcused'
  BY <1>1 DEF MigrationsInv, UnrecordedExcused
<1>7. Fresh'
  BY <1>1 DEF MigrationsInv, Fresh
<1>8. QED
  BY <1>2, <1>3, <1>5, <1>6, <1>7 DEF MigrationsInv

LEMMA StartKeeps ==
  ASSUME MigrationsInv, NEW m \in Machines, NEW build \in Ids, StartRunner(m, build)
  PROVE  MigrationsInv'
<1> DEFINE r == [NoRunner EXCEPT !.at = "read", !.build = build]
<1>1. PutRunner(m, r) /\ r.at = "read" /\ r.next = 1 /\ runner[m].at = "idle"
  <2>1. r \in Runner /\ r.at = "read" /\ r.next = 1
    <3>1. build \in 0..LastMigration
      BY MigrationsAssumption DEF Ids
    <3>2. QED
      BY <3>1, NobodyRuns DEF Runner
  <2>2. runner' = [runner EXCEPT ![m] = r] /\ runner[m] = NoRunner
    BY DEF StartRunner
  <2> HIDE DEF r
  <2>3. QED
    BY <2>1, <2>2, NobodyRuns DEF PutRunner
<1> HIDE DEF r
<1>2. UNCHANGED <<recorded, effects, repeated, excused>> /\ runs' \in Nat /\ excused \subseteq Ids
  BY DEF StartRunner, MigrationsInv, MigrationsTypeOK
<1>3. QED
  BY <1>1, <1>2, RunnerLeaves

LEMMA EndKeeps ==
  ASSUME MigrationsInv, NEW m \in Machines,
         EndLoop(m) \/ RecordFails(m) \/ RunnerFails(m)
  PROVE  MigrationsInv'
<1>1. PutRunner(m, NoRunner) /\ NoRunner.at = "idle" /\ NoRunner.next = 1
  BY MigrationsAssumption
  DEF EndLoop, RecordFails, RunnerFails, PutRunner, NoRunner, Runner, Ids
<1>2. /\ UNCHANGED <<recorded, effects, repeated>> /\ runs' \in Nat
      /\ excused \subseteq Ids /\ (excused' = excused \/ excused' = excused \cup {runner[m].next})
      /\ runner[m].at = "record" => runner[m].next \in excused'
  BY DEF EndLoop, RecordFails, RunnerFails, MigrationsInv, MigrationsTypeOK
<1>3. runner[m].at = "record" => runner[m].next \in Ids
  BY DEF MigrationsInv, Passed, MigrationsTypeOK
<1>4. excused' \subseteq Ids
  BY <1>2, <1>3 DEF EndLoop, RecordFails, RunnerFails
<1>5. QED
  BY <1>1, <1>2, <1>4, RunnerLeaves

\* The ids are read: what is missing from them is excused.
LEMMA ReadKeeps ==
  ASSUME MigrationsInv, NEW m \in Machines, NEW ids \in SUBSET recorded, ReadApplied(m, ids)
  PROVE  MigrationsInv'
<1> DEFINE r1 == [runner[m] EXCEPT !.at = "loop"]
           r == [r1 EXCEPT !.applied = ids]
<1>0. runner[m] \in Runner /\ recorded \subseteq Ids /\ runner \in [Machines -> Runner]
      /\ runner[m].at = "read"
  BY DEF MigrationsInv, MigrationsTypeOK, Runner, ReadApplied
<1>1. PutRunner(m, r) /\ r.at = "loop" /\ r.applied = ids /\ r.next = runner[m].next
  <2>1. r1 \in Runner /\ r1.at = "loop" /\ r1.next = runner[m].next
    BY <1>0 DEF Runner
  <2>2. runner' = [runner EXCEPT ![m] = r]
    BY <1>0 DEF ReadApplied
  <2> HIDE DEF r1
  <2>3. r \in Runner /\ r.at = "loop" /\ r.applied = ids /\ r.next = r1.next
    BY <1>0, <2>1 DEF Runner
  <2>4. QED
    BY <2>1, <2>2, <2>3 DEF PutRunner
<1> HIDE DEF r, r1
<1>2. /\ runner' \in [Machines -> Runner] /\ runner'[m] = r
      /\ \A q \in Machines \ {m} : runner'[q] = runner[q]
  BY <1>1, RunnerPut
<1>3. UNCHANGED <<recorded, effects, runs, repeated>> /\ excused' = excused \cup (recorded \ ids)
  BY DEF ReadApplied
<1>4. runner[m].next = 1
  BY <1>0 DEF MigrationsInv, Fresh
<1>5. MigrationsTypeOK' /\ RecordFollowsEffect' /\ RepeatsExcused'
  BY <1>2, <1>3 DEF MigrationsInv, MigrationsTypeOK, RecordFollowsEffect, RepeatsExcused, Runner
<1>6. Passed'
  BY <1>1, <1>2, <1>3, <1>4 DEF MigrationsInv, Passed, Underway
<1>7. UnknownExcused'
  BY <1>1, <1>2, <1>3 DEF MigrationsInv, UnknownExcused, Underway
<1>8. UnrecordedExcused'
  BY <1>0, <1>2, <1>3 DEF MigrationsInv, UnrecordedExcused
<1>9. Fresh'
  BY <1>1, <1>2 DEF MigrationsInv, Fresh
<1>10. QED
  BY <1>5, <1>6, <1>7, <1>8, <1>9 DEF MigrationsInv

LEMMA SkipKeeps ==
  ASSUME MigrationsInv, NEW m \in Machines, SkipApplied(m)
  PROVE  MigrationsInv'
<1> DEFINE n == runner[m].next + 1
           r == [runner[m] EXCEPT !.next = n]
<1>0. runner[m] \in Runner /\ runner[m].at = "loop" /\ runner[m].next <= runner[m].build
      /\ runner[m].next \in runner[m].applied /\ runner[m].applied \subseteq recorded
      /\ runner[m].next \in Nat
      /\ UNCHANGED <<recorded, effects, runs, repeated, excused>>
  BY MigrationsAssumption
  DEF MigrationsInv, MigrationsTypeOK, Runner, SkipApplied, Passed, Underway
<1>1. n \in 1..(LastMigration + 1)
  BY <1>0, MigrationsAssumption DEF Runner
<1>2. PutRunner(m, r)
  BY <1>0, <1>1 DEF SkipApplied, PutRunner, Runner, MigrationsInv, MigrationsTypeOK
<1>3. r.at = "loop" /\ r.applied = runner[m].applied /\ r.next = n
  BY <1>0 DEF Runner
<1> HIDE DEF r
<1>4. /\ runner' \in [Machines -> Runner] /\ runner'[m] = r
      /\ \A q \in Machines \ {m} : runner'[q] = runner[q]
  BY <1>2, RunnerPut
<1>5. MigrationsTypeOK' /\ RecordFollowsEffect' /\ RepeatsExcused'
  BY <1>0, <1>4 DEF MigrationsInv, MigrationsTypeOK, RecordFollowsEffect, RepeatsExcused, Runner
<1>6. \A i \in 1..(n - 1) : i = runner[m].next \/ i \in 1..(runner[m].next - 1)
  BY <1>0
<1>7. \A i \in Ids : i < runner[m].next => i < n
  BY <1>0 DEF Ids
<1> HIDE DEF n
<1>8. Passed'
  BY <1>0, <1>3, <1>4, <1>6 DEF MigrationsInv, Passed, Underway
<1>9. UnknownExcused'
  BY <1>0, <1>3, <1>4, <1>7 DEF MigrationsInv, MigrationsTypeOK, UnknownExcused, Underway
<1>10. UnrecordedExcused'
  BY <1>0, <1>3, <1>4 DEF MigrationsInv, UnrecordedExcused
<1>11. Fresh'
  BY <1>0, <1>3, <1>4 DEF MigrationsInv, Fresh
<1>12. QED
  BY <1>5, <1>8, <1>9, <1>10, <1>11 DEF MigrationsInv

\* Who is beside m, as the actions see it.
LEMMA BesideOf ==
  ASSUME NEW m \in Machines, NEW id, Excuse(m, id)
  PROVE  /\ excused \subseteq excused' /\ excused' \subseteq excused \cup {id}
         /\ \A q \in Machines \ {m} :
              \/ runner[q].at = "record" /\ runner[q].next = id
              \/ Underway(q) /\ id \notin runner[q].applied
              => id \in excused'
  BY DEF Excuse, Beside, Underway

\* The schema goes one migration further than the record, or nowhere.
LEMMA RunKeeps ==
  ASSUME MigrationsInv, NEW m \in Machines, RunMigration(m)
  PROVE  MigrationsInv'
<1> DEFINE id == runner[m].next
           r == [runner[m] EXCEPT !.at = "record"]
<1>0. /\ runner[m] \in Runner /\ runner[m].at = "loop" /\ id <= runner[m].build
      /\ id \notin runner[m].applied /\ id \in Ids
      /\ effects' = effects \cup {id}
      /\ repeated' = IF id \in effects THEN repeated \cup {id} ELSE repeated
      /\ Excuse(m, id) /\ UNCHANGED <<recorded, runs>>
  BY MigrationsAssumption
  DEF MigrationsInv, MigrationsTypeOK, Runner, RunMigration, ToRun, Ids
<1>1. PutRunner(m, r)
  BY <1>0 DEF RunMigration, PutRunner, Runner, MigrationsInv, MigrationsTypeOK
<1>2. r.at = "record" /\ r.applied = runner[m].applied /\ r.next = id /\ r.build = runner[m].build
  BY <1>0 DEF Runner
<1> HIDE DEF r
<1>3. /\ runner' \in [Machines -> Runner] /\ runner'[m] = r
      /\ \A q \in Machines \ {m} : runner'[q] = runner[q]
  BY <1>1, RunnerPut
<1>4. /\ excused \subseteq excused' /\ excused' \subseteq excused \cup {id}
      /\ \A q \in Machines \ {m} :
           (runner[q].at = "record" /\ runner[q].next = id) => id \in excused'
  BY <1>0, BesideOf
<1>5. MigrationsTypeOK'
  BY <1>0, <1>3, <1>4 DEF MigrationsInv, MigrationsTypeOK, Runner
<1>6. RecordFollowsEffect'
  <2>1. PICK n \in 0..LastMigration : recorded = 1..n /\ effects \in {1..n, 1..(n + 1)}
    BY DEF MigrationsInv, RecordFollowsEffect
  <2>2. \A i \in 1..(id - 1) : i \in 1..n
    BY <1>0, <2>1 DEF MigrationsInv, Passed, Underway
  <2>3. id <= n + 1
    <3>1. id - 1 \in 1..(id - 1) \/ id = 1
      BY <1>0 DEF Ids
    <3>2. QED
      BY <1>0, <2>1, <2>2, <3>1, MigrationsAssumption DEF Ids
  <2>4. effects' \in {1..n, 1..(n + 1)}
    BY <1>0, <2>1, <2>3, MigrationsAssumption DEF Ids
  <2>5. QED
    BY <1>0, <2>1, <2>4 DEF RecordFollowsEffect
<1>7. Passed'
  BY <1>0, <1>2, <1>3 DEF MigrationsInv, Passed, Underway
<1>8. UnknownExcused'
  BY <1>0, <1>2, <1>3, <1>4 DEF MigrationsInv, UnknownExcused, Underway
<1>9. UnrecordedExcused'
  <2> SUFFICES ASSUME NEW i \in effects'
               PROVE  \/ i \in recorded \/ i \in excused'
                      \/ \E q \in Machines : runner'[q].at = "record" /\ runner'[q].next = i
    BY <1>0 DEF UnrecordedExcused
  <2>1. CASE i = id
    BY <1>2, <1>3, <2>1
  <2>2. CASE i # id
    BY <1>0, <1>3, <1>4, <2>2 DEF MigrationsInv, UnrecordedExcused
  <2>3. QED
    BY <2>1, <2>2
<1>10. id \in effects => id \in excused'
  <2>1. id \in recorded => id \in excused
    <3>1. Underway(m) /\ ~(id < id)
      BY <1>0 DEF Underway, Ids
    <3>2. QED
      BY <1>0, <3>1 DEF MigrationsInv, UnknownExcused
  <2>2. id \in effects => id \in recorded \/ id \in excused
                          \/ \E q \in Machines : runner[q].at = "record" /\ runner[q].next = id
    BY DEF MigrationsInv, UnrecordedExcused
  <2>3. QED
    BY <1>0, <1>4, <2>1, <2>2
<1>11. RepeatsExcused'
  BY <1>0, <1>4, <1>10 DEF MigrationsInv, RepeatsExcused
<1>12. Fresh'
  BY <1>2, <1>3 DEF MigrationsInv, Fresh
<1>13. QED
  BY <1>5, <1>6, <1>7, <1>8, <1>9, <1>11, <1>12 DEF MigrationsInv

\* The record takes the migration that comes next, whatever becomes of the process.
LEMMA RecordKeeps ==
  ASSUME MigrationsInv, NEW m \in Machines, RecordMigration(m) \/ RecordUnheard(m)
  PROVE  MigrationsInv'
<1> DEFINE id == runner[m].next
<1>0. /\ runner[m] \in Runner /\ runner[m].at = "record" /\ id \notin recorded
      /\ id \in Ids /\ id \in effects /\ id <= runner[m].build
      /\ recorded' = recorded \cup {id}
      /\ Excuse(m, id) /\ UNCHANGED <<effects, runs, repeated>>
  BY MigrationsAssumption
  DEF MigrationsInv, MigrationsTypeOK, Runner, RecordMigration, RecordUnheard, Passed, Ids
<1>1. PICK r \in Runner : /\ PutRunner(m, r)
                          /\ \/ r.at = "idle" /\ r.next = 1
                             \/ /\ r.at = "loop" /\ r.applied = runner[m].applied
                                /\ r.next = id + 1
  <2>1. CASE RecordMigration(m)
    <3> DEFINE n == id + 1
               r1 == [runner[m] EXCEPT !.at = "loop"]
               r2 == [r1 EXCEPT !.next = n]
    <3>1. n \in 1..(LastMigration + 1)
      BY <1>0, MigrationsAssumption DEF Ids
    <3>2. r1 \in Runner /\ r1.at = "loop" /\ r1.applied = runner[m].applied
      BY <1>0 DEF Runner
    <3>3. runner' = [runner EXCEPT ![m] = r2]
      BY <1>0, <2>1 DEF RecordMigration, MigrationsInv, MigrationsTypeOK
    <3> HIDE DEF n, r1
    <3>4. r2 \in Runner /\ r2.at = "loop" /\ r2.applied = runner[m].applied /\ r2.next = n
      BY <3>1, <3>2 DEF Runner
    <3> HIDE DEF r2
    <3>5. QED
      BY <3>3, <3>4 DEF PutRunner, n
  <2>2. CASE RecordUnheard(m)
    BY <2>2, NobodyRuns DEF RecordUnheard, PutRunner
  <2>3. QED
    BY <2>1, <2>2
<1>2. /\ runner' \in [Machines -> Runner] /\ runner'[m] = r
      /\ \A q \in Machines \ {m} : runner'[q] = runner[q]
  BY <1>1, RunnerPut
<1>3. /\ excused \subseteq excused' /\ excused' \subseteq excused \cup {id}
      /\ \A q \in Machines \ {m} : Underway(q) /\ id \notin runner[q].applied => id \in excused'
  BY <1>0, BesideOf
<1>4. MigrationsTypeOK'
  BY <1>0, <1>2, <1>3 DEF MigrationsInv, MigrationsTypeOK, Runner
<1>5. RecordFollowsEffect'
  <2>1. PICK n \in 0..LastMigration : recorded = 1..n /\ effects \in {1..n, 1..(n + 1)}
    BY DEF MigrationsInv, RecordFollowsEffect
  <2>2. id = n + 1
    BY <1>0, <2>1 DEF Ids
  <2>3. recorded' = 1..(n + 1) /\ effects' = 1..(n + 1) /\ n + 1 \in 0..LastMigration
    BY <1>0, <2>1, <2>2, MigrationsAssumption DEF Ids
  <2>4. QED
    BY <2>3 DEF RecordFollowsEffect
<1>6. Passed'
  <2>1. ASSUME NEW q \in Machines, Underway(q)'
        PROVE  /\ \A i \in 1..(runner'[q].next - 1) : i \in recorded'
               /\ runner'[q].applied \subseteq recorded'
    <3>1. CASE q # m
      BY <1>0, <1>2, <2>1, <3>1 DEF MigrationsInv, Passed, Underway
    <3>2. CASE q = m
      <4>1. r.at = "loop" /\ r.applied = runner[m].applied /\ r.next = id + 1
        BY <1>1, <1>2, <2>1, <3>2 DEF Underway
      <4>2. \A i \in 1..(r.next - 1) : i = id \/ i \in 1..(id - 1)
        BY <1>0, <4>1 DEF Ids
      <4>3. QED
        BY <1>0, <1>2, <3>2, <4>1, <4>2 DEF MigrationsInv, Passed, Underway
    <3>3. QED
      BY <3>1, <3>2
  <2>2. \A q \in Machines : runner'[q].at = "record" =>
          runner'[q].next \in effects' /\ runner'[q].next <= runner'[q].build
    BY <1>0, <1>1, <1>2 DEF MigrationsInv, Passed
  <2>3. QED
    BY <2>1, <2>2 DEF Passed
<1>7. UnknownExcused'
  <2> SUFFICES ASSUME NEW q \in Machines, Underway(q)', NEW i \in recorded'
               PROVE  i \in runner'[q].applied \/ i < runner'[q].next \/ i \in excused'
    BY DEF UnknownExcused
  <2>1. CASE q # m
    BY <1>0, <1>2, <1>3, <2>1 DEF MigrationsInv, UnknownExcused, Underway
  <2>2. CASE q = m
    <3>1. r.at = "loop" /\ r.applied = runner[m].applied /\ r.next = id + 1
      BY <1>1, <1>2, <2>2 DEF Underway
    <3>2. i \in Ids /\ id \in Int /\ (i < id \/ i = id => i < id + 1)
      BY <1>0, <1>4 DEF MigrationsTypeOK, Ids
    <3>3. i = id \/ i \in runner[m].applied \/ i < id \/ i \in excused
      BY <1>0 DEF MigrationsInv, UnknownExcused, Underway
    <3>4. QED
      BY <1>2, <1>3, <2>2, <3>1, <3>2, <3>3
  <2>3. QED
    BY <2>1, <2>2
<1>8. UnrecordedExcused'
  BY <1>0, <1>2, <1>3 DEF MigrationsInv, UnrecordedExcused
<1>9. RepeatsExcused'
  BY <1>0, <1>3 DEF MigrationsInv, RepeatsExcused
<1>10. Fresh'
  BY <1>1, <1>2 DEF MigrationsInv, Fresh
<1>11. QED
  BY <1>4, <1>5, <1>6, <1>7, <1>8, <1>9, <1>10 DEF MigrationsInv

\* Processes on any number of machines that overlap, fail and stop leave a record
\* without a gap, with the schema where it says or one migration further, and a
\* migration runs over its own effect only if a process ended before it recorded
\* it, another had read that it is missing, or the read of the ids was cut short
\* (internal/migrations/runner.go:85-133).
THEOREM RecordsFollow == MigrationsSpec => []SchemaFollowsRecord
<1>1. MigrationsInv /\ [MigrationsNext]_migrationVars => MigrationsInv'
  <2> SUFFICES ASSUME MigrationsInv, [MigrationsNext]_migrationVars PROVE MigrationsInv'
    OBVIOUS
  <2>1. CASE UNCHANGED migrationVars
    BY <2>1 DEF migrationVars, MigrationsInv, MigrationsTypeOK, RecordFollowsEffect, Passed,
                UnknownExcused, UnrecordedExcused, RepeatsExcused, Underway, Fresh
  <2>2. QED
    BY <2>1, StartKeeps, ReadKeeps, SkipKeeps, EndKeeps, RunKeeps, RecordKeeps
    DEF MigrationsNext
<1>2. MigrationsInv => SchemaFollowsRecord
  BY DEF MigrationsInv, SchemaFollowsRecord
<1>3. QED
  BY <1>1, <1>2, MigrationsStart, PTL DEF MigrationsSpec
=============================================================================
