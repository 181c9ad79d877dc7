------------------------ MODULE StatementImportProofs ------------------------
(***************************************************************************)
(* Proofs about how transactions come in and are shown: StatementImport,   *)
(* for any number of imports, statements, planned payments and bank        *)
(* transactions; Listing, for any rows and limits; and StatementFiles, for *)
(* any days, amounts and number of movements.                              *)
(*                                                                         *)
(* The last section is about MCParts, where they and the small parts that  *)
(* share nothing stand side by side: each small part keeps its types,      *)
(* whatever sizes they are given.                                          *)
(***************************************************************************)
EXTENDS StatementImport, MCParts, FiniteSetTheorems, SequenceTheorems,
        WellFoundedInduction, TLAPS

LEMMA InFacts ==
  ASSUME NEW s \in Seq(Bank)
  PROVE  /\ In(s) \subseteq Bank
         /\ \A f \in Bank : /\ Append(s, f) \in Seq(Bank)
                            /\ In(Append(s, f)) = In(s) \union {f}
         /\ s # <<>> => /\ Head(s) \in In(s)
                        /\ Tail(s) \in Seq(Bank)
                        /\ In(s) = {Head(s)} \union In(Tail(s))
<1>1. In(s) \subseteq Bank
  BY DEF In
<1>2. ASSUME NEW f \in Bank
      PROVE  Append(s, f) \in Seq(Bank) /\ In(Append(s, f)) = In(s) \union {f}
  <2>1. Append(s, f) \in Seq(Bank) /\ DOMAIN Append(s, f) = 1 .. (Len(s) + 1)
        /\ DOMAIN s = 1 .. Len(s) /\ Len(s) \in Nat
    OBVIOUS
  <2>2. \A k \in 1 .. Len(s) : Append(s, f)[k] = s[k]
    OBVIOUS
  <2>3. Append(s, f)[Len(s) + 1] = f
    OBVIOUS
  <2>4. In(Append(s, f)) \subseteq In(s) \union {f}
    <3>1. ASSUME NEW k \in 1 .. (Len(s) + 1)
          PROVE  Append(s, f)[k] \in In(s) \union {f}
      <4>1. CASE k = Len(s) + 1
        BY <4>1, <2>3
      <4>2. CASE k # Len(s) + 1
        <5>1. k \in 1 .. Len(s)
          BY <2>1, <4>2
        <5>2. QED
          BY <5>1, <2>1, <2>2 DEF In
      <4>3. QED
        BY <4>1, <4>2
    <3>2. QED
      BY <3>1, <2>1 DEF In
  <2>5. In(s) \subseteq In(Append(s, f))
    <3>1. \A k \in 1 .. Len(s) : k \in 1 .. (Len(s) + 1)
      BY <2>1
    <3>2. QED
      BY <3>1, <2>1, <2>2 DEF In
  <2>6. f \in In(Append(s, f))
    <3>1. Len(s) + 1 \in 1 .. (Len(s) + 1)
      BY <2>1
    <3>2. QED
      BY <3>1, <2>1, <2>3 DEF In
  <2>7. QED
    BY <2>1, <2>4, <2>5, <2>6
<1>3. ASSUME s # <<>>
      PROVE  Head(s) \in In(s) /\ Tail(s) \in Seq(Bank)
             /\ In(s) = {Head(s)} \union In(Tail(s))
  <2>1. Tail(s) \in Seq(Bank) /\ Len(s) \in Nat /\ Len(s) >= 1
        /\ DOMAIN s = 1 .. Len(s) /\ DOMAIN Tail(s) = 1 .. (Len(s) - 1)
    BY <1>3
  <2>2. Head(s) = s[1] /\ 1 \in DOMAIN s
    BY <1>3, <2>1
  <2>3. \A k \in 1 .. (Len(s) - 1) : Tail(s)[k] = s[k + 1]
    BY <1>3
  <2>4. Head(s) \in In(s)
    BY <2>2 DEF In
  <2>5. In(Tail(s)) \subseteq In(s)
    <3>1. \A k \in 1 .. (Len(s) - 1) : k + 1 \in 1 .. Len(s)
      BY <2>1
    <3>2. QED
      BY <3>1, <2>1, <2>3 DEF In
  <2>6. In(s) \subseteq {Head(s)} \union In(Tail(s))
    <3>1. ASSUME NEW k \in 1 .. Len(s)
          PROVE  s[k] \in {Head(s)} \union In(Tail(s))
      <4>1. CASE k = 1
        BY <4>1, <2>2
      <4>2. CASE k # 1
        <5>1. k - 1 \in 1 .. (Len(s) - 1) /\ (k - 1) + 1 = k
          BY <2>1, <4>2
        <5>2. Tail(s)[k - 1] = s[k]
          BY <5>1, <2>3
        <5>3. QED
          BY <5>1, <5>2, <2>1 DEF In
      <4>3. QED
        BY <4>1, <4>2
    <3>2. QED
      BY <3>1, <2>1 DEF In
  <2>7. QED
    BY <2>1, <2>4, <2>5, <2>6
<1>4. QED
  BY <1>1, <1>2, <1>3

LEMMA InEmpty == In(<<>>) = {} /\ <<>> \in Seq(Bank)
<1>1. <<>> \in Seq(Bank) /\ DOMAIN <<>> = 1 .. 0
  BY SMT
<1>2. \A k \in 1 .. 0 : FALSE
  BY SMT
<1>3. QED
  BY <1>1, <1>2 DEF In

-----------------------------------------------------------------------------
(* Types.                                                                  *)

\* The parts of TypeOK about one row and about one request.
PlanOK(p) ==
  /\ plan[p] \in Plan
  /\ plan[p].status # "RECONCILED" => plan[p].key = NoKey
  /\ plan[p].status = "RECONCILED" => plan[p].key \in plan[p].fits /\ ~Taken(plan[p].key, p)

MatchOK(r) ==
  req[r].match # NoPlan =>
    /\ Running(r) /\ req[r].rest # <<>>
    /\ Head(req[r].rest) \in plan[req[r].match].fits
    /\ plan[req[r].match].status # "none"

LEMMA TypeParts ==
  TypeOK <=> /\ plan \in [Plans -> Plan] /\ req \in [Imports -> Request]
             /\ posted \subseteq Bank /\ met \subseteq Imports \X Imports
             /\ missed \subseteq Bank /\ dropped \subseteq Bank /\ removed \subseteq Bank
             /\ \A p \in Plans : PlanOK(p)
             /\ \A r \in Imports : MatchOK(r)
  BY DEF TypeOK, PlanOK, MatchOK

LEMMA TypeInit == Init => TypeOK
<1> SUFFICES ASSUME Init PROVE TypeOK
  OBVIOUS
<1>1. plan \in [Plans -> Plan] /\ req \in [Imports -> Request]
  BY InEmpty DEF Init, Plan, Request, Pending
<1>2. posted \subseteq Bank /\ met \subseteq Imports \X Imports
      /\ missed \subseteq Bank /\ dropped \subseteq Bank /\ removed \subseteq Bank
  BY DEF Init
<1>3. \A p \in Plans : PlanOK(p)
  BY <1>1 DEF Init, PlanOK
<1>4. \A r \in Imports : MatchOK(r)
  BY DEF Init, MatchOK
<1>5. QED
  BY <1>1, <1>2, <1>3, <1>4, TypeParts

\* The head of what is to go, of a request whose list is not empty.
LEMMA HeadOK ==
  ASSUME TypeOK, NEW r \in Imports
  PROVE  /\ req[r].rest # <<>> => /\ Head(req[r].rest) \in Bank
                                  /\ Tail(req[r].rest) \in Seq(Bank)
         /\ req[r].queue # <<>> => /\ Head(req[r].queue) \in Bank
                                   /\ Tail(req[r].queue) \in Seq(Bank)
<1>1. req[r].rest \in Seq(Bank) /\ req[r].queue \in Seq(Bank)
  BY DEF TypeOK, Request
<1>2. QED
  BY <1>1, InFacts

\* What a request without a match becomes, while rows keep what they fit.
LEMMA RequestStep ==
  ASSUME TypeOK, NEW r \in Imports, NEW new \in Request, new.match = NoPlan,
         req' = [req EXCEPT ![r] = new],
         \A p \in Plans : /\ plan'[p].fits = plan[p].fits
                          /\ plan[p].status # "none" => plan'[p].status # "none"
  PROVE  /\ req' \in [Imports -> Request]
         /\ \A i \in Imports : MatchOK(i)'
         /\ req'[r] = new
         /\ \A i \in Imports : i # r => req'[i] = req[i]
<1>1. req \in [Imports -> Request] /\ plan \in [Plans -> Plan]
  BY DEF TypeOK
<1>2. req' \in [Imports -> Request] /\ req'[r] = new
      /\ \A i \in Imports : i # r => req'[i] = req[i]
  BY <1>1
<1>3. ASSUME NEW i \in Imports PROVE MatchOK(i)'
  <2>1. CASE i = r
    BY <2>1, <1>2 DEF MatchOK
  <2>2. CASE i # r
    <3>1. MatchOK(i) /\ req'[i] = req[i]
      BY <2>2, <1>2, TypeParts
    <3>2. CASE req[i].match # NoPlan
      <4>1. req[i].match \in Plans
        BY <3>2, <1>1 DEF Request
      <4>2. QED
        BY <3>1, <4>1 DEF MatchOK, Running
    <3>3. CASE req[i].match = NoPlan
      BY <3>1, <3>3 DEF MatchOK
    <3>4. QED
      BY <3>2, <3>3
  <2>3. QED
    BY <2>1, <2>2
<1>4. QED
  BY <1>2, <1>3

\* What the updates of one request come to.
LEMMA EnqueueStep ==
  ASSUME TypeOK, NEW r \in Imports, Searching(r), Enqueue(r)
  PROVE  \E new \in Request :
           /\ req' = [req EXCEPT ![r] = new]
           /\ new.at = "running" /\ new.file = req[r].file /\ new.match = NoPlan
           /\ new.rest = Tail(req[r].rest)
           /\ new.queue = Append(req[r].queue, Head(req[r].rest))
<1> DEFINE new == [req[r] EXCEPT !.queue = Append(@, Head(req[r].rest)), !.rest = Tail(@)]
<1>1. req \in [Imports -> Request] /\ req[r] \in Request
  BY DEF TypeOK
<1>2. Head(req[r].rest) \in Bank /\ Tail(req[r].rest) \in Seq(Bank)
  BY HeadOK DEF Searching
<1>3. Append(req[r].queue, Head(req[r].rest)) \in Seq(Bank)
  BY <1>1, <1>2, InFacts DEF Request
<1>4. new \in Request
  BY <1>1, <1>2, <1>3 DEF Request
<1>5. req' = [req EXCEPT ![r] = new]
  BY <1>1 DEF Enqueue
<1>6. new.at = "running" /\ new.file = req[r].file /\ new.match = NoPlan
      /\ new.rest = Tail(req[r].rest)
      /\ new.queue = Append(req[r].queue, Head(req[r].rest))
  BY <1>1 DEF Searching, Running, Request
<1>7. QED
  BY <1>4, <1>5, <1>6

LEMMA AdvanceStep ==
  ASSUME TypeOK, NEW r \in Imports, Running(r), req[r].match # NoPlan, Advance(r)
  PROVE  \E new \in Request :
           /\ req' = [req EXCEPT ![r] = new]
           /\ new.at = "running" /\ new.file = req[r].file /\ new.match = NoPlan
           /\ new.rest = Tail(req[r].rest) /\ new.queue = req[r].queue
<1> DEFINE new == [req[r] EXCEPT !.rest = Tail(@), !.match = NoPlan]
<1>1. req \in [Imports -> Request] /\ req[r] \in Request /\ req[r].rest # <<>>
  BY DEF TypeOK
<1>2. Tail(req[r].rest) \in Seq(Bank)
  BY <1>1, HeadOK
<1>3. new \in Request
  BY <1>1, <1>2 DEF Request
<1>4. req' = [req EXCEPT ![r] = new]
  BY <1>1 DEF Advance
<1>5. new.at = "running" /\ new.file = req[r].file /\ new.match = NoPlan
      /\ new.rest = Tail(req[r].rest) /\ new.queue = req[r].queue
  BY <1>1 DEF Running, Request
<1>6. QED
  BY <1>3, <1>4, <1>5

LEMMA FailStep ==
  ASSUME TypeOK, NEW r \in Imports, Fail(r)
  PROVE  \E new \in Request :
           /\ req' = [req EXCEPT ![r] = new]
           /\ new.at = "failed" /\ new.file = req[r].file /\ new.match = NoPlan
           /\ new.rest = <<>> /\ new.queue = <<>>
<1> DEFINE new == [req[r] EXCEPT !.at = "failed", !.rest = <<>>, !.match = NoPlan,
                                 !.queue = <<>>]
<1>1. req \in [Imports -> Request] /\ req[r] \in Request
  BY DEF TypeOK
<1>2. new \in Request
  BY <1>1, InEmpty DEF Request
<1>3. req' = [req EXCEPT ![r] = new]
  BY <1>1 DEF Fail
<1>4. new.at = "failed" /\ new.file = req[r].file /\ new.match = NoPlan
      /\ new.rest = <<>> /\ new.queue = <<>>
  BY <1>1 DEF Request
<1>5. QED
  BY <1>2, <1>3, <1>4

LEMMA UpsertStep ==
  ASSUME TypeOK, NEW r \in Imports, Upsert(r)
  PROVE  \E new \in Request :
           /\ req' = [req EXCEPT ![r] = new]
           /\ new.at = "running" /\ new.file = req[r].file /\ new.match = NoPlan
           /\ new.rest = <<>> /\ new.queue = Tail(req[r].queue)
<1> DEFINE new == [req[r] EXCEPT !.queue = Tail(@)]
<1>1. req \in [Imports -> Request] /\ req[r] \in Request
  BY DEF TypeOK
<1>2. Tail(req[r].queue) \in Seq(Bank) /\ req[r].rest = <<>> /\ Running(r)
  BY HeadOK DEF Upsert, Saving
<1>3. req[r].match = NoPlan
  BY <1>2 DEF TypeOK
<1>4. new \in Request
  BY <1>1, <1>2 DEF Request
<1>5. req' = [req EXCEPT ![r] = new]
  BY <1>1 DEF Upsert
<1>6. new.at = "running" /\ new.file = req[r].file /\ new.match = NoPlan
      /\ new.rest = <<>> /\ new.queue = Tail(req[r].queue)
  BY <1>1, <1>2, <1>3 DEF Request, Running
<1>7. QED
  BY <1>4, <1>5, <1>6

LEMMA ReplyStep ==
  ASSUME TypeOK, NEW r \in Imports, Reply(r)
  PROVE  \E new \in Request :
           /\ req' = [req EXCEPT ![r] = new]
           /\ new.at = "ok" /\ new.file = req[r].file /\ new.match = NoPlan
           /\ new.rest = <<>> /\ new.queue = <<>>
<1> DEFINE new == [req[r] EXCEPT !.at = "ok"]
<1>1. req \in [Imports -> Request] /\ req[r] \in Request
  BY DEF TypeOK
<1>2. req[r].match = NoPlan
  BY DEF TypeOK, Reply
<1>3. new \in Request
  BY <1>1 DEF Request
<1>4. req' = [req EXCEPT ![r] = new]
  BY <1>1 DEF Reply
<1>5. new.at = "ok" /\ new.file = req[r].file /\ new.match = NoPlan
      /\ new.rest = <<>> /\ new.queue = <<>>
  BY <1>1, <1>2 DEF Request, Reply
<1>6. QED
  BY <1>3, <1>4, <1>5

LEMMA StartStep ==
  ASSUME TypeOK, NEW r \in Imports, NEW file \in Files, Start(r, file)
  PROVE  \E new \in Request :
           /\ req' = [req EXCEPT ![r] = new]
           /\ new.at = "running" /\ new.file = file /\ new.match = NoPlan
           /\ new.rest = file /\ new.queue = req[r].queue
<1> DEFINE new == [req[r] EXCEPT !.at = "running", !.file = file, !.rest = file]
<1>1. req \in [Imports -> Request] /\ req[r] \in Request
  BY DEF TypeOK
<1>2. file \in Seq(Bank)
  BY ConstantsAssumption
<1>3. req[r].match = NoPlan
  BY DEF TypeOK, Start, Running
<1>4. new \in Request
  BY <1>1, <1>2 DEF Request
<1>5. req' = [req EXCEPT ![r] = new]
  BY <1>1 DEF Start
<1>6. new.at = "running" /\ new.file = file /\ new.match = NoPlan
      /\ new.rest = file /\ new.queue = req[r].queue
  BY <1>1, <1>3 DEF Request
<1>7. QED
  BY <1>4, <1>5, <1>6

\* Reconcile gives a FITID that no other row has to a row that it fits.
LEMMA ReconcileRows ==
  ASSUME TypeOK, NEW r \in Imports, Reconcile(r)
  PROVE  /\ plan' \in [Plans -> Plan]
         /\ \A p \in Plans : /\ plan'[p].fits = plan[p].fits
                             /\ plan[p].status # "none" => plan'[p].status # "none"
                             /\ PlanOK(p)'
<1>a. PICK m : m = req[r].match
  OBVIOUS
<1>b. PICK f : f = Head(req[r].rest)
  OBVIOUS
<1>1. plan \in [Plans -> Plan] /\ m \in Plans /\ req[r].rest # <<>> /\ f \in plan[m].fits
      /\ plan[m].status # "none"
  BY <1>a, <1>b DEF TypeOK, Reconcile, Request
<1>2. f \in Bank /\ f # NoKey
  BY <1>1, <1>b, HeadOK, ConstantsAssumption
<1>3. posted' = posted /\ \A p \in Plans : PlanOK(p)
  BY TypeParts DEF Reconcile
<1>4. CASE plan[m].status = "deleted" \/ Taken(f, m)
  <2>1. plan' = plan
    BY <1>4, <1>a, <1>b DEF Reconcile
  <2>2. QED
    BY <1>1, <1>3, <2>1 DEF PlanOK, Taken
<1>5. CASE ~(plan[m].status = "deleted" \/ Taken(f, m))
  <2>1. plan' = [plan EXCEPT ![m].key = f, ![m].status = "RECONCILED"]
    BY <1>5, <1>a, <1>b DEF Reconcile
  <2>2. /\ plan' \in [Plans -> Plan]
        /\ plan'[m].key = f /\ plan'[m].status = "RECONCILED" /\ plan'[m].fits = plan[m].fits
        /\ \A p \in Plans : p # m => plan'[p] = plan[p]
    BY <1>1, <1>2, <2>1 DEF Plan
  <2>3. f \notin posted /\ \A q \in Plans \ {m} : plan[q].key # f
    BY <1>5 DEF Taken
  <2>4. PlanOK(m)'
    BY <1>1, <1>3, <2>2, <2>3 DEF PlanOK, Taken
  <2>5. ASSUME NEW p \in Plans, p # m PROVE PlanOK(p)'
    <3>1. PlanOK(p) /\ plan'[p] = plan[p] /\ plan[p].key # f
      BY <1>3, <2>2, <2>3, <2>5
    <3>2. ASSUME ~Taken(plan[p].key, p) PROVE ~Taken(plan[p].key, p)'
      BY <1>1, <1>3, <2>2, <3>1, <3>2 DEF Taken
    <3>3. QED
      BY <2>2, <3>1, <3>2 DEF PlanOK, Taken
  <2>6. QED
    BY <2>2, <2>4, <2>5
<1>6. QED
  BY <1>4, <1>5

\* An insertion only of a FITID that no row has.
LEMMA InsertRows ==
  ASSUME TypeOK, NEW f \in Bank, UNCHANGED plan,
         posted' \in {posted, IF Taken(f, NoPlan) THEN posted ELSE posted \union {f}}
  PROVE  posted' \subseteq Bank /\ \A p \in Plans : PlanOK(p)'
<1>1. posted \subseteq Bank /\ \A p \in Plans : PlanOK(p)
  BY TypeParts
<1>2. CASE posted' = posted
  BY <1>1, <1>2 DEF PlanOK, Taken
<1>3. CASE posted' # posted
  <2>1. posted' = posted \union {f} /\ ~Taken(f, NoPlan)
    BY <1>3
  <2>2. \A p \in Plans : plan[p].key # f
    BY <2>1, ConstantsAssumption DEF Taken
  <2>3. QED
    BY <1>1, <2>1, <2>2 DEF PlanOK, Taken
<1>4. QED
  BY <1>2, <1>3

\* A request's step keeps the types.
LEMMA TypeImport ==
  ASSUME TypeOK, NEW r \in Imports, Step(r)
  PROVE  TypeOK'
<1>1. /\ plan \in [Plans -> Plan] /\ req \in [Imports -> Request] /\ posted \subseteq Bank
      /\ met \subseteq Imports \X Imports
      /\ missed \subseteq Bank /\ dropped \subseteq Bank /\ removed \subseteq Bank
      /\ \A p \in Plans : PlanOK(p)
      /\ \A i \in Imports : MatchOK(i)
  BY TypeParts
<1>2. UNCHANGED <<plan, posted>> => plan' \in [Plans -> Plan] /\ posted' \subseteq Bank
                                   /\ \A p \in Plans : PlanOK(p)'
  BY <1>1 DEF PlanOK, Taken
<1>3. ASSUME NEW file \in Files, Start(r, file) PROVE TypeOK'
  <2>1. UNCHANGED <<plan, posted, missed, dropped, removed>>
        /\ met' \subseteq Imports \X Imports
    BY <1>1, <1>3 DEF Start
  <2>2. req' \in [Imports -> Request] /\ \A i \in Imports : MatchOK(i)'
    BY <1>3, <2>1, StartStep, RequestStep
  <2>3. QED
    BY <1>1, <1>2, <2>1, <2>2 DEF TypeOK, PlanOK, MatchOK
<1>4. CASE Match(r)
  <2>1. PICK p \in Matches(Head(req[r].rest)) : req' = [req EXCEPT ![r].match = p]
    BY <1>4 DEF Match
  <2>2. UNCHANGED <<plan, posted, met, missed, dropped, removed>>
    BY <1>4 DEF Match, history
  <2>3. p \in Plans /\ plan[p].status \in Pending /\ Head(req[r].rest) \in plan[p].fits
        /\ p # NoPlan
    BY <2>1, ConstantsAssumption DEF Matches
  <2>4. /\ req' \in [Imports -> Request] /\ \A i \in Imports \ {r} : req'[i] = req[i]
        /\ req'[r].match = p /\ req'[r].rest = req[r].rest /\ req'[r].at = req[r].at
    BY <1>1, <2>1, <2>3 DEF Request
  <2>5. MatchOK(r)'
    BY <1>4, <2>2, <2>3, <2>4 DEF MatchOK, Match, Searching, Running, Pending
  <2>6. \A i \in Imports \ {r} : MatchOK(i)'
    BY <1>1, <2>2, <2>4 DEF MatchOK, Running
  <2>7. QED
    BY <1>1, <1>2, <2>2, <2>4, <2>5, <2>6 DEF TypeOK, PlanOK, MatchOK
<1>5. CASE NoMatch(r) \/ MatchFails(r)
  <2>1. UNCHANGED <<plan, posted, met, dropped, removed>> /\ Searching(r) /\ Enqueue(r)
    BY <1>5 DEF NoMatch, MatchFails, history
  <2>2. missed' \subseteq Bank
    BY <1>1, <1>5, HeadOK DEF NoMatch, MatchFails, history, Searching
  <2>3. req' \in [Imports -> Request] /\ \A i \in Imports : MatchOK(i)'
    BY <2>1, EnqueueStep, RequestStep
  <2>4. QED
    BY <1>1, <1>2, <2>1, <2>2, <2>3 DEF TypeOK, PlanOK, MatchOK
<1>6. CASE Reconcile(r)
  <2>1. UNCHANGED <<posted, met, missed, dropped, removed>> /\ Advance(r)
        /\ Running(r) /\ req[r].match # NoPlan
    BY <1>6 DEF Reconcile, history
  <2>2. plan' \in [Plans -> Plan] /\ \A p \in Plans : PlanOK(p)'
    BY <1>6, ReconcileRows
  <2>3. req' \in [Imports -> Request] /\ \A i \in Imports : MatchOK(i)'
    BY <1>6, <2>1, AdvanceStep, RequestStep, ReconcileRows
  <2>4. QED
    BY <1>1, <2>1, <2>2, <2>3 DEF TypeOK, PlanOK, MatchOK
<1>7. CASE ReconcileFails(r)
  <2>1. UNCHANGED <<plan, posted, met, missed, removed>> /\ Advance(r)
        /\ Running(r) /\ req[r].match # NoPlan
    BY <1>7 DEF ReconcileFails
  <2>2. dropped' \subseteq Bank
    BY <1>1, <1>7, <2>1, HeadOK DEF ReconcileFails, MatchOK
  <2>3. req' \in [Imports -> Request] /\ \A i \in Imports : MatchOK(i)'
    BY <2>1, AdvanceStep, RequestStep
  <2>4. QED
    BY <1>1, <1>2, <2>1, <2>2, <2>3 DEF TypeOK, PlanOK, MatchOK
<1>8. CASE Upsert(r) \/ UpsertFails(r)
  <2>1. UNCHANGED <<plan, met, missed, dropped, removed>> /\ Saving(r)
    BY <1>8 DEF Upsert, UpsertFails, history
  <2>2. Head(req[r].queue) \in Bank
    BY <2>1, HeadOK DEF Saving
  <2>3. posted' \subseteq Bank /\ \A p \in Plans : PlanOK(p)'
    BY <1>8, <2>1, <2>2, InsertRows DEF Upsert, UpsertFails
  <2>4. CASE Upsert(r)
    BY <1>1, <2>1, <2>3, <2>4, UpsertStep, RequestStep, TypeParts DEF TypeOK, PlanOK, MatchOK
  <2>5. CASE UpsertFails(r)
    BY <1>1, <2>1, <2>3, <2>5, FailStep, RequestStep DEF UpsertFails, TypeOK, PlanOK, MatchOK
  <2>6. QED
    BY <1>8, <2>4, <2>5
<1>9. CASE Reply(r) \/ Crash(r)
  <2>1. UNCHANGED <<plan, posted, met, missed, dropped, removed>>
    BY <1>9 DEF Reply, Crash, history
  <2>2. req' \in [Imports -> Request] /\ \A i \in Imports : MatchOK(i)'
    BY <1>9, <2>1, ReplyStep, FailStep, RequestStep DEF Crash
  <2>3. QED
    BY <1>1, <1>2, <2>1, <2>2 DEF TypeOK, PlanOK, MatchOK
<1>10. QED
  BY <1>3, <1>4, <1>5, <1>6, <1>7, <1>8, <1>9 DEF Step

\* A user's step keeps the types.
LEMMA TypeUser ==
  ASSUME TypeOK,
         \/ \E p \in Plans : CreatePlan(p) \/ DeletePlan(p)
         \/ \E f \in Bank : DeletePosted(f)
  PROVE  TypeOK'
<1>1. /\ plan \in [Plans -> Plan] /\ req \in [Imports -> Request] /\ posted \subseteq Bank
      /\ met \subseteq Imports \X Imports
      /\ missed \subseteq Bank /\ dropped \subseteq Bank /\ removed \subseteq Bank
      /\ \A p \in Plans : PlanOK(p)
      /\ \A i \in Imports : MatchOK(i)
  BY TypeParts
<1>2. ASSUME NEW p \in Plans, CreatePlan(p) PROVE TypeOK'
  <2>1. PICK status \in Pending, fits \in (SUBSET Bank) \ {{}} :
          plan' = [plan EXCEPT ![p] = [status |-> status, key |-> NoKey, fits |-> fits,
                                       late |-> fits \intersect Underway]]
    BY <1>2 DEF CreatePlan
  <2>2. UNCHANGED <<posted, req, met, missed, dropped, removed>> /\ plan[p].status = "none"
    BY <1>2 DEF CreatePlan, history
  <2>3. /\ plan' \in [Plans -> Plan] /\ \A q \in Plans \ {p} : plan'[q] = plan[q]
        /\ plan'[p].key = NoKey /\ plan'[p].status \in Pending
    BY <1>1, <2>1 DEF Plan
  <2>4. PlanOK(p)'
    BY <2>3 DEF PlanOK, Pending
  <2>5. \A q \in Plans : plan'[q].key = plan[q].key
    BY <1>1, <2>2, <2>3 DEF PlanOK
  <2>6. \A q \in Plans \ {p} : PlanOK(q)'
    BY <1>1, <2>2, <2>3, <2>5 DEF PlanOK, Taken
  <2>7. ASSUME NEW i \in Imports PROVE MatchOK(i)'
    <3>1. CASE req[i].match = NoPlan
      BY <2>2, <3>1 DEF MatchOK
    <3>2. CASE req[i].match # NoPlan
      <4>1. req[i].match \in Plans \ {p}
        BY <1>1, <2>2, <3>2 DEF MatchOK, Request
      <4>2. QED
        BY <1>1, <2>2, <2>3, <4>1 DEF MatchOK, Running
    <3>3. QED
      BY <3>1, <3>2
  <2>8. QED
    BY <1>1, <2>2, <2>3, <2>4, <2>6, <2>7 DEF TypeOK, PlanOK, MatchOK
<1>3. ASSUME NEW p \in Plans, DeletePlan(p) PROVE TypeOK'
  <2>1. UNCHANGED <<posted, req, met, missed, dropped>>
        /\ removed' = removed \union plan[p].fits
    BY <1>3 DEF DeletePlan
  <2>2. removed' \subseteq Bank
    BY <1>1, <2>1 DEF Plan
  <2>3. /\ plan' \in [Plans -> Plan] /\ \A q \in Plans \ {p} : plan'[q] = plan[q]
        /\ plan'[p].key = NoKey /\ plan'[p].status = "deleted" /\ plan'[p].fits = plan[p].fits
    BY <1>1, <1>3 DEF DeletePlan, Plan
  <2>4. PlanOK(p)'
    BY <2>3 DEF PlanOK
  <2>5. ASSUME NEW q \in Plans \ {p} PROVE PlanOK(q)'
    <3>1. PlanOK(q) /\ plan'[q] = plan[q]
      BY <1>1, <2>3
    <3>2. ASSUME plan[q].key \in Bank, ~Taken(plan[q].key, q) PROVE ~Taken(plan[q].key, q)'
      BY <2>1, <2>3, <3>1, <3>2, ConstantsAssumption DEF Taken
    <3>3. plan[q].fits \subseteq Bank
      BY <1>1 DEF Plan
    <3>4. QED
      BY <3>1, <3>2, <3>3, <2>1 DEF PlanOK, Taken
  <2>6. \A i \in Imports : MatchOK(i)'
    <3>1. \A q \in Plans : /\ plan'[q].fits = plan[q].fits
                           /\ plan[q].status # "none" => plan'[q].status # "none"
      BY <2>3
    <3>2. \A i \in Imports : req[i].match # NoPlan => req[i].match \in Plans
      BY <1>1 DEF Request
    <3>3. ASSUME NEW i \in Imports PROVE MatchOK(i)'
      <4>1. MatchOK(i) /\ req' = req
        BY <1>1, <2>1
      <4>2. CASE req[i].match = NoPlan
        BY <4>1, <4>2 DEF MatchOK
      <4>3. CASE req[i].match # NoPlan
        <5>1. PICK q : q = req[i].match
          OBVIOUS
        <5>2. q \in Plans /\ Running(i) /\ req[i].rest # <<>>
              /\ Head(req[i].rest) \in plan[q].fits /\ plan[q].status # "none"
          BY <3>2, <4>1, <4>3, <5>1 DEF MatchOK
        <5>3. plan'[q].fits = plan[q].fits /\ plan'[q].status # "none"
          BY <3>1, <5>2
        <5>4. QED
          BY <4>1, <5>1, <5>2, <5>3 DEF MatchOK, Running
      <4>4. QED
        BY <4>2, <4>3
    <3>4. QED
      BY <3>3
  <2>7. QED
    BY <1>1, <2>1, <2>2, <2>3, <2>4, <2>5, <2>6 DEF TypeOK, PlanOK, MatchOK
<1>4. ASSUME NEW f \in Bank, DeletePosted(f) PROVE TypeOK'
  <2>1. UNCHANGED <<plan, req, met, missed, dropped>> /\ posted' = posted \ {f}
        /\ removed' = removed \union {f}
    BY <1>4 DEF DeletePosted
  <2>2. \A p \in Plans : PlanOK(p)'
    BY <1>1, <2>1 DEF PlanOK, Taken
  <2>3. \A i \in Imports : MatchOK(i)'
    BY <1>1, <2>1 DEF MatchOK, Running
  <2>4. QED
    BY <1>1, <2>1, <2>2, <2>3 DEF TypeOK, PlanOK, MatchOK
<1>5. QED
  BY <1>2, <1>3, <1>4

LEMMA TypeNext == TypeOK /\ [Next]_vars => TypeOK'
<1> SUFFICES ASSUME TypeOK, [Next]_vars PROVE TypeOK'
  OBVIOUS
<1>1. CASE UNCHANGED vars
  BY <1>1 DEF vars, TypeOK, Taken, Running
<1>2. QED
  BY <1>1, TypeImport, TypeUser DEF Next

\* Rows, requests and history stay well typed, no two rows ever have one FITID,
\* and a match is always one of the transaction it was found for.
THEOREM TypeCorrect == Spec => []TypeOK
  BY TypeInit, TypeNext, PTL DEF Spec

-----------------------------------------------------------------------------
(* What a request has in hand.                                             *)

ListsOf(r) ==
  /\ In(req[r].rest) \subseteq In(req[r].file)
  /\ req[r].at = "idle" => req[r].file = <<>> /\ req[r].queue = <<>>
  /\ req[r].at = "ok" => req[r].rest = <<>> /\ req[r].queue = <<>>

\* A request has to go what is in its file, and nothing before it starts or
\* after it replied.
Lists == \A r \in Imports : ListsOf(r)

LEMMA ListsInit == Init => Lists
  BY InEmpty DEF Init, Lists, ListsOf

\* Every step of a request is one of these.
LEMMA Moves ==
  ASSUME TypeOK, Lists, NEW r \in Imports, Step(r)
  PROVE  \E new \in Request :
           /\ req' = [req EXCEPT ![r] = new]
           /\ \/ \E file \in Files : /\ Start(r, file) /\ new.at = "running"
                                     /\ new.file = file /\ new.rest = file
                                     /\ new.queue = <<>> /\ new.match = NoPlan
              \/ /\ Match(r) /\ new.at = "running" /\ new.file = req[r].file
                 /\ new.rest = req[r].rest /\ new.queue = req[r].queue
                 /\ new.match \in Matches(Head(req[r].rest))
              \/ /\ NoMatch(r) \/ MatchFails(r)
                 /\ new.at = "running" /\ new.file = req[r].file
                 /\ new.rest = Tail(req[r].rest) /\ new.match = NoPlan
                 /\ new.queue = Append(req[r].queue, Head(req[r].rest))
              \/ /\ Reconcile(r) \/ ReconcileFails(r)
                 /\ new.at = "running" /\ new.file = req[r].file
                 /\ new.rest = Tail(req[r].rest) /\ new.match = NoPlan
                 /\ new.queue = req[r].queue
              \/ /\ Upsert(r) /\ new.at = "running" /\ new.file = req[r].file
                 /\ new.rest = <<>> /\ new.queue = Tail(req[r].queue)
                 /\ new.match = NoPlan
              \/ /\ UpsertFails(r) \/ Crash(r)
                 /\ new.at = "failed" /\ new.file = req[r].file
                 /\ new.rest = <<>> /\ new.queue = <<>> /\ new.match = NoPlan
              \/ /\ Reply(r) /\ new.at = "ok" /\ new.file = req[r].file
                 /\ new.rest = <<>> /\ new.queue = <<>> /\ new.match = NoPlan
<1>1. ASSUME NEW file \in Files, Start(r, file)
      PROVE  \E new \in Request :
               /\ req' = [req EXCEPT ![r] = new] /\ new.at = "running"
               /\ new.file = file /\ new.rest = file
               /\ new.queue = <<>> /\ new.match = NoPlan
  <2>1. req[r].queue = <<>>
    BY <1>1 DEF Lists, ListsOf, Start
  <2>2. QED
    BY <1>1, <2>1, StartStep
<1>2. ASSUME Match(r)
      PROVE  \E new \in Request :
               /\ req' = [req EXCEPT ![r] = new] /\ new.at = "running"
               /\ new.file = req[r].file /\ new.rest = req[r].rest
               /\ new.queue = req[r].queue /\ new.match \in Matches(Head(req[r].rest))
  <2>1. PICK p \in Matches(Head(req[r].rest)) : req' = [req EXCEPT ![r].match = p]
    BY <1>2 DEF Match
  <2>2. req[r] \in Request /\ p \in Plans /\ req[r].at = "running"
    BY <1>2 DEF TypeOK, Matches, Match, Searching, Running
  <2>3. [req[r] EXCEPT !.match = p] \in Request
    BY <2>2 DEF Request
  <2>4. QED
    BY <2>1, <2>2, <2>3 DEF Request
<1>3. CASE NoMatch(r) \/ MatchFails(r)
  BY <1>3, EnqueueStep DEF NoMatch, MatchFails
<1>4. CASE Reconcile(r) \/ ReconcileFails(r)
  BY <1>4, AdvanceStep DEF Reconcile, ReconcileFails
<1>5. CASE UpsertFails(r) \/ Crash(r)
  BY <1>5, FailStep DEF UpsertFails, Crash
<1>6. QED
  BY <1>1, <1>2, <1>3, <1>4, <1>5, UpsertStep, ReplyStep DEF Step

LEMMA ListsNext == TypeOK /\ Lists /\ [Next]_vars => Lists'
<1> SUFFICES ASSUME TypeOK, Lists, [Next]_vars PROVE Lists'
  OBVIOUS
<1>1. ASSUME UNCHANGED req PROVE Lists'
  BY <1>1 DEF Lists, ListsOf
<1>2. ASSUME NEW r \in Imports, Step(r) PROVE Lists'
  <2>1. PICK new \in Request : req' = [req EXCEPT ![r] = new] /\
          \/ new.at = "running" /\ \E file \in Files : new.file = file /\ new.rest = file
          \/ /\ new.at \in {"running", "failed", "ok"} /\ new.file = req[r].file
             /\ \/ new.rest = req[r].rest
                \/ new.rest = <<>>
                \/ req[r].rest # <<>> /\ new.rest = Tail(req[r].rest)
             /\ new.at = "ok" => new.rest = <<>> /\ new.queue = <<>>
    <3>1. NoMatch(r) \/ MatchFails(r) => req[r].rest # <<>>
      BY DEF NoMatch, MatchFails, Searching
    <3>2. Reconcile(r) \/ ReconcileFails(r) => req[r].rest # <<>>
      BY DEF TypeOK, Reconcile, ReconcileFails
    <3>3. QED
      BY <1>2, <3>1, <3>2, Moves
  <2>2. req \in [Imports -> Request] /\ req[r] \in Request /\ req[r].rest \in Seq(Bank)
    BY DEF TypeOK, Request
  <2>3. req'[r] = new /\ \A i \in Imports \ {r} : req'[i] = req[i]
    BY <2>1, <2>2
  <2>4. In(new.rest) \subseteq In(new.file)
    BY <2>1, <2>2, InFacts, InEmpty DEF Lists, ListsOf
  <2>5. ListsOf(r)'
    BY <2>1, <2>3, <2>4 DEF ListsOf
  <2>6. \A i \in Imports \ {r} : ListsOf(i)'
    BY <2>3 DEF Lists, ListsOf
  <2>7. QED
    BY <2>5, <2>6 DEF Lists
<1>3. QED
  BY <1>1, <1>2 DEF Next, vars, CreatePlan, DeletePlan, DeletePosted

-----------------------------------------------------------------------------
(* No double entry.                                                        *)

\* NoDoubleEntry, from the moment on that an import has found no match.
NoDoubleUnderway ==
  \A f \in Underway, p \in Plans :
    plan[p].status \in Pending /\ f \in plan[p].fits => f \in plan[p].late \union missed

\* The rows that can still be matched stay as they are, and X is on its way.
LEMMA UnderwayStep ==
  ASSUME NoDoubleUnderway, NEW X,
         Underway' \subseteq Underway \union X,
         missed \subseteq missed',
         \A p \in Plans : plan'[p].status \in Pending =>
            /\ plan[p].status \in Pending
            /\ plan'[p].fits = plan[p].fits /\ plan'[p].late = plan[p].late,
         \A f \in X, p \in Plans :
            plan[p].status \in Pending /\ f \in plan[p].fits => f \in missed'
  PROVE  NoDoubleUnderway'
<1>1. ASSUME NEW f \in Underway', NEW p \in Plans,
             plan'[p].status \in Pending, f \in plan'[p].fits
      PROVE  f \in plan'[p].late \union missed'
  <2>1. plan[p].status \in Pending /\ f \in plan[p].fits /\ plan'[p].late = plan[p].late
    BY <1>1
  <2>2. CASE f \in X
    BY <2>1, <2>2
  <2>3. CASE f \in Underway
    BY <2>1, <2>3 DEF NoDoubleUnderway
  <2>4. QED
    BY <1>1, <2>2, <2>3
<1>2. QED
  BY <1>1 DEF NoDoubleUnderway, Pending

LEMMA UnderwayImport ==
  ASSUME TypeOK, Lists, NoDoubleUnderway, NEW r \in Imports, Step(r)
  PROVE  NoDoubleUnderway'
<1>1. PICK X :
        /\ X = IF NoMatch(r) \/ MatchFails(r) THEN {Head(req[r].rest)} ELSE {}
  OBVIOUS
<1>2. PICK new \in Request :
        /\ req' = [req EXCEPT ![r] = new]
        /\ new.at = "running" => In(new.queue) \subseteq Underway \union X
  <2>1. Running(r) => In(req[r].queue) \subseteq Underway
    BY DEF Underway
  <2>2. req[r] \in Request /\ req[r].queue \in Seq(Bank)
    BY DEF TypeOK, Request
  <2>3. NoMatch(r) \/ MatchFails(r) =>
          Running(r) /\ In(Append(req[r].queue, Head(req[r].rest))) \subseteq Underway \union X
    BY <1>1, <2>1, <2>2, HeadOK, InFacts DEF NoMatch, MatchFails, Searching
  <2>4. Upsert(r) => Running(r) /\ In(Tail(req[r].queue)) \subseteq Underway
    BY <2>1, <2>2, InFacts DEF Upsert, Saving
  <2>5. Reconcile(r) \/ ReconcileFails(r) \/ Match(r) => Running(r)
    BY DEF Reconcile, ReconcileFails, Match, Searching
  <2>6. QED
    BY <2>1, <2>3, <2>4, <2>5, InEmpty, Moves
<1>3. posted' \subseteq Underway
  <2>1. posted \subseteq Underway
    BY DEF Underway
  <2>2. CASE Upsert(r) \/ UpsertFails(r)
    <3>1. Running(r) /\ req[r].queue # <<>> /\ req[r].queue \in Seq(Bank)
      BY <2>2 DEF Upsert, UpsertFails, Saving, TypeOK, Request
    <3>2. Head(req[r].queue) \in Underway
      BY <3>1, InFacts DEF Underway
    <3>3. posted' \subseteq posted \union {Head(req[r].queue)}
      BY <2>2 DEF Upsert, UpsertFails
    <3>4. QED
      BY <2>1, <3>2, <3>3
  <2>3. CASE ~(Upsert(r) \/ UpsertFails(r))
    <3>1. posted' = posted
      BY <2>3 DEF Step, Start, Match, NoMatch, MatchFails, Reconcile, ReconcileFails,
                  Reply, Crash
    <3>2. QED
      BY <2>1, <3>1
  <2>4. QED
    BY <2>2, <2>3
<1>4. Underway' \subseteq Underway \union X
  <2>1. req \in [Imports -> Request]
    BY DEF TypeOK
  <2>2. req'[r] = new /\ \A i \in Imports \ {r} : req'[i] = req[i]
    BY <1>2, <2>1
  <2>3. \A i \in Imports : req'[i].at = "running" => In(req'[i].queue) \subseteq Underway \union X
    BY <1>2, <2>2 DEF Underway, Running
  <2>4. QED
    BY <1>3, <2>3 DEF Underway, Running
<1>5. missed \subseteq missed'
      /\ \A f \in X, p \in Plans :
           plan[p].status \in Pending /\ f \in plan[p].fits => f \in missed'
  <2>1. CASE NoMatch(r)
    BY <1>1, <2>1 DEF NoMatch, Matches, history
  <2>2. CASE MatchFails(r)
    BY <1>1, <2>2 DEF MatchFails
  <2>3. CASE ~(NoMatch(r) \/ MatchFails(r))
    BY <1>1, <2>3 DEF Step, Start, Match, Reconcile, ReconcileFails, Upsert, UpsertFails,
                      Reply, Crash, history
  <2>4. QED
    BY <2>1, <2>2, <2>3
<1>6. \A p \in Plans : plan'[p].status \in Pending =>
        /\ plan[p].status \in Pending
        /\ plan'[p].fits = plan[p].fits /\ plan'[p].late = plan[p].late
  <2>1. CASE Reconcile(r)
    <3>1. PICK m \in Plans : m = req[r].match
      BY <2>1 DEF TypeOK, Reconcile, Request
    <3>2. plan \in [Plans -> Plan]
      BY DEF TypeOK
    <3>3. \A p \in Plans : plan'[p] = plan[p] \/ plan'[p].status = "RECONCILED"
      BY <2>1, <3>1, <3>2 DEF Reconcile, Plan
    <3>4. QED
      BY <3>3 DEF Pending
  <2>2. CASE ~Reconcile(r)
    <3>1. plan' = plan
      BY <2>2 DEF Step, Start, Match, NoMatch, MatchFails, ReconcileFails, Upsert,
                  UpsertFails, Reply, Crash
    <3>2. QED
      BY <3>1
  <2>3. QED
    BY <2>1, <2>2
<1>7. QED
  BY <1>4, <1>5, <1>6, UnderwayStep

LEMMA UnderwayNext == TypeOK /\ Lists /\ NoDoubleUnderway /\ [Next]_vars => NoDoubleUnderway'
<1> SUFFICES ASSUME TypeOK, Lists, NoDoubleUnderway, [Next]_vars PROVE NoDoubleUnderway'
  OBVIOUS
<1>1. plan \in [Plans -> Plan]
  BY DEF TypeOK
<1>2. UNCHANGED <<posted, req>> => Underway' = Underway
  BY DEF Underway, Running
<1>3. CASE UNCHANGED vars
  BY <1>2, <1>3 DEF vars, NoDoubleUnderway
<1>4. ASSUME NEW p \in Plans, CreatePlan(p) PROVE NoDoubleUnderway'
  <2>1. PICK status \in Pending, fits \in SUBSET Bank :
          plan' = [plan EXCEPT ![p] = [status |-> status, key |-> NoKey, fits |-> fits,
                                       late |-> fits \intersect Underway]]
    BY <1>4 DEF CreatePlan
  <2>2. Underway' = Underway /\ missed' = missed
    BY <1>2, <1>4 DEF CreatePlan, history
  <2>3. /\ \A q \in Plans \ {p} : plan'[q] = plan[q]
        /\ plan'[p].fits = fits /\ plan'[p].late = fits \intersect Underway
    BY <1>1, <2>1
  <2>4. ASSUME NEW f \in Underway, NEW q \in Plans,
               plan'[q].status \in Pending, f \in plan'[q].fits
        PROVE  f \in plan'[q].late \union missed
    BY <2>3, <2>4 DEF NoDoubleUnderway
  <2>5. QED
    BY <2>2, <2>4 DEF NoDoubleUnderway, Pending
<1>5. ASSUME NEW p \in Plans, DeletePlan(p) PROVE NoDoubleUnderway'
  <2>1. Underway' = Underway /\ missed' = missed
    BY <1>2, <1>5 DEF DeletePlan
  <2>2. plan'[p].status = "deleted" /\ \A q \in Plans \ {p} : plan'[q] = plan[q]
    BY <1>1, <1>5 DEF DeletePlan, Plan
  <2>3. QED
    BY <2>1, <2>2 DEF NoDoubleUnderway, Pending
<1>6. ASSUME NEW f \in Bank, DeletePosted(f) PROVE NoDoubleUnderway'
  <2>1. Underway' \subseteq Underway /\ missed' = missed /\ plan' = plan
    BY <1>6 DEF DeletePosted, Underway, Running
  <2>2. QED
    BY <2>1 DEF NoDoubleUnderway
<1>7. QED
  BY <1>3, <1>4, <1>5, <1>6, UnderwayImport DEF Next

\* Whenever an import inserted a transaction beside a planned payment it fits,
\* the payment was planned while the transaction was already on its way, or the
\* search for it had failed: no interleaving of imports makes a double entry.
THEOREM SingleEntry == Spec => []NoDoubleEntry
<1>1. Init => NoDoubleUnderway
  BY DEF Init, NoDoubleUnderway, Pending
<1>2. NoDoubleUnderway => NoDoubleEntry
  BY DEF NoDoubleUnderway, NoDoubleEntry, Underway
<1>3. QED
  BY <1>1, <1>2, TypeInit, TypeNext, ListsInit, ListsNext, UnderwayNext, PTL DEF Spec

-----------------------------------------------------------------------------
(* What is acknowledged is recorded.                                       *)

\* Any two imports that run at the same time are in met.
Overlaps ==
  \A i, j \in Imports : Running(i) /\ Running(j) /\ i # j => <<i, j>> \in met

\* What a deleted row fitted is in removed.
Removals == \A p \in Plans : plan[p].status = "deleted" => plan[p].fits \subseteq removed

\* What the request is done with.
Handled(r) == In(req[r].file) \ (In(req[r].rest) \union In(req[r].queue))

\* Row p holds f, or holds what an import that overlapped r put in its place; and
\* the imports that can still put something there all overlapped r.
Stands(r, f, p) ==
  /\ plan[p].status = "RECONCILED"
  /\ f \in plan[p].fits
  /\ \/ plan[p].key = f
     \/ \E i \in Imports : plan[p].key \in In(req[i].file) /\ <<r, i>> \in met
  /\ \A i \in Imports : req[i].match = p => <<r, i>> \in met

Accounted(r, f) ==
  f \in posted \union removed \union dropped \/ \E p \in Plans : Stands(r, f, p)

Kept ==
  \A r \in Imports : req[r].at \in {"running", "ok"} =>
    \A f \in Handled(r) : Accounted(r, f)

LEMMA OverlapsNext == TypeOK /\ Lists /\ Overlaps /\ [Next]_vars => Overlaps'
<1> SUFFICES ASSUME TypeOK, Lists, Overlaps, [Next]_vars PROVE Overlaps'
  OBVIOUS
<1>1. ASSUME UNCHANGED <<req, met>> PROVE Overlaps'
  BY <1>1 DEF Overlaps, Running
<1>2. ASSUME NEW r \in Imports, Step(r) PROVE Overlaps'
  <2>1. PICK new \in Request :
          /\ req' = [req EXCEPT ![r] = new]
          /\ \/ \E file \in Files : Start(r, file)
             \/ Running(r) /\ met' = met
    <3>1. (\E file \in Files : Start(r, file)) \/ (Running(r) /\ met' = met)
      BY <1>2 DEF Step, Match, NoMatch, MatchFails, Searching, Reconcile, ReconcileFails,
                  Upsert, UpsertFails, Saving, Reply, Crash, history
    <3>2. QED
      BY <1>2, <3>1, Moves
  <2>2. \A i \in Imports \ {r} : req'[i] = req[i]
    BY <2>1 DEF TypeOK
  <2>3. CASE Running(r) /\ met' = met
    BY <2>2, <2>3 DEF Overlaps, Running
  <2>4. CASE \E file \in Files : Start(r, file)
    BY <2>2, <2>4 DEF Overlaps, Running, Start
  <2>5. QED
    BY <2>1, <2>3, <2>4
<1>3. QED
  BY <1>1, <1>2 DEF Next, vars, CreatePlan, DeletePlan, DeletePosted, history

LEMMA RemovalsNext == TypeOK /\ Removals /\ [Next]_vars => Removals'
<1> SUFFICES ASSUME TypeOK, Removals, [Next]_vars PROVE Removals'
  OBVIOUS
<1>1. plan \in [Plans -> Plan]
  BY DEF TypeOK
<1>2. ASSUME NEW r \in Imports, Step(r) PROVE Removals'
  <2>1. removed' = removed
    BY <1>2 DEF Step, Start, Match, NoMatch, MatchFails, Reconcile, ReconcileFails,
                Upsert, UpsertFails, Reply, Crash, history
  <2>2. CASE Reconcile(r)
    <3>1. PICK m \in Plans : m = req[r].match
      BY <2>2 DEF TypeOK, Reconcile, Request
    <3>2. \A p \in Plans : plan'[p] = plan[p] \/ plan'[p].status = "RECONCILED"
      BY <1>1, <2>2, <3>1 DEF Reconcile, Plan
    <3>3. QED
      BY <2>1, <3>2 DEF Removals
  <2>3. CASE ~Reconcile(r)
    <3>1. plan' = plan
      BY <1>2, <2>3 DEF Step, Start, Match, NoMatch, MatchFails, ReconcileFails, Upsert,
                  UpsertFails, Reply, Crash
    <3>2. QED
      BY <2>1, <3>1 DEF Removals
  <2>4. QED
    BY <2>2, <2>3
<1>3. ASSUME NEW p \in Plans, CreatePlan(p) PROVE Removals'
  <2>1. PICK status \in Pending, fits \in SUBSET Bank :
          plan' = [plan EXCEPT ![p] = [status |-> status, key |-> NoKey, fits |-> fits,
                                       late |-> fits \intersect Underway]]
    BY <1>3 DEF CreatePlan
  <2>2. plan'[p].status # "deleted" /\ \A q \in Plans \ {p} : plan'[q] = plan[q]
    BY <1>1, <2>1 DEF Pending
  <2>3. QED
    BY <1>3, <2>2 DEF Removals, CreatePlan, history
<1>4. ASSUME NEW p \in Plans, DeletePlan(p) PROVE Removals'
  <2>1. plan'[p].fits = plan[p].fits /\ \A q \in Plans \ {p} : plan'[q] = plan[q]
    BY <1>1, <1>4 DEF DeletePlan, Plan
  <2>2. removed' = removed \union plan[p].fits
    BY <1>4 DEF DeletePlan
  <2>3. QED
    BY <2>1, <2>2 DEF Removals
<1>5. QED
  BY <1>2, <1>3, <1>4 DEF Next, vars, DeletePosted, Removals

\* A row that stands for f keeps standing for it, whatever an import does.
LEMMA StandsStep ==
  ASSUME TypeOK, Lists, NEW j \in Imports, Step(j),
         NEW r \in Imports, NEW f \in Bank, NEW p \in Plans, Stands(r, f, p)
  PROVE  Stands(r, f, p)'
<1>1. PICK new \in Request :
        /\ req' = [req EXCEPT ![j] = new]
        /\ In(req[j].file) \subseteq In(new.file)
        /\ new.match # p
  <2>1. \A file \in Files : Start(j, file) => In(req[j].file) = {}
    BY InEmpty DEF Start, Lists, ListsOf
  <2>2. p \notin Matches(Head(req[j].rest)) /\ p # NoPlan
    BY ConstantsAssumption DEF Matches, Stands, Pending
  <2>3. QED
    BY <2>1, <2>2, Moves
<1>2. req'[j] = new /\ \A i \in Imports \ {j} : req'[i] = req[i]
  BY <1>1 DEF TypeOK
<1>3. met \subseteq met'
  BY DEF Step, Start, Match, NoMatch, MatchFails, Reconcile, ReconcileFails,
         Upsert, UpsertFails, Reply, Crash, history
<1>4. \A i \in Imports : /\ In(req[i].file) \subseteq In(req'[i].file)
                         /\ req'[i].match = p => req[i].match = p
  BY <1>1, <1>2
<1>5. CASE plan'[p] = plan[p]
  BY <1>3, <1>4, <1>5 DEF Stands
<1>6. CASE plan'[p] # plan[p]
  <2>1. Reconcile(j)
    BY <1>6 DEF Step, Start, Match, NoMatch, MatchFails, ReconcileFails,
                Upsert, UpsertFails, Reply, Crash
  <2>2. PICK h : h = Head(req[j].rest)
    OBVIOUS
  <2>3. plan \in [Plans -> Plan] /\ req[j].match \in Plans
    BY <2>1 DEF TypeOK, Reconcile, Request
  <2>4. /\ req[j].match = p /\ plan'[p].key = h
        /\ plan'[p].status = "RECONCILED" /\ plan'[p].fits = plan[p].fits
    BY <1>6, <2>1, <2>2, <2>3 DEF Reconcile, Plan
  <2>5. h \in In(req[j].file)
    <3>1. req[j].rest # <<>> /\ req[j].rest \in Seq(Bank)
      BY <2>1 DEF TypeOK, Reconcile, Request
    <3>2. QED
      BY <2>2, <3>1, InFacts DEF Lists, ListsOf
  <2>6. <<r, j>> \in met
    BY <2>4 DEF Stands
  <2>7. QED
    BY <1>3, <1>4, <2>4, <2>5, <2>6 DEF Stands
<1>7. QED
  BY <1>5, <1>6

\* A row with FITID f stands for f, as long as r itself has no match there.
LEMMA StandsNow ==
  ASSUME TypeOK, Overlaps, NEW r \in Imports, Running(r), NEW f \in Bank,
         NEW q \in Plans, plan[q].key = f, req[r].match # q
  PROVE  Stands(r, f, q)
<1>1. plan[q].status = "RECONCILED" /\ f \in plan[q].fits
  BY ConstantsAssumption DEF TypeOK
<1>2. ASSUME NEW i \in Imports, req[i].match = q PROVE <<r, i>> \in met
  <2>1. Running(i) /\ i # r
    BY <1>2, ConstantsAssumption DEF TypeOK
  <2>2. QED
    BY <2>1 DEF Overlaps
<1>3. QED
  BY <1>1, <1>2 DEF Stands

\* What a request gets done with is accounted for.
LEMMA ReconcileKeeps ==
  ASSUME TypeOK, Lists, Overlaps, Removals, NEW r \in Imports,
         Reconcile(r) \/ ReconcileFails(r), NEW f \in Bank, f = Head(req[r].rest)
  PROVE  Accounted(r, f)'
<1>1. PICK m \in Plans :
        /\ f = Head(req[r].rest) /\ m = req[r].match
        /\ Running(r) /\ f \in plan[m].fits /\ m # NoPlan
  BY DEF TypeOK, Reconcile, ReconcileFails, Request
<1>2. Accounted(r, f)'
  <2>1. CASE ReconcileFails(r)
    BY <1>1, <2>1 DEF ReconcileFails, Accounted
  <2>2. CASE Reconcile(r) /\ plan[m].status = "deleted"
    BY <1>1, <2>2 DEF Removals, Reconcile, history, Accounted
  <2>3. CASE Reconcile(r) /\ Taken(f, m)
    <3>1. CASE f \in posted
      BY <2>3, <3>1 DEF Reconcile, Accounted
    <3>2. CASE f \notin posted
      <4>1. PICK q \in Plans \ {m} : plan[q].key = f
        BY <2>3, <3>2 DEF Taken
      <4>2. Stands(r, f, q)
        BY <1>1, <4>1, StandsNow
      <4>3. Stands(r, f, q)'
        BY <2>3, <4>2, StandsStep DEF Step
      <4>4. QED
        BY <4>3 DEF Accounted
    <3>3. QED
      BY <3>1, <3>2
  <2>4. CASE Reconcile(r) /\ ~(plan[m].status = "deleted" \/ Taken(f, m))
    <3>1. plan \in [Plans -> Plan] /\ req \in [Imports -> Request]
      BY DEF TypeOK
    <3>2. plan' = [plan EXCEPT ![m].key = f, ![m].status = "RECONCILED"] /\ met' = met
          /\ req' = [req EXCEPT ![r].rest = Tail(@), ![r].match = NoPlan]
      BY <1>1, <2>4 DEF Reconcile, Advance, history
    <3>3. plan'[m].key = f /\ plan'[m].status = "RECONCILED" /\ f \in plan'[m].fits
      BY <1>1, <3>1, <3>2 DEF Plan
    <3>4. ASSUME NEW i \in Imports, req'[i].match = m PROVE <<r, i>> \in met'
      <4>1. i # r /\ req[i].match = m
        BY <1>1, <3>1, <3>2, <3>4 DEF Request
      <4>2. Running(i)
        BY <1>1, <4>1 DEF TypeOK
      <4>3. QED
        BY <1>1, <3>2, <4>1, <4>2 DEF Overlaps
    <3>5. Stands(r, f, m)'
      BY <3>3, <3>4 DEF Stands
    <3>6. QED
      BY <3>5 DEF Accounted
  <2>5. QED
    BY <2>1, <2>2, <2>3, <2>4
<1>3. QED
  BY <1>1, <1>2

LEMMA UpsertKeeps ==
  ASSUME TypeOK, Lists, Overlaps, NEW r \in Imports, Upsert(r),
         NEW f \in Bank, f = Head(req[r].queue)
  PROVE  Accounted(r, f)'
<1>1. Running(r) /\ req[r].rest = <<>>
  BY DEF Upsert, Saving
<1>2. CASE f \in posted'
  BY <1>2 DEF Accounted
<1>3. CASE f \notin posted'
  <2>1. PICK q \in Plans : plan[q].key = f
    BY <1>3 DEF Upsert, Taken
  <2>2. req[r].match = NoPlan
    BY <1>1 DEF TypeOK
  <2>3. Stands(r, f, q)
    BY <1>1, <2>1, <2>2, StandsNow, ConstantsAssumption
  <2>4. Stands(r, f, q)'
    BY <2>3, StandsStep DEF Step
  <2>5. QED
    BY <2>4 DEF Accounted
<1>4. QED
  BY <1>2, <1>3

\* What was accounted for stays so, whatever an import does.
LEMMA AccountedStep ==
  ASSUME TypeOK, Lists, NEW j \in Imports, Step(j),
         NEW r \in Imports, NEW f \in Bank, Accounted(r, f)
  PROVE  Accounted(r, f)'
<1>1. posted \subseteq posted' /\ removed \subseteq removed' /\ dropped \subseteq dropped'
  BY DEF Step, Start, Match, NoMatch, MatchFails, Reconcile, ReconcileFails,
         Upsert, UpsertFails, Reply, Crash, history
<1>2. CASE f \in posted \union removed \union dropped
  BY <1>1, <1>2 DEF Accounted
<1>3. CASE \E p \in Plans : Stands(r, f, p)
  <2>1. PICK p \in Plans : Stands(r, f, p)
    BY <1>3
  <2>2. Stands(r, f, p)'
    BY <2>1, StandsStep
  <2>3. QED
    BY <2>2 DEF Accounted
<1>4. QED
  BY <1>2, <1>3 DEF Accounted

LEMMA KeptImport ==
  ASSUME TypeOK, Lists, Overlaps, Removals, Kept, NEW j \in Imports, Step(j)
  PROVE  Kept'
<1>1. PICK new \in Request :
        /\ req' = [req EXCEPT ![j] = new]
        /\ \/ new.at = "failed"
           \/ new.file = new.rest
           \/ /\ req[j].at = "running" /\ new.file = req[j].file
              /\ \/ new.rest = req[j].rest /\ new.queue = req[j].queue
                 \/ /\ new.rest = Tail(req[j].rest) /\ req[j].rest # <<>>
                    /\ new.queue = Append(req[j].queue, Head(req[j].rest))
                 \/ /\ new.rest = Tail(req[j].rest) /\ req[j].rest # <<>>
                    /\ new.queue = req[j].queue
                    /\ Reconcile(j) \/ ReconcileFails(j)
                 \/ /\ new.rest = req[j].rest /\ req[j].queue # <<>>
                    /\ new.queue = Tail(req[j].queue)
                    /\ Upsert(j)
  <2>1. Reconcile(j) \/ ReconcileFails(j) => Running(j) /\ req[j].rest # <<>>
    BY DEF TypeOK, Reconcile, ReconcileFails
  <2>2. NoMatch(j) \/ MatchFails(j) \/ Match(j) => Running(j) /\ req[j].rest # <<>>
    BY DEF NoMatch, MatchFails, Match, Searching
  <2>3. Upsert(j) => Running(j) /\ req[j].rest = <<>> /\ req[j].queue # <<>>
    BY DEF Upsert, Saving
  <2>4. Reply(j) => Running(j) /\ req[j].rest = <<>> /\ req[j].queue = <<>>
    BY DEF Reply
  <2>5. QED
    BY <2>1, <2>2, <2>3, <2>4, Moves DEF Running
<1>2. req'[j] = new /\ \A i \in Imports \ {j} : req'[i] = req[i]
  BY <1>1 DEF TypeOK
<1>3. ASSUME NEW r \in Imports, req'[r].at \in {"running", "ok"},
             NEW f \in Bank, f \in In(req'[r].file),
             f \notin In(req'[r].rest), f \notin In(req'[r].queue)
      PROVE  Accounted(r, f)'
  <2>1. CASE r # j
    <3>1. f \in Handled(r) /\ req[r].at \in {"running", "ok"}
      BY <1>2, <1>3, <2>1 DEF Handled
    <3>2. QED
      BY <3>1, AccountedStep DEF Kept
  <2>2. CASE r = j
    <3>1. req[j].rest \in Seq(Bank) /\ req[j].queue \in Seq(Bank)
      BY DEF TypeOK, Request
    <3>2. \/ f \in Handled(r) /\ req[r].at = "running"
          \/ f = Head(req[j].rest) /\ (Reconcile(j) \/ ReconcileFails(j))
          \/ f = Head(req[j].queue) /\ Upsert(j)
      <4>1. req[j].rest # <<>> =>
              /\ In(req[j].rest) = {Head(req[j].rest)} \union In(Tail(req[j].rest))
              /\ In(Append(req[j].queue, Head(req[j].rest)))
                   = In(req[j].queue) \union {Head(req[j].rest)}
        BY <3>1, InFacts
      <4>2. req[j].queue # <<>> =>
              In(req[j].queue) = {Head(req[j].queue)} \union In(Tail(req[j].queue))
        BY <3>1, InFacts
      <4>3. QED
        BY <1>1, <1>2, <1>3, <2>2, <4>1, <4>2 DEF Handled
    <3>3. QED
      BY <2>2, <3>2, AccountedStep, ReconcileKeeps, UpsertKeeps DEF Kept
  <2>3. QED
    BY <2>1, <2>2
<1>4. \A r \in Imports : In(req'[r].file) \subseteq Bank
  <2>1. req' \in [Imports -> Request]
    BY TypeImport DEF TypeOK
  <2>2. QED
    BY <2>1, InFacts DEF Request
<1>5. QED
  BY <1>3, <1>4 DEF Kept, Handled

LEMMA KeptUser ==
  ASSUME TypeOK, Kept,
         \/ \E p \in Plans : CreatePlan(p) \/ DeletePlan(p)
         \/ \E f \in Bank : DeletePosted(f)
  PROVE  Kept'
<1>1. plan \in [Plans -> Plan]
  BY DEF TypeOK
<1>2. req' = req /\ met' = met
  BY DEF CreatePlan, DeletePlan, DeletePosted, history
<1>3. ASSUME NEW r \in Imports, NEW f, Accounted(r, f) PROVE Accounted(r, f)'
  <2>1. posted \union removed \union dropped
          \subseteq posted' \union removed' \union dropped'
    BY DEF CreatePlan, DeletePlan, DeletePosted, history
  <2>2. CASE f \in posted \union removed \union dropped
    BY <2>1, <2>2 DEF Accounted
  <2>3. ASSUME NEW q \in Plans, Stands(r, f, q) PROVE Accounted(r, f)'
    <3>1. CASE plan'[q] = plan[q]
      BY <1>2, <2>3, <3>1 DEF Stands, Accounted
    <3>2. CASE plan'[q] # plan[q]
      <4>1. ASSUME NEW p \in Plans, CreatePlan(p) PROVE FALSE
        BY <1>1, <2>3, <3>2, <4>1 DEF CreatePlan, Stands
      <4>2. ASSUME NEW p \in Plans, DeletePlan(p) PROVE plan[q].fits \subseteq removed'
        BY <1>1, <3>2, <4>2 DEF DeletePlan
      <4>3. QED
        BY <2>3, <3>2, <4>1, <4>2 DEF DeletePosted, Stands, Accounted
    <3>3. QED
      BY <3>1, <3>2
  <2>4. QED
    BY <1>3, <2>2, <2>3 DEF Accounted
<1>4. \A r \in Imports : Handled(r)' = Handled(r)
  BY <1>2 DEF Handled
<1>5. QED
  BY <1>2, <1>3, <1>4 DEF Kept

KeptInv == TypeOK /\ Lists /\ Overlaps /\ Removals /\ Kept

LEMMA KeptInit == Init => KeptInv
<1>1. Init => Overlaps /\ Removals /\ Kept
  BY DEF Init, Overlaps, Running, Removals, Kept
<1>2. QED
  BY <1>1, TypeInit, ListsInit DEF KeptInv

LEMMA KeptNext == KeptInv /\ [Next]_vars => KeptInv'
<1> SUFFICES ASSUME KeptInv, [Next]_vars PROVE KeptInv'
  OBVIOUS
<1>1. TypeOK' /\ Lists' /\ Overlaps' /\ Removals'
  BY TypeNext, ListsNext, OverlapsNext, RemovalsNext DEF KeptInv
<1>2. ASSUME UNCHANGED vars PROVE Kept'
  <2>1. plan' = plan /\ posted' = posted /\ req' = req /\ met' = met
        /\ dropped' = dropped /\ removed' = removed
    BY <1>2 DEF vars
  <2>2. ASSUME NEW r \in Imports, NEW f PROVE Accounted(r, f)' = Accounted(r, f)
    BY <2>1 DEF Accounted, Stands
  <2>3. \A r \in Imports : Handled(r)' = Handled(r)
    BY <2>1 DEF Handled
  <2>4. QED
    BY <2>1, <2>2, <2>3 DEF KeptInv, Kept
<1>3. Kept'
  BY <1>2, KeptImport, KeptUser DEF Next, KeptInv
<1>4. QED
  BY <1>1, <1>3 DEF KeptInv

\* Whatever an import acknowledged is recorded, or its row was deleted, or its
\* Reconcile failed, or an import that ran at the same time reconciled the same
\* planned payment with another transaction.
THEOREM AcksRecorded == Spec => []AckedRecorded
<1>1. ASSUME KeptInv PROVE AckedRecorded
  <2>1. ASSUME NEW r \in Imports, req[r].at = "ok", NEW f \in In(req[r].file)
        PROVE  \/ Recorded(f) \/ f \in removed \union dropped
               \/ \E p \in Plans : LostTo(r, f, p)
    <3>1. f \in Handled(r)
      BY <1>1, <2>1, InEmpty DEF KeptInv, Lists, ListsOf, Handled
    <3>2. Accounted(r, f)
      BY <1>1, <2>1, <3>1 DEF KeptInv, Kept
    <3>3. ASSUME NEW p \in Plans, Stands(r, f, p) PROVE Recorded(f) \/ LostTo(r, f, p)
      BY <3>3, ConstantsAssumption DEF Stands, Recorded, Taken, LostTo
    <3>4. QED
      BY <3>2, <3>3 DEF Accounted, Recorded, Taken
  <2>2. QED
    BY <2>1 DEF AckedRecorded
<1>2. QED
  BY <1>1, KeptInit, KeptNext, PTL DEF Spec

-----------------------------------------------------------------------------
(* GET /transactions.                                                      *)

ListPage ==
  [at : {"idle", "plan", "count", "page", "done"}, page : Nat, limit : Nat \ {0},
   asked : SUBSET ListAccounts, allowed : SUBSET ListAccounts, from : Int, total : Nat,
   data : Seq(Rows), changed : SUBSET {"rows", "visible", "plan"}, midnight : BOOLEAN]

ListWalk ==
  [page : Nat, limit : Int, asked : SUBSET ListAccounts, from : Int, times : [Rows -> Nat],
   tied : BOOLEAN, still : BOOLEAN, over : BOOLEAN]

ListingTypes ==
  /\ today \in Int /\ visible \in SUBSET ListAccounts /\ free \in BOOLEAN
  /\ row \in [Rows -> [account : ListAccounts, day : Int, at : {"new", "there", "gone"}]]
  /\ list \in ListPage /\ walk \in ListWalk
  /\ walk.over => walk.page > 0

\* A request is one of the walk, for its next page.
ListFits ==
  list.at # "idle" =>
    /\ walk.page > 0 /\ ~walk.over
    /\ list.page = walk.page /\ list.limit = Clamp(walk.limit) /\ list.asked = walk.asked

\* What the request has read is so, or it says that it was changed.
ReadOrChanged ==
  /\ list.at # "idle" => "visible" \in list.changed \/ list.allowed \subseteq visible
  /\ list.at \in {"count", "page"} \/ (list.at = "done" /\ list.data # <<>>) =>
       \/ "plan" \in list.changed \/ ~free
       \/ list.from >= today - HistoryDays - (IF list.midnight THEN 1 ELSE 0)

\* The data are rows that the request may show.
DataAllowed ==
  /\ list.at # "done" => list.data = <<>>
  /\ \A i \in DOMAIN list.data :
       row[list.data[i]].account \in list.allowed /\ row[list.data[i]].day >= list.from

\* The rows the walk is to show, if all stands still.
Wanted ==
  {r \in Rows : /\ There(r) /\ row[r].account \in visible
                /\ walk.asked = {} \/ row[r].account \in walk.asked
                /\ row[r].day >= walk.from
                /\ ~free \/ row[r].day >= today - HistoryDays}

Earliest == IF free /\ walk.from < today - HistoryDays THEN today - HistoryDays ELSE walk.from

\* If nothing has changed, each statement of the request sees what the walk is about.
StillRead ==
  list.at # "idle" /\ walk.still =>
    /\ list.allowed = visible
    /\ list.at = "plan" => list.from = walk.from
    /\ list.at \in {"count", "page"} => list.from = Earliest
    /\ list.at \in {"page", "done"} => list.total = Cardinality(Wanted)

\* How often the pages that were read have each row, and how far they go.
With(times, data) == [r \in Rows |-> times[r] + Cardinality({i \in DOMAIN data : data[i] = r})]

ShownTimes == With(walk.times, list.data)

Far == (IF list.at = "done" THEN walk.page ELSE walk.page - 1) * Clamp(walk.limit)

\* times has k rows of those wanted once, and the others never; and no other is of a
\* day of theirs or a later one.
Covers(times, k) ==
  LET had == {r \in Rows : times[r] = 1} IN
  /\ \A r \in Rows : times[r] \in {0, 1}
  /\ had \subseteq Wanted
  /\ Cardinality(had) = IF k <= Cardinality(Wanted) THEN k ELSE Cardinality(Wanted)
  /\ \A r \in had, q \in Wanted \ had : row[r].day > row[q].day

Progress == walk.page > 0 /\ walk.still /\ ~walk.tied => Covers(ShownTimes, Far)

OverAtEnd == walk.over /\ walk.still => Far >= Cardinality(Wanted)

ListingInv ==
  /\ ListingTypes /\ ListFits /\ ReadOrChanged /\ DataAllowed
  /\ StillRead /\ Progress /\ OverAtEnd

LEMMA ListingConstants ==
  /\ HistoryDays \in Nat /\ HistoryDays >= 1 /\ LastDay \in Nat /\ MaxChanges \in Nat
  /\ DefaultLimit \in Nat \ {0} /\ MaxLimit \in Nat \ {0} /\ DefaultLimit \in Int
  /\ Limits \subseteq Int /\ Froms \subseteq Int /\ IsFiniteSet(Rows)
  BY ListingAssumption

LEMMA NoListOK ==
  /\ NoList \in ListPage /\ NoList.at = "idle" /\ NoList.data = <<>>
  /\ NoWalk \in ListWalk /\ NoWalk.page = 0 /\ NoWalk.over = FALSE
  BY ListingConstants DEF NoList, NoWalk, ListPage, ListWalk

LEMMA ClampOK == \A limit \in Int : Clamp(limit) \in Nat \ {0}
  BY ListingConstants DEF Clamp

LEMMA EmptyCounts == \A r : Cardinality({i \in DOMAIN <<>> : <<>>[i] = r}) = 0
  BY FS_EmptySet

LEMMA WithNothing == \A times \in [Rows -> Nat] : With(times, <<>>) = times
<1> SUFFICES ASSUME NEW times \in [Rows -> Nat] PROVE With(times, <<>>) = times
  OBVIOUS
<1>1. \A r \in Rows : With(times, <<>>)[r] = times[r] + Cardinality({i \in DOMAIN <<>> : <<>>[i] = r})
  BY DEF With
<1>2. \A r \in Rows : With(times, <<>>)[r] = times[r]
  BY <1>1, EmptyCounts
<1>3. With(times, <<>>) \in [Rows -> Nat]
  BY <1>2 DEF With
<1>4. QED
  BY <1>2, <1>3

LEMMA SomeRowsFinite == \A S \in SUBSET Rows : IsFiniteSet(S) /\ Cardinality(S) \in Nat
  BY ListingConstants, FS_Subset, FS_CardinalityType

LEMMA ListingStart == ListingInit => ListingInv
<1> SUFFICES ASSUME ListingInit PROVE ListingInv
  OBVIOUS
<1>1. list = NoList /\ walk = NoWalk
  BY DEF ListingInit
<1>2. row \in [Rows -> [account : ListAccounts, day : Int, at : {"new", "there", "gone"}]]
  <2>1. 0..(LastDay - 1) \subseteq Int /\ {"new", "there"} \subseteq {"new", "there", "gone"}
    BY ListingConstants
  <2>2. row \in [Rows -> [account : ListAccounts, day : 0..(LastDay - 1), at : {"new", "there"}]]
    BY DEF ListingInit
  <2>3. QED
    BY <2>1, <2>2
<1>3. ListingTypes
  BY <1>1, <1>2, NoListOK, ListingConstants DEF ListingInit, ListingTypes
<1>4. QED
  BY <1>1, <1>3, NoListOK
  DEF ListingInv, ListFits, ReadOrChanged, DataAllowed, StillRead, Progress, OverAtEnd

\* Something changes: the walk is no longer still.
LEMMA NoLongerStill ==
  ASSUME ListingInv, list' \in ListPage, walk' = [walk EXCEPT !.still = FALSE],
         list'.at = list.at, list'.page = list.page, list'.limit = list.limit,
         list'.asked = list.asked
  PROVE  /\ walk' \in ListWalk /\ (walk'.over => walk'.page > 0)
         /\ ListFits' /\ StillRead' /\ Progress' /\ OverAtEnd'
<1>1. walk \in ListWalk
  BY DEF ListingInv, ListingTypes
<1>2. /\ walk' \in ListWalk /\ walk'.still = FALSE /\ walk'.page = walk.page
      /\ walk'.over = walk.over /\ walk'.limit = walk.limit /\ walk'.asked = walk.asked
  BY <1>1 DEF ListWalk
<1>3. QED
  BY <1>2 DEF ListingInv, ListingTypes, ListFits, StillRead, Progress, OverAtEnd

LEMMA ChangeSaid ==
  ASSUME ListingInv, NEW what \in {"rows", "visible", "plan"}, Change(what)
  PROVE  /\ list' \in ListPage /\ list'.at = list.at /\ list'.page = list.page
         /\ list'.limit = list.limit /\ list'.asked = list.asked /\ list'.allowed = list.allowed
         /\ list'.from = list.from /\ list'.data = list.data /\ list'.midnight = list.midnight
         /\ list.changed \subseteq list'.changed
         /\ list.at # "idle" => what \in list'.changed
         /\ walk' \in ListWalk /\ (walk'.over => walk'.page > 0)
         /\ ListFits' /\ StillRead' /\ Progress' /\ OverAtEnd'
<1>1. list \in ListPage
  BY DEF ListingInv, ListingTypes
<1> DEFINE c == IF list.at = "idle" THEN list.changed ELSE list.changed \cup {what}
<1>2. list' = [list EXCEPT !.changed = c] /\ walk' = [walk EXCEPT !.still = FALSE]
  BY DEF Change
<1>3. c \in SUBSET {"rows", "visible", "plan"} /\ list.changed \subseteq c
  BY <1>1 DEF ListPage
<1>4. list.at # "idle" => what \in c
  OBVIOUS
<1> HIDE DEF c
<1>5. /\ list' \in ListPage /\ list'.at = list.at /\ list'.page = list.page
      /\ list'.limit = list.limit /\ list'.asked = list.asked /\ list'.allowed = list.allowed
      /\ list'.from = list.from /\ list'.data = list.data /\ list'.midnight = list.midnight
      /\ list'.changed = c
  BY <1>1, <1>2, <1>3 DEF ListPage
<1>6. QED
  BY <1>2, <1>3, <1>4, <1>5, NoLongerStill

LEMMA ChangeRowKeeps ==
  ASSUME ListingInv, NEW r \in Rows, ChangeRow(r) PROVE ListingInv'
<1>1. Change("rows") /\ UNCHANGED <<today, visible, free>>
  BY DEF ChangeRow
<1>2. /\ row' \in [Rows -> [account : ListAccounts, day : Int, at : {"new", "there", "gone"}]]
      /\ \A q \in Rows : row'[q].account = row[q].account /\ row'[q].day = row[q].day
  BY DEF ChangeRow, ListingInv, ListingTypes
<1>3. ListingTypes'
  BY <1>1, <1>2, ChangeSaid DEF ListingInv, ListingTypes
<1>4. ReadOrChanged'
  BY <1>1, ChangeSaid DEF ListingInv, ReadOrChanged
<1>5. DataAllowed'
  <2>1. list'.at = list.at /\ list'.data = list.data /\ list'.allowed = list.allowed
        /\ list'.from = list.from
    BY <1>1, ChangeSaid
  <2>2. \A i \in DOMAIN list.data : list.data[i] \in Rows
    BY DEF ListingInv, ListingTypes, ListPage
  <2>3. QED
    BY <1>2, <2>1, <2>2 DEF ListingInv, DataAllowed
<1>6. QED
  BY <1>1, <1>3, <1>4, <1>5, ChangeSaid DEF ListingInv

LEMMA ChangeVisibleKeeps ==
  ASSUME ListingInv, NEW a \in ListAccounts, ChangeVisible(a) PROVE ListingInv'
<1>1. Change("visible") /\ UNCHANGED <<today, row, free>>
  BY DEF ChangeVisible
<1>2. visible' \in SUBSET ListAccounts
  BY DEF ChangeVisible, ListingInv, ListingTypes
<1>3. ListingTypes'
  BY <1>1, <1>2, ChangeSaid DEF ListingInv, ListingTypes
<1>4. ReadOrChanged' /\ DataAllowed'
  BY <1>1, ChangeSaid DEF ListingInv, ReadOrChanged, DataAllowed
<1>5. QED
  BY <1>1, <1>3, <1>4, ChangeSaid DEF ListingInv

LEMMA ChangePlanKeeps ==
  ASSUME ListingInv, ChangePlan PROVE ListingInv'
<1>1. Change("plan") /\ UNCHANGED <<today, row, visible>> /\ free' \in BOOLEAN
  BY DEF ChangePlan, ListingInv, ListingTypes
<1>2. ListingTypes'
  BY <1>1, ChangeSaid DEF ListingInv, ListingTypes
<1>3. ReadOrChanged' /\ DataAllowed'
  BY <1>1, ChangeSaid DEF ListingInv, ReadOrChanged, DataAllowed
<1>4. QED
  BY <1>1, <1>2, <1>3, ChangeSaid DEF ListingInv

LEMMA NextDayKeeps ==
  ASSUME ListingInv, NextDay PROVE ListingInv'
<1>1. /\ today' = today + 1 /\ ~list.midnight /\ UNCHANGED <<row, visible, free>>
      /\ list' = [list EXCEPT !.midnight = list.at # "idle"]
      /\ walk' = [walk EXCEPT !.still = FALSE]
  BY DEF NextDay
<1>2. list \in ListPage /\ (list.at # "idle") \in BOOLEAN /\ today \in Int
  BY DEF ListingInv, ListingTypes
<1>3. /\ list' \in ListPage /\ list'.at = list.at /\ list'.page = list.page
      /\ list'.limit = list.limit /\ list'.asked = list.asked /\ list'.allowed = list.allowed
      /\ list'.from = list.from /\ list'.data = list.data /\ list'.changed = list.changed
      /\ list.at # "idle" => list'.midnight = TRUE
  BY <1>1, <1>2 DEF ListPage
<1>4. /\ walk' \in ListWalk /\ (walk'.over => walk'.page > 0)
      /\ ListFits' /\ StillRead' /\ Progress' /\ OverAtEnd'
  BY <1>1, <1>3, NoLongerStill
<1>5. ListingTypes'
  BY <1>1, <1>2, <1>3, <1>4 DEF ListingInv, ListingTypes
<1>6. DataAllowed'
  BY <1>1, <1>3 DEF ListingInv, DataAllowed
<1>7. ReadOrChanged'
  <2>1. list.from \in Int /\ HistoryDays \in Nat
    BY <1>2, ListingConstants DEF ListPage
  <2>2. QED
    BY <1>1, <1>2, <1>3, <2>1 DEF ListingInv, ReadOrChanged
<1>8. QED
  BY <1>4, <1>5, <1>6, <1>7 DEF ListingInv

\* A walk that has begun has shown nothing.
LEMMA BeginWalkKeeps ==
  ASSUME ListingInv, NEW limit \in Limits, NEW accounts \in SUBSET ListAccounts, NEW from \in Froms,
         BeginWalk(limit, accounts, from)
  PROVE  ListingInv'
<1> DEFINE w1 == [NoWalk EXCEPT !.page = 1]
           w2 == [w1 EXCEPT !.limit = limit]
           w3 == [w2 EXCEPT !.asked = accounts]
           w4 == [w3 EXCEPT !.from = from]
<1>1. walk' = w4 /\ list.at = "idle" /\ UNCHANGED <<today, row, visible, free, list>>
  BY DEF BeginWalk
<1>2. limit \in Int /\ from \in Int
  BY ListingConstants
<1>3. /\ w4 \in ListWalk /\ w4.page = 1 /\ w4.limit = limit /\ w4.over = FALSE
      /\ w4.times = [r \in Rows |-> 0]
  BY <1>2, NoListOK DEF ListWalk, NoWalk
<1> HIDE DEF w4
<1>4. ListingTypes'
  BY <1>1, <1>3 DEF ListingInv, ListingTypes
<1>5. ListFits' /\ ReadOrChanged' /\ DataAllowed' /\ StillRead' /\ OverAtEnd'
  BY <1>1, <1>3 DEF ListingInv, ListFits, ReadOrChanged, DataAllowed, StillRead, OverAtEnd
<1>6. Progress'
  <2>1. list'.data = <<>>
    BY <1>1 DEF ListingInv, DataAllowed
  <2>2. ShownTimes' = [r \in Rows |-> 0]
    <3>1. walk'.times \in [Rows -> Nat]
      BY <1>3, <1>1
    <3>2. ShownTimes' = With(walk'.times, list'.data)
      BY DEF ShownTimes, With
    <3>3. QED
      BY <1>1, <1>3, <2>1, <3>1, <3>2, WithNothing
  <2>3. Far' = 0
    <3>1. Clamp(limit) \in Nat
      BY <1>2, ClampOK
    <3>2. Far' = (1 - 1) * Clamp(limit)
      BY <1>1, <1>3 DEF Far, Clamp
    <3>3. QED
      BY <3>1, <3>2
  <2>4. Wanted' \subseteq Rows /\ Cardinality(Wanted') \in Nat
    BY SomeRowsFinite DEF Wanted
  <2>5. {r \in Rows : ShownTimes'[r] = 1} = {} /\ Cardinality({}) = 0
    BY <2>2, FS_EmptySet
  <2>6. Covers(ShownTimes, Far)'
    BY <2>2, <2>3, <2>4, <2>5 DEF Covers
  <2>7. QED
    BY <2>6 DEF Progress
<1>7. QED
  BY <1>4, <1>5, <1>6 DEF ListingInv

LEMMA GiveUpKeeps ==
  ASSUME ListingInv, GiveUp PROVE ListingInv'
<1>1. /\ list' = NoList /\ walk' = NoWalk /\ UNCHANGED <<today, row, visible, free>>
  BY DEF GiveUp
<1>2. ListingTypes'
  BY <1>1, NoListOK DEF ListingInv, ListingTypes
<1>3. QED
  BY <1>1, <1>2, NoListOK
  DEF ListingInv, ListFits, ReadOrChanged, DataAllowed, StillRead, Progress, OverAtEnd

\* With no account seen the answer is empty: there was nothing to show, or the read
\* was cut short.
LEMMA ReadVisibleKeeps ==
  ASSUME ListingInv, NEW seen \in SUBSET visible, ReadVisible(seen) PROVE ListingInv'
<1> DEFINE at == IF seen = {} THEN "done" ELSE "plan"
           l1 == [NoList EXCEPT !.at = at]
           l2 == [l1 EXCEPT !.page = walk.page]
           l3 == [l2 EXCEPT !.limit = Clamp(walk.limit)]
           l4 == [l3 EXCEPT !.asked = walk.asked]
           l5 == [l4 EXCEPT !.allowed = seen]
           l6 == [l5 EXCEPT !.from = walk.from]
           w1 == [walk EXCEPT !.still = walk.still /\ seen = visible]
<1>1. /\ list' = l6 /\ list.at = "idle" /\ walk.page > 0 /\ ~walk.over
      /\ walk' = w1 /\ UNCHANGED <<today, row, visible, free>>
  BY DEF ReadVisible
<1>2. /\ walk \in ListWalk /\ visible \in SUBSET ListAccounts /\ Clamp(walk.limit) \in Nat \ {0}
      /\ walk.page \in Nat /\ walk.from \in Int /\ walk.times \in [Rows -> Nat]
      /\ walk.asked \in SUBSET ListAccounts
  BY ClampOK DEF ListingInv, ListingTypes, ListWalk
<1>3. at \in {"plan", "done"} /\ (at = "done" <=> seen = {})
  OBVIOUS
<1>4. /\ l6 \in ListPage /\ l6.at = at /\ l6.page = walk.page /\ l6.limit = Clamp(walk.limit)
      /\ l6.asked = walk.asked /\ l6.allowed = seen /\ l6.from = walk.from
      /\ l6.data = <<>> /\ l6.total = 0
  <2> HIDE DEF at
  <2>1. NoList \in ListPage /\ NoList.data = <<>> /\ NoList.total = 0
    BY NoListOK DEF NoList
  <2>2. l2 \in ListPage /\ l2.at = at /\ l2.page = walk.page /\ l2.data = <<>> /\ l2.total = 0
    BY <2>1, <1>2, <1>3 DEF ListPage
  <2> HIDE DEF l2
  <2>3. /\ l4 \in ListPage /\ l4.at = at /\ l4.page = walk.page /\ l4.data = <<>> /\ l4.total = 0
        /\ l4.limit = Clamp(walk.limit) /\ l4.asked = walk.asked
    BY <2>2, <1>2 DEF ListPage
  <2> HIDE DEF l4
  <2>4. QED
    BY <2>3, <1>2 DEF ListPage
<1> HIDE DEF l6, at
<1>4a. /\ w1 \in ListWalk /\ w1.page = walk.page /\ w1.limit = walk.limit
       /\ w1.asked = walk.asked /\ w1.from = walk.from /\ w1.times = walk.times
       /\ w1.tied = walk.tied /\ w1.over = walk.over
       /\ w1.still => walk.still /\ seen = visible
  BY <1>2 DEF ListWalk
<1> HIDE DEF w1
<1>5. ListingTypes'
  BY <1>1, <1>4, <1>4a DEF ListingInv, ListingTypes
<1>6. ListFits' /\ ReadOrChanged' /\ DataAllowed' /\ OverAtEnd'
  BY <1>1, <1>3, <1>4, <1>4a
  DEF ListingInv, ListFits, ReadOrChanged, DataAllowed, OverAtEnd, Clamp
<1>7. Wanted' = Wanted
  BY <1>1, <1>4a DEF Wanted, There
<1>8. visible = {} => Wanted = {} /\ Cardinality(Wanted) = 0
  BY FS_EmptySet DEF Wanted
<1>9. StillRead'
  BY <1>1, <1>3, <1>4, <1>7, <1>8, <1>4a DEF StillRead
<1>10. Progress'
  <2> SUFFICES ASSUME walk.page > 0, walk.still, seen = visible, ~walk.tied
               PROVE  Covers(ShownTimes, Far)'
    BY <1>1, <1>4a DEF Progress
  <2>1. list.data = <<>>
    BY <1>1 DEF ListingInv, DataAllowed
  <2>2. ShownTimes = walk.times /\ ShownTimes' = walk.times
    BY <1>1, <1>2, <1>4, <1>4a, <2>1, WithNothing DEF ShownTimes, With
  <2>3. Covers(walk.times, (walk.page - 1) * Clamp(walk.limit))
    BY <2>2, <1>1 DEF ListingInv, Progress, Far
  <2>4. CASE at = "plan"
    <3>1. Far' = (walk.page - 1) * Clamp(walk.limit)
      BY <2>4, <1>1, <1>4, <1>4a DEF Far, Clamp
    <3>2. QED
      BY <2>2, <2>3, <3>1, <1>1, <1>7 DEF Covers
  <2>5. CASE at = "done"
    <3>1. Wanted = {} /\ Cardinality(Wanted) = 0
      BY <2>5, <1>3, <1>8
    <3>2. Far' = walk.page * Clamp(walk.limit)
      BY <2>5, <1>1, <1>4, <1>4a DEF Far, Clamp
    <3>3. walk.page * Clamp(walk.limit) > 0
      BY <1>1, <1>2
    <3>4. {r \in Rows : walk.times[r] = 1} = {} /\ \A r \in Rows : walk.times[r] \in {0, 1}
      BY <2>3, <3>1 DEF Covers
    <3>5. Wanted' = {} /\ Cardinality({}) = 0 /\ Far' > 0 /\ Far' \in Int
      BY <1>2, <1>7, <3>1, <3>2, <3>3
    <3>6. QED
      BY <2>2, <3>4, <3>5 DEF Covers
  <2>6. QED
    BY <2>4, <2>5, <1>3
<1>11. QED
  BY <1>5, <1>6, <1>9, <1>10 DEF ListingInv

LEMMA ReadPlanKeeps ==
  ASSUME ListingInv, NEW fails \in BOOLEAN, ReadPlan(fails) PROVE ListingInv'
<1> DEFINE earliest == today - HistoryDays
           from == IF free /\ ~fails /\ list.from < earliest THEN earliest ELSE list.from
           changed == IF fails THEN list.changed \cup {"plan"} ELSE list.changed
           still == walk.still /\ ~fails
           l1 == [list EXCEPT !.at = "count"]
           l2 == [l1 EXCEPT !.from = from]
           l3 == [l2 EXCEPT !.changed = changed]
<1>1. /\ list' = l3 /\ list.at = "plan" /\ walk' = [walk EXCEPT !.still = still]
      /\ UNCHANGED <<today, row, visible, free>>
  BY DEF ReadPlan
<1>2. /\ list \in ListPage /\ walk \in ListWalk /\ today \in Int /\ earliest \in Int
      /\ list.from \in Int /\ walk.times \in [Rows -> Nat]
  BY ListingConstants DEF ListingInv, ListingTypes, ListPage, ListWalk
<1>3. from \in Int /\ changed \in SUBSET {"rows", "visible", "plan"} /\ still \in BOOLEAN
  BY <1>2 DEF ListPage, ListWalk
<1>4. /\ free /\ ~fails => from >= earliest
      /\ list.changed \subseteq changed /\ (fails => "plan" \in changed)
      /\ still => walk.still /\ ~fails
  BY <1>2
<1>5. still /\ list.from = walk.from => from = Earliest
  BY DEF Earliest
<1> HIDE DEF from, changed, still
<1>6. /\ l3 \in ListPage /\ l3.at = "count" /\ l3.page = list.page /\ l3.limit = list.limit
      /\ l3.asked = list.asked /\ l3.allowed = list.allowed /\ l3.from = from
      /\ l3.data = list.data /\ l3.changed = changed /\ l3.midnight = list.midnight
  BY <1>2, <1>3 DEF ListPage
<1> HIDE DEF l3
<1>7. /\ walk' \in ListWalk /\ walk'.still = still /\ walk'.page = walk.page
      /\ walk'.over = walk.over /\ walk'.limit = walk.limit /\ walk'.asked = walk.asked
      /\ walk'.from = walk.from /\ walk'.times = walk.times /\ walk'.tied = walk.tied
  BY <1>1, <1>2, <1>3 DEF ListWalk
<1>8. ListingTypes'
  BY <1>1, <1>6, <1>7 DEF ListingInv, ListingTypes
<1>9. ListFits'
  BY <1>1, <1>6, <1>7 DEF ListingInv, ListFits
<1>10. ReadOrChanged'
  <2>1. "visible" \in list'.changed \/ list'.allowed \subseteq visible'
    BY <1>1, <1>4, <1>6 DEF ListingInv, ReadOrChanged
  <2>2. free /\ ~fails => from >= today - HistoryDays - (IF list.midnight THEN 1 ELSE 0)
    BY <1>2, <1>3, <1>4
  <2>3. QED
    BY <2>1, <2>2, <1>1, <1>4, <1>6 DEF ReadOrChanged
<1>11. list.data = <<>> /\ list'.data = <<>>
  BY <1>1, <1>6 DEF ListingInv, DataAllowed
<1>12. DataAllowed'
  BY <1>11 DEF DataAllowed
<1>13. Wanted' = Wanted /\ Earliest' = Earliest
  BY <1>1, <1>7 DEF Wanted, There, Earliest
<1>14. StillRead'
  BY <1>1, <1>4, <1>5, <1>6, <1>7, <1>13 DEF ListingInv, StillRead
<1>15. OverAtEnd'
  BY <1>1, <1>7 DEF ListingInv, ListFits, OverAtEnd
<1>16. Progress'
  <2> SUFFICES ASSUME walk.page > 0, walk.still, ~walk.tied
               PROVE  Covers(ShownTimes, Far)'
    BY <1>4, <1>7 DEF Progress
  <2>1. ShownTimes' = ShownTimes /\ Far' = Far
    BY <1>1, <1>6, <1>7, <1>11 DEF ShownTimes, With, Far, Clamp
  <2>2. Covers(ShownTimes, Far)
    BY DEF ListingInv, Progress
  <2>3. QED
    BY <2>1, <2>2, <1>1, <1>13 DEF Covers
<1>17. QED
  BY <1>8, <1>9, <1>10, <1>12, <1>14, <1>15, <1>16 DEF ListingInv

\* What a request matches is what the walk is about, if nothing has changed.
LEMMA MatchingWanted ==
  ASSUME ListingInv, list.at \in {"count", "page"}, walk.still
  PROVE  Matching = Wanted
<1>1. /\ list.allowed = visible /\ list.from = Earliest /\ list.asked = walk.asked
  BY DEF ListingInv, StillRead, ListFits
<1>2. /\ today - HistoryDays \in Int /\ walk.from \in Int
      /\ \A r \in Rows : row[r].day \in Int
  BY ListingConstants DEF ListingInv, ListingTypes, ListWalk
<1>3. \A r \in Rows : row[r].day >= list.from <=>
        row[r].day >= walk.from /\ (~free \/ row[r].day >= today - HistoryDays)
  BY <1>1, <1>2 DEF Earliest
<1>4. \A r \in Rows : row[r].account \in Effective <=>
        row[r].account \in visible /\ (walk.asked = {} \/ row[r].account \in walk.asked)
  BY <1>1 DEF Effective
<1>5. QED
  BY <1>3, <1>4 DEF Matching, Wanted

LEMMA CountRowsKeeps ==
  ASSUME ListingInv, CountRows PROVE ListingInv'
<1> DEFINE l1 == [list EXCEPT !.at = "page"]
           l2 == [l1 EXCEPT !.total = Cardinality(Matching)]
<1>1. list' = l2 /\ list.at = "count" /\ UNCHANGED <<today, row, visible, free, walk>>
  BY DEF CountRows
<1>2. Cardinality(Matching) \in Nat
  BY SomeRowsFinite DEF Matching
<1>3. list \in ListPage
  BY DEF ListingInv, ListingTypes
<1>4. /\ l2 \in ListPage /\ l2.at = "page" /\ l2.page = list.page /\ l2.limit = list.limit
      /\ l2.asked = list.asked /\ l2.allowed = list.allowed /\ l2.from = list.from
      /\ l2.data = list.data /\ l2.changed = list.changed /\ l2.midnight = list.midnight
      /\ l2.total = Cardinality(Matching)
  BY <1>2, <1>3 DEF ListPage
<1> HIDE DEF l2
<1>5. ListingTypes' /\ ListFits' /\ ReadOrChanged' /\ DataAllowed' /\ OverAtEnd'
  BY <1>1, <1>4
  DEF ListingInv, ListingTypes, ListFits, ReadOrChanged, DataAllowed, OverAtEnd, Clamp
<1>6. Wanted' = Wanted /\ Earliest' = Earliest
  BY <1>1 DEF Wanted, There, Earliest
<1>7. StillRead'
  <2>1. walk.still => Matching = Wanted
    BY <1>1, MatchingWanted
  <2>2. QED
    BY <2>1, <1>1, <1>4, <1>6 DEF ListingInv, StillRead
<1>8. Progress'
  <2>1. ShownTimes' = ShownTimes /\ Far' = Far
    BY <1>1, <1>4 DEF ShownTimes, With, Far, Clamp
  <2>2. QED
    BY <2>1, <1>1, <1>6 DEF ListingInv, Progress, Covers
<1>9. QED
  BY <1>5, <1>7, <1>8 DEF ListingInv

LEMMA UpTo == \A n \in Nat : IsFiniteSet(1..n) /\ Cardinality(1..n) = n
<1> SUFFICES ASSUME NEW n \in Nat PROVE IsFiniteSet(1..n) /\ Cardinality(1..n) = n
  OBVIOUS
<1>1. IsFiniteSet(1..n) /\ Cardinality(1..n) = IF 1 > n THEN 0 ELSE n - 1 + 1
  BY FS_Interval
<1>2. QED
  BY <1>1

\* The rows with k places before the others in one order have them in any other.
Sorted(W, n, s, day) ==
  /\ IsFiniteSet(W) /\ n \in Nat /\ n = Cardinality(W)
  /\ s \in [1..n -> W] /\ \A i, j \in 1..n : i # j => s[i] # s[j]
  /\ \A x \in W : day[x] \in Int
  /\ \A i, j \in 1..n : i < j => day[s[i]] >= day[s[j]]

Foremost(W, day, D, m) ==
  /\ D \subseteq W /\ m \in Nat /\ m <= Cardinality(W) /\ Cardinality(D) = m
  /\ \A x \in D, y \in W \ D : day[x] > day[y]

LEMMA SamePrefix ==
  ASSUME NEW W, NEW n, NEW s, NEW day, NEW D, NEW m,
         Sorted(W, n, s, day), Foremost(W, day, D, m)
  PROVE  /\ \A j \in 1..n : s[j] \in D <=> j <= m
         /\ \A x \in W : \E j \in 1..n : x = s[j]
<1>0. /\ IsFiniteSet(W) /\ n \in Nat /\ n = Cardinality(W)
      /\ s \in [1..n -> W] /\ D \in SUBSET W /\ m \in 0..n /\ Cardinality(D) = m
      /\ \A i, j \in 1..n : i # j => s[i] # s[j]
  BY DEF Sorted, Foremost
<1> DEFINE I == {i \in 1..n : s[i] \in D}
<1>1. IsFiniteSet(1..n) /\ Cardinality(1..n) = n
  BY <1>0, UpTo
<1>2. s \in Injection(1..n, W)
  BY <1>0 DEF Injection, IsInjective
<1>3. s \in Surjection(1..n, W)
  BY <1>0, <1>1, <1>2, FS_Injection
<1>4. \A x \in W : \E j \in 1..n : x = s[j]
  BY <1>3 DEF Surjection
<1>5. \A i \in I, j \in 1..n : j < i => j \in I
  <2> SUFFICES ASSUME NEW i \in I, NEW j \in 1..n, j < i, s[j] \notin D
               PROVE  FALSE
    OBVIOUS
  <2>1. s[i] \in D /\ s[j] \in W \ D /\ i \in 1..n
    BY <1>0
  <2>2. /\ day[s[i]] > day[s[j]] /\ day[s[j]] >= day[s[i]]
        /\ day[s[i]] \in Int /\ day[s[j]] \in Int
    BY <1>0, <2>1 DEF Sorted, Foremost
  <2>3. QED
    BY <2>2
<1>6. IsFiniteSet(I) /\ IsFiniteSet(D)
  BY <1>0, <1>1, FS_Subset
<1>7. Cardinality(I) = m
  <2> DEFINE g == [i \in I |-> s[i]]
  <2>1. g \in [I -> D] /\ \A i, j \in I : g[i] = g[j] => i = j
    BY <1>0
  <2>2. \A x \in D : \E i \in I : g[i] = x
    BY <1>0, <1>4
  <2>3. g \in Bijection(I, D)
    BY <2>1, <2>2 DEF Bijection, Injection, Surjection, IsInjective
  <2>4. ExistsBijection(I, D)
    BY <2>3 DEF ExistsBijection
  <2>5. QED
    BY <2>4, <1>0, <1>6, FS_Bijection
<1>8. \A i \in I : i <= m
  <2> SUFFICES ASSUME NEW i \in I PROVE i <= m
    OBVIOUS
  <2>1. 1..i \subseteq I /\ i \in Nat
    BY <1>0, <1>5
  <2>2. IsFiniteSet(1..i) /\ Cardinality(1..i) = i
    BY <2>1, UpTo
  <2>3. Cardinality(1..i) <= Cardinality(I)
    BY <2>1, <1>6, FS_Subset
  <2>4. QED
    BY <2>2, <2>3, <1>7
<1>9. I = 1..m
  <2>1. IsFiniteSet(1..m) /\ Cardinality(1..m) = m
    BY <1>0, UpTo
  <2>2. I \subseteq 1..m
    BY <1>0, <1>8
  <2>3. Cardinality(1..m) = Cardinality(I)
    BY <2>1, <1>7
  <2>4. QED
    BY <2>1, <2>2, <2>3, FS_Subset
<1>10. QED
  BY <1>0, <1>4, <1>9

LEMMA MinOfTwo == \A a, b \in Int : Min({a, b}) = IF a <= b THEN a ELSE b
<1> SUFFICES ASSUME NEW a \in Int, NEW b \in Int PROVE Min({a, b}) = IF a <= b THEN a ELSE b
  OBVIOUS
<1>1. \E x \in {a, b} : \A y \in {a, b} : x <= y
  OBVIOUS
<1>2. Min({a, b}) \in {a, b} /\ \A y \in {a, b} : Min({a, b}) <= y
  BY <1>1 DEF Min
<1>3. QED
  BY <1>2

\* The database's answer: its length and where the page is in it.
LEMMA OrderFacts ==
  ASSUME ListingInv, NEW s \in Orders
  PROVE  /\ IsFiniteSet(Matching) /\ Matching \subseteq Rows /\ Len(s) = Cardinality(Matching)
         /\ Len(s) \in Nat /\ s \in [1..Len(s) -> Matching]
         /\ \A i, j \in 1..Len(s) : i # j => s[i] # s[j]
         /\ \A i, j \in 1..Len(s) : i < j => row[s[i]].day >= row[s[j]].day
<1>1. Matching \subseteq Rows
  BY DEF Matching
<1>2. IsFiniteSet(Matching) /\ Cardinality(Matching) \in Nat
  BY <1>1, SomeRowsFinite
<1>3. s \in [1..Cardinality(Matching) -> Matching]
  BY DEF Orders
<1>4. Len(s) = Cardinality(Matching)
  BY <1>2, <1>3
<1>5. QED
  BY <1>1, <1>2, <1>3, <1>4 DEF Orders

\* From the first k rows of an order and the page behind them come the first k + limit.
FirstOnce(W, n, s, times, k) ==
  /\ \A r \in Rows : times[r] \in {0, 1} /\ (times[r] = 1 => r \in W)
  /\ \A j \in 1..n : times[s[j]] = 1 <=> j <= k

PageOf(n, s, k, last, data) ==
  /\ k \in Nat /\ last \in 0..n /\ (k > last => last = n)
  /\ data \in Seq(Rows) /\ Len(data) = IF k < last THEN last - k ELSE 0
  /\ \A i \in 1..Len(data) : data[i] = s[k + i]

LEMMA PageCovers ==
  ASSUME NEW W \in SUBSET Rows, NEW n, NEW s, NEW day, Sorted(W, n, s, day),
         NEW times \in [Rows -> Nat], NEW k, NEW last, NEW data,
         FirstOnce(W, n, s, times, k), PageOf(n, s, k, last, data),
         \A x \in W : \E j \in 1..n : x = s[j]
  PROVE  FirstOnce(W, n, s, With(times, data), last)
<1>0. /\ IsFiniteSet(W) /\ n \in Nat /\ s \in [1..n -> W] /\ k \in Nat /\ last \in 0..n
      /\ \A i, j \in 1..n : i # j => s[i] # s[j]
      /\ data \in Seq(Rows) /\ Len(data) = IF k < last THEN last - k ELSE 0
      /\ \A i \in 1..Len(data) : data[i] = s[k + i]
      /\ \A r \in Rows : times[r] \in {0, 1} /\ (times[r] = 1 => r \in W)
      /\ \A j \in 1..n : times[s[j]] = 1 <=> j <= k
      /\ k > last => last = n
  BY DEF Sorted, FirstOnce, PageOf
<1> USE <1>0
<1> DEFINE at(r) == {i \in DOMAIN data : data[i] = r}
<1>1. DOMAIN data = 1..Len(data) /\ Len(data) \in Nat
  OBVIOUS
<1>2. Cardinality({}) = 0 /\ \A i : Cardinality({i}) = 1
  BY FS_EmptySet, FS_Singleton
<1>3. \A r \in Rows : With(times, data)[r] = times[r] + Cardinality(at(r))
  BY DEF With
<1>4. \A r \in Rows \ W : times[r] = 0 /\ Cardinality(at(r)) = 0
  <2> SUFFICES ASSUME NEW r \in Rows \ W PROVE times[r] = 0 /\ Cardinality(at(r)) = 0
    OBVIOUS
  <2>1. times[r] = 0
    OBVIOUS
  <2>2. \A i \in 1..Len(data) : k + i \in 1..n
    OBVIOUS
  <2>3. \A i \in DOMAIN data : data[i] \in W
    BY <1>1, <2>2
  <2>4. at(r) = {}
    BY <2>3
  <2>5. QED
    BY <2>1, <2>4, <1>2
<1>5. \A j \in 1..n : j <= k => times[s[j]] = 1 /\ Cardinality(at(s[j])) = 0
  <2> SUFFICES ASSUME NEW j \in 1..n, j <= k PROVE times[s[j]] = 1 /\ Cardinality(at(s[j])) = 0
    OBVIOUS
  <2>1. \A i \in 1..Len(data) : k + i \in 1..n /\ k + i # j
    OBVIOUS
  <2>2. \A i \in DOMAIN data : data[i] # s[j]
    BY <1>1, <2>1
  <2>3. at(s[j]) = {}
    BY <2>2
  <2>4. QED
    BY <2>3, <1>2
<1>6. \A j \in 1..n : k < j /\ j <= last => times[s[j]] = 0 /\ Cardinality(at(s[j])) = 1
  <2> SUFFICES ASSUME NEW j \in 1..n, k < j, j <= last PROVE times[s[j]] = 0 /\ Cardinality(at(s[j])) = 1
    OBVIOUS
  <2>1. j - k \in DOMAIN data /\ data[j - k] = s[j]
    BY <1>1
  <2>2. \A i \in DOMAIN data : data[i] = s[j] => i = j - k
    <3> SUFFICES ASSUME NEW i \in DOMAIN data, data[i] = s[j] PROVE i = j - k
      OBVIOUS
    <3>1. i \in Int /\ k + i \in 1..n /\ data[i] = s[k + i]
      BY <1>1
    <3>2. k + i = j
      BY <3>1
    <3>3. QED
      BY <3>1, <3>2
  <2>3. times[s[j]] = 0
    OBVIOUS
  <2>4. at(s[j]) = {j - k}
    BY <2>1, <2>2
  <2>5. QED
    BY <2>3, <2>4, <1>2
<1>7. \A j \in 1..n : k < j /\ last < j => times[s[j]] = 0 /\ Cardinality(at(s[j])) = 0
  <2> SUFFICES ASSUME NEW j \in 1..n, k < j, last < j PROVE times[s[j]] = 0 /\ Cardinality(at(s[j])) = 0
    OBVIOUS
  <2>1. \A i \in 1..Len(data) : k + i \in 1..n /\ k + i # j
    OBVIOUS
  <2>2. \A i \in DOMAIN data : data[i] # s[j]
    BY <1>1, <2>1
  <2>3. times[s[j]] = 0
    OBVIOUS
  <2>4. at(s[j]) = {}
    BY <2>2
  <2>5. QED
    BY <2>3, <2>4, <1>2
<1> HIDE DEF at
<1>8. \A j \in 1..n : /\ j <= k => times[s[j]] + Cardinality(at(s[j])) = 1
                      /\ k < j /\ j <= last => times[s[j]] + Cardinality(at(s[j])) = 1
                      /\ k < j /\ last < j => times[s[j]] + Cardinality(at(s[j])) = 0
  BY <1>5, <1>6, <1>7
<1>9. \A r \in Rows \ W : times[r] + Cardinality(at(r)) = 0
  BY <1>4
<1>10. \A j \in 1..n : /\ With(times, data)[s[j]] \in {0, 1}
                       /\ With(times, data)[s[j]] = 1 <=> j <= last
  BY <1>3, <1>8
<1>11. \A r \in Rows : With(times, data)[r] \in {0, 1} /\ (With(times, data)[r] = 1 => r \in W)
  <2> SUFFICES ASSUME NEW r \in Rows
               PROVE  With(times, data)[r] \in {0, 1} /\ (With(times, data)[r] = 1 => r \in W)
    OBVIOUS
  <2>1. CASE r \in W
    <3>1. PICK j \in 1..n : r = s[j]
      BY <2>1
    <3>2. With(times, data)[s[j]] \in {0, 1}
      BY <1>10
    <3>3. QED
      BY <3>1, <3>2, <2>1
  <2>2. CASE r \notin W
    BY <2>2, <1>3, <1>9
  <2>3. QED
    BY <2>1, <2>2
<1>12. QED
  BY <1>10, <1>11 DEF FirstOnce

\* The page: its rows, where they begin and where they end.
PageStart == Skip(list.page, list.limit)
PageEnd(s) == Min({PageStart + list.limit, Len(s)})
PageData(s, cut) == SubSeq(s, PageStart + 1, IF cut THEN PageEnd(s) - 1 ELSE PageEnd(s))

LEMMA PageFacts ==
  ASSUME ListingInv, list.at = "page", NEW s \in Orders, NEW cut \in BOOLEAN,
         cut => PageEnd(s) > PageStart
  PROVE  /\ PageStart \in Nat /\ PageEnd(s) \in 0..Len(s) /\ list.limit \in Nat \ {0}
         /\ PageEnd(s) = IF PageStart + list.limit <= Len(s) THEN PageStart + list.limit ELSE Len(s)
         /\ PageData(s, cut) \in Seq(Rows)
         /\ \A i \in DOMAIN PageData(s, cut) : PageData(s, cut)[i] \in Matching
         /\ ~cut => PageOf(Len(s), s, PageStart, PageEnd(s), PageData(s, cut))
<1>0. PICK k, last, data : k = PageStart /\ last = PageEnd(s) /\ data = PageData(s, cut)
  OBVIOUS
<1>1. list.page \in Nat /\ list.page >= 1 /\ list.limit \in Nat \ {0}
  BY DEF ListingInv, ListingTypes, ListPage, ListFits
<1>2. k \in Nat
  BY <1>0, <1>1 DEF PageStart, Skip
<1>3. /\ Len(s) \in Nat /\ s \in [1..Len(s) -> Matching] /\ Matching \subseteq Rows
  BY OrderFacts
<1>4. last = IF k + list.limit <= Len(s) THEN k + list.limit ELSE Len(s)
  BY <1>0, <1>1, <1>2, <1>3, MinOfTwo DEF PageEnd
<1>5. last \in 0..Len(s)
  <2>1. k + list.limit \in Nat
    BY <1>1, <1>2
  <2>2. Len(s) \in Nat
    BY <1>3
  <2>3. CASE k + list.limit <= Len(s)
    BY <2>1, <2>2, <2>3, <1>4
  <2>4. CASE ~(k + list.limit <= Len(s))
    <3>1. last = Len(s)
      BY <2>4, <1>4
    <3>2. QED
      BY <3>1, <2>2
  <2>5. QED
    BY <2>3, <2>4
<1>6. PICK m : m = IF cut THEN last - 1 ELSE last
  OBVIOUS
<1>7. m \in Int /\ m <= Len(s)
  BY <1>3, <1>5, <1>6
<1>8. \A i \in (k + 1)..m : s[i] \in Matching /\ s[i] \in Rows
  BY <1>2, <1>3, <1>7
<1>9. /\ SubSeq(s, k + 1, m) \in Seq(Matching)
      /\ Len(SubSeq(s, k + 1, m)) = IF k + 1 <= m THEN m - (k + 1) + 1 ELSE 0
      /\ \A i \in 1..(m - (k + 1) + 1) : SubSeq(s, k + 1, m)[i] = s[(k + 1) + i - 1]
  BY <1>2, <1>7, <1>8, SubSeqProperties
<1>10. data = SubSeq(s, k + 1, m)
  BY <1>0, <1>6 DEF PageData
<1>11. data \in Seq(Rows) /\ \A i \in DOMAIN data : data[i] \in Matching
  <2>1. data \in Seq(Matching)
    BY <1>9, <1>10
  <2>2. data \in Seq(Rows)
    BY <1>3, <2>1, SeqMonotonic
  <2>3. DOMAIN data = 1..Len(data)
    BY <2>1
  <2>4. \A i \in DOMAIN data : data[i] \in Matching
    BY <2>1, <2>3, ElementOfSeq
  <2>5. QED
    BY <2>2, <2>4
<1>12. ASSUME ~cut
       PROVE  /\ Len(data) = IF k < last THEN last - k ELSE 0
              /\ \A i \in 1..Len(data) : data[i] = s[k + i]
  <2>1. m = last
    BY <1>6, <1>12
  <2>2. Len(data) = IF k < last THEN last - k ELSE 0
    <3>1. Len(data) = IF k + 1 <= last THEN last - (k + 1) + 1 ELSE 0
      BY <2>1, <1>9, <1>10
    <3>2. k \in Int /\ last \in Int
      BY <1>2, <1>5
    <3>3. (k + 1 <= last <=> k < last) /\ last - (k + 1) + 1 = last - k
      BY <3>2
    <3>4. QED
      BY <3>1, <3>3
  <2>3. ASSUME NEW i \in 1..Len(data) PROVE data[i] = s[k + i]
    <3>1. i \in 1..(m - (k + 1) + 1) /\ (k + 1) + i - 1 = k + i
      BY <2>1, <2>2, <2>3, <1>2, <1>5
    <3>2. QED
      BY <3>1, <1>9, <1>10
  <2>4. QED
    BY <2>2, <2>3
<1>13. k > last => last = Len(s)
  <2>1. k <= k + list.limit
    BY <1>1, <1>2
  <2>2. k + list.limit <= Len(s) => ~(k > last)
    BY <2>1, <1>1, <1>2, <1>4
  <2>3. QED
    BY <2>2, <1>4
<1>14. ~cut => PageOf(Len(s), s, k, last, data)
  BY <1>2, <1>5, <1>11, <1>12, <1>13 DEF PageOf
<1>15. QED
  BY <1>0, <1>1, <1>2, <1>4, <1>5, <1>11, <1>14

LEMMA ReadRowsKeeps ==
  ASSUME ListingInv, list.at = "page", NEW s \in Orders, NEW cut \in BOOLEAN, ReadRows(s, cut)
  PROVE  ListingInv'
<1>1. PICK k, last, data : k = PageStart /\ last = PageEnd(s) /\ data = PageData(s, cut)
  OBVIOUS
<1>2. cut => last > k
  BY <1>1 DEF ReadRows, PageStart, PageEnd
<1>3. /\ k \in Nat /\ last \in 0..Len(s) /\ list.limit \in Nat \ {0}
      /\ last = IF k + list.limit <= Len(s) THEN k + list.limit ELSE Len(s)
      /\ data \in Seq(Rows) /\ \A i \in DOMAIN data : data[i] \in Matching
      /\ ~cut => PageOf(Len(s), s, k, last, data)
  BY <1>1, <1>2, PageFacts
<1> DEFINE between == last \in 1..(Len(s) - 1) /\ row[s[last]].day = row[s[last + 1]].day
           tied == walk.tied \/ between
           still == walk.still /\ ~cut
           l1 == [list EXCEPT !.at = "done"]
           l2 == [l1 EXCEPT !.data = data]
           w1 == [walk EXCEPT !.tied = tied]
           w2 == [w1 EXCEPT !.still = still]
<1>4. list' = l2 /\ walk' = w2 /\ UNCHANGED <<today, row, visible, free>>
  BY <1>1 DEF ReadRows, PageStart, PageEnd, PageData
<1>5. list \in ListPage /\ walk \in ListWalk
  BY DEF ListingInv, ListingTypes
<1>6. tied \in BOOLEAN /\ still \in BOOLEAN
  BY <1>5 DEF ListWalk
<1>7. /\ (still => walk.still /\ ~cut) /\ (~tied => ~walk.tied /\ ~between)
  OBVIOUS
<1> HIDE DEF tied, still, between
<1>8. /\ l2 \in ListPage /\ l2.at = "done" /\ l2.page = list.page /\ l2.limit = list.limit
      /\ l2.asked = list.asked /\ l2.allowed = list.allowed /\ l2.from = list.from
      /\ l2.data = data /\ l2.changed = list.changed /\ l2.midnight = list.midnight
      /\ l2.total = list.total
  BY <1>3, <1>5 DEF ListPage
<1>9. /\ w2 \in ListWalk /\ w2.still = still /\ w2.tied = tied /\ w2.page = walk.page
      /\ w2.over = walk.over /\ w2.limit = walk.limit /\ w2.asked = walk.asked
      /\ w2.from = walk.from /\ w2.times = walk.times
  BY <1>5, <1>6 DEF ListWalk
<1> HIDE DEF l2, w2
<1>10. ListingTypes' /\ ListFits'
  BY <1>4, <1>8, <1>9 DEF ListingInv, ListingTypes, ListFits, Clamp
<1>11. ReadOrChanged'
  BY <1>4, <1>8, <1>9 DEF ListingInv, ReadOrChanged
<1>12. DataAllowed'
  <2>1. \A r \in Matching : row[r].account \in list.allowed /\ row[r].day >= list.from
    BY DEF Matching, Effective
  <2>2. QED
    BY <2>1, <1>4, <1>3, <1>8 DEF DataAllowed
<1>13. Wanted' = Wanted /\ walk.page > 0 /\ ~walk.over
  BY <1>4, <1>9 DEF Wanted, There, ListingInv, ListFits
<1>14. StillRead'
  BY <1>4, <1>7, <1>8, <1>9, <1>13 DEF ListingInv, StillRead
<1>15. OverAtEnd'
  BY <1>4, <1>9, <1>13 DEF OverAtEnd
<1>16. Progress'
  <2> SUFFICES ASSUME still, ~tied PROVE Covers(ShownTimes, Far)'
    BY <1>4, <1>9 DEF Progress
  <2> DEFINE n == Len(s)
             times == walk.times
             L == list.limit
             had == {r \in Rows : times[r] = 1}
             day == [r \in Rows |-> row[r].day]
  <2>1. walk.still /\ ~cut /\ ~walk.tied /\ ~between
    BY <1>7
  <2>2. Matching = Wanted
    BY <2>1, MatchingWanted
  <2>3. /\ Wanted \subseteq Rows /\ IsFiniteSet(Wanted) /\ n \in Nat /\ n = Cardinality(Wanted)
        /\ s \in [1..n -> Wanted] /\ \A i, j \in 1..n : i # j => s[i] # s[j]
        /\ \A i, j \in 1..n : i < j => row[s[i]].day >= row[s[j]].day
    BY <2>2, OrderFacts
  <2>4. /\ times \in [Rows -> Nat] /\ \A r \in Rows : row[r].day \in Int
    BY <1>5 DEF ListWalk, ListingInv, ListingTypes
  <2>5. list.data = <<>> /\ list.at # "done" /\ list.page = walk.page /\ L = Clamp(walk.limit)
    BY DEF ListingInv, DataAllowed, ListFits
  <2>6. ShownTimes = times /\ Far = k
    BY <1>1, <2>4, <2>5, WithNothing DEF ShownTimes, Far, PageStart, Skip
  <2>7. Covers(times, k)
    BY <2>1, <2>6, <1>13 DEF ListingInv, Progress
  <2>8. PICK m : m = IF k <= n THEN k ELSE n
    OBVIOUS
  <2>9. m \in 0..n /\ Cardinality(had) = m /\ had \subseteq Wanted
    BY <1>3, <2>3, <2>7, <2>8 DEF Covers
  <2>10. \A x \in had, y \in Wanted \ had : day[x] > day[y]
    BY <2>3, <2>7 DEF Covers
  <2>11. /\ \A x \in Wanted : day[x] \in Int
         /\ \A i, j \in 1..n : i < j => day[s[i]] >= day[s[j]]
    BY <2>3, <2>4
  <2> HIDE DEF day
  <2>12. Sorted(Wanted, n, s, day) /\ Foremost(Wanted, day, had, m)
    <3> HIDE DEF n, had
    <3>1. Sorted(Wanted, n, s, day)
      BY <2>3, <2>11 DEF Sorted
    <3>2. Foremost(Wanted, day, had, m)
      BY <2>3, <2>9, <2>10 DEF Foremost
    <3>3. QED
      BY <3>1, <3>2
  <2>13. /\ \A j \in 1..n : s[j] \in had <=> j <= m
         /\ \A x \in Wanted : \E j \in 1..n : x = s[j]
    <3> HIDE DEF had, n
    <3>1. QED
      BY <2>12, SamePrefix
  <2>14. \A j \in 1..n : times[s[j]] = 1 <=> j <= k
    BY <1>3, <2>3, <2>8, <2>13
  <2>15. FirstOnce(Wanted, n, s, times, k)
    BY <2>7, <2>9, <2>14 DEF Covers, FirstOnce
  <2>16. FirstOnce(Wanted, n, s, With(times, data), last)
    <3>1. PageOf(n, s, k, last, data)
      BY <1>3, <2>1
    <3>2. Wanted \in SUBSET Rows
      BY <2>3
    <3> HIDE DEF n, times
    <3>3. QED
      BY <2>4, <2>12, <2>13, <2>15, <3>1, <3>2, PageCovers
  <2>17. ShownTimes' = With(times, data)
    BY <1>4, <1>8, <1>9 DEF ShownTimes, With
  <2>18. PICK T : T = With(times, data)
    OBVIOUS
  <2>19. Far' = k + L
    <3>1. Far' = walk.page * L
      BY <1>4, <1>8, <1>9, <2>5 DEF Far, Clamp
    <3>2. k = (walk.page - 1) * L /\ walk.page \in Nat /\ L \in Nat
      BY <1>1, <1>3, <1>5, <2>5 DEF PageStart, Skip, ListWalk
    <3>3. \A p, l \in Nat : p * l = (p - 1) * l + l
      OBVIOUS
    <3>4. walk.page * L = (walk.page - 1) * L + L
      BY <3>3, <3>2
    <3>5. QED
      BY <3>1, <3>2, <3>4
  <2> DEFINE has == {r \in Rows : T[r] = 1}
  <2>20. has = {s[j] : j \in 1..last}
    <3>1. \A r \in has : \E j \in 1..last : r = s[j]
      <4> SUFFICES ASSUME NEW r \in has PROVE \E j \in 1..last : r = s[j]
        OBVIOUS
      <4>1. r \in Wanted
        BY <2>16, <2>18 DEF FirstOnce
      <4>2. PICK j \in 1..n : r = s[j]
        BY <4>1, <2>13
      <4>3. j <= last
        BY <4>2, <2>16, <2>18 DEF FirstOnce
      <4>4. QED
        BY <4>2, <4>3, <1>3
    <3>2. \A j \in 1..last : s[j] \in has
      BY <1>3, <2>3, <2>16, <2>18 DEF FirstOnce
    <3>3. QED
      BY <3>1, <3>2
  <2>21. Cardinality(has) = last
    <3> DEFINE g == [j \in 1..last |-> s[j]]
    <3>1. g \in [1..last -> has] /\ \A i, j \in 1..last : g[i] = g[j] => i = j
      BY <1>3, <2>3, <2>20
    <3>2. \A x \in has : \E j \in 1..last : g[j] = x
      BY <2>20
    <3>3. ExistsBijection(1..last, has)
      BY <3>1, <3>2 DEF ExistsBijection, Bijection, Injection, Surjection, IsInjective
    <3>4. IsFiniteSet(1..last) /\ Cardinality(1..last) = last
      BY <1>3, UpTo
    <3>5. QED
      BY <3>3, <3>4, FS_Bijection
  <2>22. \A r \in has, q \in Wanted \ has : row[r].day > row[q].day
    <3> SUFFICES ASSUME NEW r \in has, NEW q \in Wanted \ has PROVE row[r].day > row[q].day
      OBVIOUS
    <3>1. PICK i \in 1..last : r = s[i]
      BY <2>20
    <3>2. PICK j \in 1..n : q = s[j]
      BY <2>13
    <3>3. j > last
      <4>1. j <= last => s[j] \in has
        BY <2>20
      <4>2. last \in Int /\ j \in Int
        BY <1>3, <2>3
      <4>3. QED
        BY <3>2, <4>1, <4>2
    <3>4. last \in 1..(n - 1) /\ last + 1 \in 1..n /\ i \in 1..n
      BY <3>1, <3>2, <3>3, <1>3, <2>3
    <3>5. row[s[last]].day # row[s[last + 1]].day
      BY <3>4, <2>1 DEF between
    <3>6. /\ row[s[last]].day \in Int /\ row[s[last + 1]].day \in Int
          /\ row[s[i]].day \in Int /\ row[s[j]].day \in Int
      <4>1. last \in 1..n /\ j \in 1..n
        BY <3>2, <3>4, <2>3
      <4>2. s[last] \in Rows /\ s[last + 1] \in Rows /\ s[i] \in Rows /\ s[j] \in Rows
        BY <4>1, <3>4, <2>3
      <4>3. QED
        BY <4>2, <2>4
    <3>7. row[s[last]].day > row[s[last + 1]].day
      <4>1. last \in 1..n /\ last + 1 \in 1..n /\ last < last + 1
        BY <3>4, <2>3
      <4>2. row[s[last]].day >= row[s[last + 1]].day
        BY <4>1, <2>3
      <4>3. QED
        BY <4>2, <3>5, <3>6
    <3>8. row[s[i]].day >= row[s[last]].day
      BY <3>1, <3>4, <3>6, <2>3
    <3>9. row[s[last + 1]].day >= row[s[j]].day
      BY <3>2, <3>3, <3>4, <3>6, <2>3
    <3>10. QED
      BY <3>1, <3>2, <3>6, <3>8, <3>9, <3>7
  <2>23. has \subseteq Wanted /\ \A r \in Rows : T[r] \in {0, 1}
    BY <2>16, <2>18 DEF FirstOnce
  <2>24. Cardinality(has) = IF k + L <= Cardinality(Wanted) THEN k + L ELSE Cardinality(Wanted)
    BY <1>3, <2>3, <2>21
  <2>25. Covers(T, k + L)
    BY <2>22, <2>23, <2>24 DEF Covers
  <2>26. ShownTimes' = T /\ row' = row
    BY <1>4, <2>17, <2>18
  <2>27. QED
    BY <2>19, <2>25, <2>26, <1>13 DEF Covers
<1>17. QED
  BY <1>10, <1>11, <1>12, <1>14, <1>15, <1>16 DEF ListingInv

LEMMA TakePageKeeps ==
  ASSUME ListingInv, TakePage PROVE ListingInv'
<1> DEFINE over == list.page >= TotalPages(list.total, list.limit)
           w1 == [walk EXCEPT !.times = ShownTimes]
           w2 == [w1 EXCEPT !.page = walk.page + 1]
           w3 == [w2 EXCEPT !.over = over]
<1>1. list \in ListPage /\ walk \in ListWalk
  BY DEF ListingInv, ListingTypes
<1>2. /\ list.at = "done" /\ list' = NoList /\ UNCHANGED <<today, row, visible, free>>
      /\ walk' = w3
  BY DEF TakePage, ShownTimes, With
<1>3. ShownTimes \in [Rows -> Nat]
  <2> SUFFICES ASSUME NEW r \in Rows
               PROVE  walk.times[r] + Cardinality({i \in DOMAIN list.data : list.data[i] = r}) \in Nat
    BY DEF ShownTimes, With
  <2>1. DOMAIN list.data = 1..Len(list.data) /\ Len(list.data) \in Nat /\ walk.times[r] \in Nat
    BY <1>1 DEF ListPage, ListWalk
  <2>2. IsFiniteSet(DOMAIN list.data)
    BY <2>1, UpTo
  <2>3. Cardinality({i \in DOMAIN list.data : list.data[i] = r}) \in Nat
    BY <2>2, FS_Subset, FS_CardinalityType
  <2>4. QED
    BY <2>1, <2>3
<1>4. /\ over \in BOOLEAN /\ walk.page \in Nat /\ walk.page > 0 /\ list.page = walk.page
      /\ list.limit = Clamp(walk.limit) /\ list.limit \in Nat \ {0} /\ list.total \in Nat
  BY <1>1, <1>2 DEF ListPage, ListWalk, ListingInv, ListFits
<1>5. over => list.page * list.limit >= list.total
  <2> DEFINE a == list.total + list.limit - 1
  <2>1. a \in Nat
    BY <1>4
  <2>2. ASSUME over PROVE a < list.page * list.limit + list.limit
    <3>1. a \div list.limit <= list.page
      BY <2>2, <1>4, <2>1 DEF TotalPages
    <3> HIDE DEF a
    <3>2. QED
      BY <3>1, <1>4, <2>1
  <2>3. list.page * list.limit \in Nat
    BY <1>4
  <2>4. QED
    BY <2>2, <2>3, <1>4
<1> HIDE DEF over
<1>6. /\ w3 \in ListWalk /\ w3.times = ShownTimes /\ w3.page = walk.page + 1 /\ w3.over = over
      /\ w3.still = walk.still /\ w3.tied = walk.tied /\ w3.limit = walk.limit
      /\ w3.asked = walk.asked /\ w3.from = walk.from
  <2>1. walk.page + 1 \in Nat
    BY <1>4
  <2>2. /\ w2 \in ListWalk /\ w2.times = ShownTimes /\ w2.page = walk.page + 1
        /\ w2.still = walk.still /\ w2.tied = walk.tied /\ w2.limit = walk.limit
        /\ w2.asked = walk.asked /\ w2.from = walk.from
    <3> DEFINE times == ShownTimes
               page == walk.page + 1
    <3> HIDE DEF times, page
    <3>1. QED
      BY <2>1, <1>1, <1>3 DEF ListWalk, times, page
  <2> HIDE DEF w2
  <2>3. QED
    BY <2>2, <1>4 DEF ListWalk
<1> HIDE DEF w3
<1>7. ListingTypes'
  BY <1>2, <1>4, <1>6, NoListOK DEF ListingInv, ListingTypes
<1>8. ListFits' /\ ReadOrChanged' /\ DataAllowed' /\ StillRead'
  BY <1>2, NoListOK DEF ListFits, ReadOrChanged, DataAllowed, StillRead
<1>9. Wanted' = Wanted
  BY <1>2, <1>6 DEF Wanted, There
<1>10. Far' = Far /\ Far = list.page * list.limit
  <2>1. Far = walk.page * Clamp(walk.limit)
    BY <1>2 DEF Far
  <2>2. Far' = walk.page * Clamp(walk.limit)
    <3>1. list'.at # "done" /\ walk'.page = walk.page + 1 /\ walk'.limit = walk.limit
      BY <1>2, <1>6, NoListOK
    <3>2. Clamp(walk'.limit) = Clamp(walk.limit)
      BY <3>1
    <3>3. Far' = (walk'.page - 1) * Clamp(walk'.limit)
      BY <3>1 DEF Far, Clamp
    <3>4. walk'.page - 1 = walk.page
      BY <3>1, <1>4
    <3>5. QED
      BY <3>2, <3>3, <3>4, Zenon
  <2>3. QED
    BY <2>1, <2>2, <1>4
<1>11. ShownTimes' = ShownTimes
  <2>1. ShownTimes' = With(walk'.times, list'.data)
    BY DEF ShownTimes, With
  <2>2. QED
    BY <2>1, <1>2, <1>3, <1>6, NoListOK, WithNothing
<1>12. Progress'
  <2>1. walk.page > 0 /\ walk.still /\ ~walk.tied => Covers(ShownTimes, Far)
    BY DEF ListingInv, Progress
  <2>2. Covers(ShownTimes, Far) => Covers(ShownTimes, Far)'
    BY <1>2, <1>9, <1>10, <1>11 DEF Covers
  <2>3. QED
    BY <2>1, <2>2, <1>2, <1>4, <1>6 DEF Progress
<1>13. OverAtEnd'
  <2>1. walk.still => list.total = Cardinality(Wanted)
    BY <1>2 DEF ListingInv, StillRead
  <2>2. QED
    BY <2>1, <1>2, <1>5, <1>6, <1>9, <1>10 DEF OverAtEnd
<1>14. QED
  BY <1>7, <1>8, <1>12, <1>13 DEF ListingInv

\* What the pages show is allowed, and a walk to the end has shown each row once.
LEMMA PagesHold == ListingInv => PagesFaithful
<1> SUFFICES ASSUME ListingInv PROVE PagesFaithful
  OBVIOUS
<1>1. OnlyAllowed
  <2> SUFFICES ASSUME NEW i \in DOMAIN list.data
               PROVE  LET r == list.data[i] IN
                      /\ row[r].account \in visible \/ "visible" \in list.changed
                      /\ free => \/ row[r].day >= today - HistoryDays
                                                    - (IF list.midnight THEN 1 ELSE 0)
                                 \/ "plan" \in list.changed
    BY DEF OnlyAllowed, Shown
  <2> DEFINE r == list.data[i]
  <2>1. list.at = "done" /\ list.data # <<>>
    BY DEF ListingInv, DataAllowed
  <2>2. row[r].account \in list.allowed /\ row[r].day >= list.from
    BY DEF ListingInv, DataAllowed
  <2>3. /\ r \in Rows /\ row[r].day \in Int /\ list.from \in Int /\ today - HistoryDays \in Int
    BY ListingConstants DEF ListingInv, ListingTypes, ListPage
  <2>4. /\ "visible" \in list.changed \/ list.allowed \subseteq visible
        /\ \/ "plan" \in list.changed \/ ~free
           \/ list.from >= today - HistoryDays - (IF list.midnight THEN 1 ELSE 0)
    BY <2>1 DEF ListingInv, ReadOrChanged
  <2>5. QED
    BY <2>2, <2>3, <2>4
<1>2. WalkComplete
  <2> SUFFICES ASSUME walk.over, walk.still, ~walk.tied, NEW r \in Rows
               PROVE  walk.times[r] = IF r \in Wanted THEN 1 ELSE 0
    BY DEF WalkComplete, Wanted
  <2>1. walk.page > 0 /\ list.at = "idle"
    BY DEF ListingInv, ListingTypes, ListFits
  <2>2. list.data = <<>> /\ walk.times \in [Rows -> Nat]
    BY <2>1 DEF ListingInv, ListingTypes, ListWalk, DataAllowed
  <2>3. ShownTimes = walk.times
    BY <2>2, WithNothing DEF ShownTimes
  <2>4. Covers(walk.times, Far) /\ Far >= Cardinality(Wanted)
    BY <2>1, <2>3 DEF ListingInv, Progress, OverAtEnd
  <2> DEFINE had == {q \in Rows : walk.times[q] = 1}
  <2>5. IsFiniteSet(Wanted) /\ Cardinality(Wanted) \in Nat
    BY SomeRowsFinite DEF Wanted
  <2>6. Far \in Int
    <3>1. walk.page \in Nat /\ Clamp(walk.limit) \in Nat
      BY ClampOK DEF ListingInv, ListingTypes, ListWalk
    <3>2. QED
      BY <3>1, <2>1 DEF Far
  <2>7. /\ had \subseteq Wanted /\ Cardinality(had) = Cardinality(Wanted)
        /\ walk.times[r] \in {0, 1}
    BY <2>4, <2>5, <2>6 DEF Covers
  <2>8. had = Wanted
    BY <2>5, <2>7, FS_Subset
  <2>9. QED
    BY <2>7, <2>8
<1>3. QED
  BY <1>1, <1>2 DEF PagesFaithful

LEMMA ListingStep == ListingInv /\ [ListingNext]_listingVars => ListingInv'
<1> SUFFICES ASSUME ListingInv, [ListingNext]_listingVars PROVE ListingInv'
  OBVIOUS
<1>1. CASE UNCHANGED listingVars
  <2>1. UNCHANGED <<today, row, visible, free, list, walk>>
    BY <1>1 DEF listingVars
  <2>2. Wanted' = Wanted /\ Earliest' = Earliest /\ ShownTimes' = ShownTimes /\ Far' = Far
    BY <2>1 DEF Wanted, There, Earliest, ShownTimes, With, Far, Clamp
  <2>3. Covers(ShownTimes, Far)' <=> Covers(ShownTimes, Far)
    BY <2>1, <2>2 DEF Covers
  <2>4. QED
    BY <2>1, <2>2, <2>3
    DEF ListingInv, ListingTypes, ListFits, ReadOrChanged, DataAllowed, StillRead, Progress,
        OverAtEnd, Clamp
<1>2. CASE \E r \in Rows : ChangeRow(r)
  BY <1>2, ChangeRowKeeps
<1>3. CASE \E a \in ListAccounts : ChangeVisible(a)
  BY <1>3, ChangeVisibleKeeps
<1>4. CASE \E limit \in Limits, accounts \in SUBSET ListAccounts, from \in Froms :
             BeginWalk(limit, accounts, from)
  BY <1>4, BeginWalkKeeps
<1>5. CASE \E fails \in BOOLEAN : ReadPlan(fails)
  BY <1>5, ReadPlanKeeps
<1>6. CASE list.at = "page" /\ \E s \in Orders, cut \in BOOLEAN : ReadRows(s, cut)
  BY <1>6, ReadRowsKeeps
<1>7. CASE \E seen \in SUBSET visible : ReadVisible(seen)
  BY <1>7, ReadVisibleKeeps
<1>8. QED
  BY <1>1, <1>2, <1>3, <1>4, <1>5, <1>6, <1>7, ChangePlanKeeps, NextDayKeeps, CountRowsKeeps,
     TakePageKeeps, GiveUpKeeps
  DEF ListingNext

\* A page shows only what the user may see, and a walk through all pages shows each
\* row that matches once, up to what the properties say of changes and of rows of one
\* day, for any rows, accounts, limits and days
\* (internal/handlers/transaction.go:402-468, internal/repository/transaction.go:394-448).
THEOREM PagesShowAll == ListingSpec => []PagesFaithful
  BY ListingStart, ListingStep, PagesHold, PTL DEF ListingSpec

-----------------------------------------------------------------------------
(* What identifies a movement: StatementFiles.                             *)

(* Induction: a set of numbers has a least element.                        *)
LEMMA Least ==
  ASSUME NEW S, S \subseteq Nat, S # {}
  PROVE  \E n \in S : \A m \in S : n <= m
<1> DEFINE R == OpToRel(<, Nat)
<1>1. IsWellFoundedOn(R, Nat)
  BY NatLessThanWellFounded
<1>2. \E n \in S : \A m \in S : ~ (<<m, n>> \in R)
  <2> HIDE DEF R
  <2> QED BY <1>1, WFMin
<1>3. \A m, n \in S : m < n => <<m, n>> \in R
  BY DEF OpToRel
<1> HIDE DEF R
<1>4. PICK n \in S : \A m \in S : <<m, n>> \notin R
  BY <1>2
<1>5. \A m \in S : ~ (m < n)
  BY <1>3, <1>4
<1>6. \A m \in S : n <= m
  BY <1>5
<1> QED BY <1>4, <1>6

\* So a set of numbers that holds 0, and n + 1 with n, holds them all.
LEMMA Climb ==
  ASSUME NEW S, 0 \in S, \A n \in Nat : n \in S => n + 1 \in S
  PROVE  \A n \in Nat : n \in S
<1> SUFFICES ASSUME Nat \ S # {} PROVE FALSE
  OBVIOUS
<1>1. PICK n \in Nat \ S : \A m \in Nat \ S : n <= m
  <2> DEFINE M == Nat \ S
  <2>1. M \subseteq Nat /\ M # {}
    OBVIOUS
  <2> HIDE DEF M
  <2>2. \E n \in M : \A m \in M : n <= m
    BY <2>1, Least
  <2> QED BY <2>2 DEF M
<1>2. n # 0 /\ n - 1 \in Nat
  BY <1>1
<1>3. n - 1 \in S
  BY <1>1, <1>2
<1> QED BY <1>1, <1>2, <1>3
LEMMA TopOf ==
  ASSUME NEW n \in Nat, NEW t \in SUBSET (1..n), n \in t
  PROVE  Max(t) = n
<1>1. n \in t /\ \A y \in t : n >= y
  OBVIOUS
<1>2. \A x \in t : (\A y \in t : x >= y) => x = n
  OBVIOUS
<1> QED BY <1>1, <1>2 DEF Max


\* A fold is a function on the sets of positions, defined by their greatest element:
\* it exists for every sequence.
RowsOf(base, s) ==
  CHOOSE g : g = [t \in SUBSET DOMAIN s |->
                    IF t = {} THEN base ELSE BulkUpsert(g[t \ {Max(t)}], s[Max(t)])]

LEMMA RowsExist ==
  ASSUME NEW S0, NEW s \in Seq(S0), NEW base
  PROVE  RowsOf(base, s) = [t \in SUBSET DOMAIN s |->
           IF t = {} THEN base ELSE BulkUpsert(RowsOf(base, s)[t \ {Max(t)}], s[Max(t)])]
<1> DEFINE Goes(g, n) == g = [t \in SUBSET (1..n) |->
                    IF t = {} THEN base ELSE BulkUpsert(g[t \ {Max(t)}], s[Max(t)])]
           S == {n \in Nat : \E g : Goes(g, n)}
<1>1. 0 \in S
  <2> DEFINE g == [t \in SUBSET (1..0) |-> base]
  <2>1. Goes(g, 0)
    OBVIOUS
  <2> QED BY <2>1
<1>2. ASSUME NEW n \in Nat, n \in S PROVE n + 1 \in S
  <2>1. PICK g : Goes(g, n)
    BY <1>2
  <2> DEFINE h == [t \in SUBSET (1..n+1) |->
                     IF n + 1 \in t THEN BulkUpsert(g[t \ {n + 1}], s[n + 1]) ELSE g[t]]
  <2>2. ASSUME NEW t \in SUBSET (1..n+1)
        PROVE  h[t] = IF t = {} THEN base ELSE BulkUpsert(h[t \ {Max(t)}], s[Max(t)])
    <3>1. CASE n + 1 \in t
      <4>1. Max(t) = n + 1
        BY <3>1, TopOf
      <4>2. t \ {n + 1} \in SUBSET (1..n+1) /\ n + 1 \notin t \ {n + 1}
        OBVIOUS
      <4>3. h[t \ {n + 1}] = g[t \ {n + 1}]
        BY <4>2
      <4> QED BY <3>1, <4>1, <4>3
    <3>2. CASE n + 1 \notin t
      <4>1. t \in SUBSET (1..n)
        BY <3>2
      <4>2. h[t] = g[t]
        BY <3>2
      <4>3. t \ {Max(t)} \in SUBSET (1..n+1) /\ n + 1 \notin t \ {Max(t)}
        BY <3>2
      <4>4. h[t \ {Max(t)}] = g[t \ {Max(t)}]
        BY <4>3
      <4>5. g[t] = IF t = {} THEN base ELSE BulkUpsert(g[t \ {Max(t)}], s[Max(t)])
        BY <2>1, <4>1
      <4> QED BY <4>2, <4>4, <4>5
    <3> QED BY <3>1, <3>2
  <2>3. Goes(h, n + 1)
    BY <2>2
  <2> HIDE DEF Goes, h
  <2>4. n + 1 \in Nat
    OBVIOUS
  <2> QED BY <2>3, <2>4
<1>3. \A n \in Nat : n \in S
  <2> HIDE DEF S
  <2> QED BY <1>1, <1>2, Climb
<1>4. PICK g : Goes(g, Len(s))
  <2>1. Len(s) \in S
    BY <1>3, LenProperties
  <2> QED BY <2>1
<1>5. DOMAIN s = 1..Len(s)
  OBVIOUS
<1> QED BY <1>4, <1>5 DEF RowsOf


\* BulkUpsert over a file: nothing goes, nothing comes but the file's transactions,
\* each of these is there by its FITID, and no FITID is there twice.
LEMMA Upserted ==
  ASSUME NEW S0, NEW s \in Seq(S0), NEW base,
         \A r1, r2 \in base : r1.fitid = r2.fitid => r1 = r2
  PROVE  LET R == FoldLeft(BulkUpsert, base, s) IN
         /\ base \subseteq R
         /\ R \subseteq base \cup {s[i] : i \in DOMAIN s}
         /\ \A i \in DOMAIN s : \E r \in R : r.fitid = s[i].fitid
         /\ \A r1, r2 \in R : r1.fitid = r2.fitid => r1 = r2
<1> DEFINE g == RowsOf(base, s)
           Good(R, n) ==
             /\ base \subseteq R
             /\ R \subseteq base \cup {s[i] : i \in 1..n}
             /\ \A i \in 1..n : \E r \in R : r.fitid = s[i].fitid
             /\ \A r1, r2 \in R : r1.fitid = r2.fitid => r1 = r2
           S == {n \in Nat : n <= Len(s) => Good(g[1..n], n)}
<1>1. FoldLeft(BulkUpsert, base, s) = g[DOMAIN s] /\ DOMAIN s = 1..Len(s) /\ Len(s) \in Nat
  BY LenProperties DEF FoldLeft, MapThenFoldSet, RowsOf
<1>2. \A t \in SUBSET (1..Len(s)) :
        g[t] = IF t = {} THEN base ELSE BulkUpsert(g[t \ {Max(t)}], s[Max(t)])
  <2>1. g = [t \in SUBSET DOMAIN s |->
              IF t = {} THEN base ELSE BulkUpsert(g[t \ {Max(t)}], s[Max(t)])]
    BY Zenon, RowsExist
  <2> HIDE DEF g
  <2> QED BY <1>1, <2>1
<1> HIDE DEF g
<1>3. 0 \in S
  <2>1. 1..0 = {}
    OBVIOUS
  <2>2. g[{}] = base
    BY <1>2
  <2> QED BY <2>1, <2>2
<1>4. ASSUME NEW n \in Nat, n \in S PROVE n + 1 \in S
  <2> SUFFICES ASSUME n + 1 <= Len(s) PROVE Good(g[1..n+1], n + 1)
    OBVIOUS
  <2>1. Max(1..n+1) = n + 1
    BY TopOf
  <2>2. (1..n+1) \ {n + 1} = 1..n /\ 1..n+1 = 1..n \cup {n + 1}
    OBVIOUS
  <2>3. 1..n+1 \in SUBSET (1..Len(s)) /\ n + 1 \in 1..n+1
    BY <1>1
  <2>4. g[1..n+1] = BulkUpsert(g[1..n], s[n + 1])
    BY <1>2, <2>1, <2>2, <2>3
  <2>5. Good(g[1..n], n)
    BY <1>1, <1>4
  <2> DEFINE Q == g[1..n]  P == g[1..n+1]  t == s[n + 1]
  <2>6. CASE \E r \in Q : r.fitid = t.fitid
    <3>1. P = Q
      BY <2>4, <2>6 DEF BulkUpsert
    <3> QED BY <2>2, <2>5, <2>6, <3>1
  <2>7. CASE ~ \E r \in Q : r.fitid = t.fitid
    <3>1. P = Q \cup {t}
      BY <2>4, <2>7 DEF BulkUpsert
    <3> QED BY <2>2, <2>5, <2>7, <3>1
  <2> QED BY <2>6, <2>7
<1>5. \A n \in Nat : n \in S
  <2> HIDE DEF S
  <2> QED BY <1>3, <1>4, Climb
<1> QED BY <1>1, <1>5

\* One step of the loop over the lines, and the loop as a function, as above.
WithLine(layout, lines, l) ==
  IF l.is = "movement" /\ (l.amount # 0 \/ layout = "ofx") THEN Append(lines, l) ELSE lines

LinesOf(layout, s) ==
  CHOOSE g : g = [t \in SUBSET DOMAIN s |->
                    IF t = {} THEN <<>> ELSE WithLine(layout, g[t \ {Max(t)}], s[Max(t)])]

LEMMA LinesExist ==
  ASSUME NEW S0, NEW s \in Seq(S0), NEW layout
  PROVE  LinesOf(layout, s) = [t \in SUBSET DOMAIN s |->
           IF t = {} THEN <<>> ELSE WithLine(layout, LinesOf(layout, s)[t \ {Max(t)}], s[Max(t)])]
<1> DEFINE Goes(g, n) == g = [t \in SUBSET (1..n) |->
                    IF t = {} THEN <<>> ELSE WithLine(layout, g[t \ {Max(t)}], s[Max(t)])]
           S == {n \in Nat : \E g : Goes(g, n)}
<1>1. 0 \in S
  <2> DEFINE g == [t \in SUBSET (1..0) |-> <<>>]
  <2>1. Goes(g, 0)
    OBVIOUS
  <2> QED BY <2>1
<1>2. ASSUME NEW n \in Nat, n \in S PROVE n + 1 \in S
  <2>1. PICK g : Goes(g, n)
    BY <1>2
  <2> DEFINE h == [t \in SUBSET (1..n+1) |->
                     IF n + 1 \in t THEN WithLine(layout, g[t \ {n + 1}], s[n + 1]) ELSE g[t]]
  <2>2. ASSUME NEW t \in SUBSET (1..n+1)
        PROVE  h[t] = IF t = {} THEN <<>> ELSE WithLine(layout, h[t \ {Max(t)}], s[Max(t)])
    <3>1. CASE n + 1 \in t
      <4>1. Max(t) = n + 1
        BY <3>1, TopOf
      <4>2. t \ {n + 1} \in SUBSET (1..n+1) /\ n + 1 \notin t \ {n + 1}
        OBVIOUS
      <4>3. h[t \ {n + 1}] = g[t \ {n + 1}]
        BY <4>2
      <4> QED BY <3>1, <4>1, <4>3
    <3>2. CASE n + 1 \notin t
      <4>1. t \in SUBSET (1..n)
        BY <3>2
      <4>2. h[t] = g[t]
        BY <3>2
      <4>3. t \ {Max(t)} \in SUBSET (1..n+1) /\ n + 1 \notin t \ {Max(t)}
        BY <3>2
      <4>4. h[t \ {Max(t)}] = g[t \ {Max(t)}]
        BY <4>3
      <4>5. g[t] = IF t = {} THEN <<>> ELSE WithLine(layout, g[t \ {Max(t)}], s[Max(t)])
        BY <2>1, <4>1
      <4> QED BY <4>2, <4>4, <4>5
    <3> QED BY <3>1, <3>2
  <2>3. Goes(h, n + 1)
    BY <2>2
  <2> HIDE DEF Goes, h
  <2>4. n + 1 \in Nat
    OBVIOUS
  <2> QED BY <2>3, <2>4
<1>3. \A n \in Nat : n \in S
  <2> HIDE DEF S
  <2> QED BY <1>1, <1>2, Climb
<1>4. PICK g : Goes(g, Len(s))
  <2>1. Len(s) \in S
    BY <1>3, LenProperties
  <2> QED BY <2>1
<1>5. DOMAIN s = 1..Len(s)
  OBVIOUS
<1> QED BY <1>4, <1>5 DEF LinesOf


LEMMA TableFolds ==
  ASSUME NEW file, NEW layout
  PROVE  TableOf(layout, file) = LinesOf(layout, BelowHeader(file))[DOMAIN BelowHeader(file)]
BY DEF TableOf, FoldLeft, MapThenFoldSet, LinesOf, WithLine

\* The loop line by line.
LEMMA LinesRun ==
  ASSUME NEW layout, NEW S0, NEW s \in Seq(S0)
  PROVE  \E h : /\ h[0] = <<>>
                /\ \A n \in 1..Len(s) : h[n] = WithLine(layout, h[n - 1], s[n])
                /\ LinesOf(layout, s)[DOMAIN s] = h[Len(s)]
<1> DEFINE g == LinesOf(layout, s)
           h == [n \in 0..Len(s) |-> g[1..n]]
<1>1. DOMAIN s = 1..Len(s) /\ Len(s) \in Nat
  BY LenProperties
<1>3. \A t \in SUBSET (1..Len(s)) :
        g[t] = IF t = {} THEN <<>> ELSE WithLine(layout, g[t \ {Max(t)}], s[Max(t)])
  <2>1. g = [t \in SUBSET DOMAIN s |->
              IF t = {} THEN <<>> ELSE WithLine(layout, g[t \ {Max(t)}], s[Max(t)])]
    BY Zenon, LinesExist
  <2> HIDE DEF g
  <2> QED BY <1>1, <2>1
<1> HIDE DEF g
<1>4. h[0] = <<>>
  <2>1. 1..0 = {} /\ 0 \in 0..Len(s)
    BY <1>1
  <2>2. g[{}] = <<>>
    BY <1>3
  <2> QED BY <2>1, <2>2
<1>5. ASSUME NEW n \in 1..Len(s) PROVE h[n] = WithLine(layout, h[n - 1], s[n])
  <2>1. Max(1..n) = n
    BY <1>1, TopOf
  <2>2. (1..n) \ {n} = 1..(n - 1) /\ 1..n \in SUBSET (1..Len(s)) /\ n \in 1..n
    BY <1>1
  <2>3. g[1..n] = WithLine(layout, g[1..(n - 1)], s[n])
    BY <1>3, <2>1, <2>2
  <2>4. n \in 0..Len(s) /\ n - 1 \in 0..Len(s)
    BY <1>1
  <2> QED BY <2>3, <2>4
<1>6. g[DOMAIN s] = h[Len(s)]
  BY <1>1
<1>7. g = LinesOf(layout, s)
  BY DEF g
<1>8. LinesOf(layout, s)[DOMAIN s] = h[Len(s)]
  BY <1>6, <1>7
<1>9. /\ h[0] = <<>>
      /\ \A n \in 1..Len(s) : h[n] = WithLine(layout, h[n - 1], s[n])
      /\ LinesOf(layout, s)[DOMAIN s] = h[Len(s)]
  BY <1>4, <1>5, <1>8
<1> HIDE DEF h
<1> WITNESS h
<1> QED BY <1>9

\* The lines of the table stand behind o lines that do not count, and nothing behind
\* them counts.
Around(layout, s, lines, o) ==
  /\ Len(s) >= o + Len(lines)
  /\ \A i \in 1..o : ~ (s[i].is = "movement" /\ (s[i].amount # 0 \/ layout = "ofx"))
  /\ \A i \in 1..Len(lines) : s[o + i] = lines[i] /\ lines[i].is = "movement" /\ lines[i].amount # 0
  /\ \A i \in (o + Len(lines) + 1)..Len(s) : s[i].is # "movement"

\* Then the loop keeps these lines.
LEMMA LinesAre ==
  ASSUME NEW layout, NEW S0, NEW s \in Seq(S0),
         NEW S1, NEW lines \in Seq(S1), NEW o \in Nat
  PROVE  Around(layout, s, lines, o) => LinesOf(layout, s)[DOMAIN s] = lines
<1>1. PICK h : /\ h[0] = <<>>
               /\ \A n \in 1..Len(s) : h[n] = WithLine(layout, h[n - 1], s[n])
               /\ LinesOf(layout, s)[DOMAIN s] = h[Len(s)]
  BY Zenon, LinesRun
<1> HAVE Around(layout, s, lines, o)
<1> USE DEF Around
<1> DEFINE L == Len(lines)
           Part(n) == IF n <= o THEN <<>> ELSE IF n <= o + L THEN SubSeq(lines, 1, n - o) ELSE lines
<1> DEFINE S == {n \in Nat : n <= Len(s) => h[n] = Part(n)}
<1>2. Len(s) \in Nat /\ L \in Nat
  BY LenProperties
<1>3. /\ SubSeq(lines, 1, L) = lines /\ (L = 0 => lines = <<>>) /\ SubSeq(lines, 1, 0) = <<>>
      /\ \A k \in 1..L : SubSeq(lines, 1, k) = Append(SubSeq(lines, 1, k - 1), lines[k])
  <2>1. SubSeq(lines, 1, L) = lines /\ (L = 0 => lines = <<>>)
    BY SubSeqFull, EmptySeq
  <2>2. SubSeq(lines, 1, 0) = <<>>
    BY <1>2, SubSeqEmpty
  <2>3. ASSUME NEW k \in 1..L PROVE SubSeq(lines, 1, k) = Append(SubSeq(lines, 1, k - 1), lines[k])
    BY <1>2, SubSeqRecursiveSecond
  <2> QED BY <2>1, <2>2, <2>3
<1>4. /\ Len(s) >= o + L
      /\ \A i \in 1..L : s[o + i] = lines[i] /\ lines[i].is = "movement" /\ lines[i].amount # 0
      /\ \A i \in (o + L + 1)..Len(s) : s[i].is # "movement"
  OBVIOUS
<1> HIDE DEF L
<1>5. 0 \in S
  BY <1>1
<1>6. ASSUME NEW n \in Nat, n \in S PROVE n + 1 \in S
  <2> SUFFICES ASSUME n + 1 <= Len(s) PROVE h[n + 1] = Part(n + 1)
    OBVIOUS
  <2>1. h[n + 1] = WithLine(layout, h[n], s[n + 1])
    <3>1. n + 1 \in 1..Len(s) /\ (n + 1) - 1 = n
      BY <1>2
    <3> QED BY <1>1, <3>1
  <2>2. h[n] = Part(n)
    BY <1>2, <1>6
  <2>3. CASE n + 1 <= o
    <3>1. n + 1 \in 1..o
      BY <2>3
    <3>2. h[n + 1] = h[n]
      BY <2>1, <3>1 DEF WithLine
    <3> QED BY <2>2, <2>3, <3>2
  <2>4. CASE o < n + 1 /\ n + 1 <= o + L
    <3>1. n + 1 - o \in 1..L /\ o + (n + 1 - o) = n + 1 /\ (n + 1 - o) - 1 = n - o
      BY <1>2, <2>4
    <3>2. s[n + 1] = lines[n + 1 - o] /\ s[n + 1].is = "movement" /\ s[n + 1].amount # 0
      BY <1>4, <3>1
    <3>3. h[n + 1] = Append(Part(n), lines[n + 1 - o])
      BY <2>1, <2>2, <3>2 DEF WithLine
    <3>4. Part(n) = SubSeq(lines, 1, n - o)
      <4>1. CASE n = o
        BY <1>3, <4>1
      <4>2. CASE n # o
        BY <1>2, <2>4, <4>2
      <4> QED BY <4>1, <4>2
    <3>5. SubSeq(lines, 1, n + 1 - o) = Append(SubSeq(lines, 1, n - o), lines[n + 1 - o])
      BY <1>3, <3>1
    <3>6. Part(n + 1) = SubSeq(lines, 1, n + 1 - o)
      BY <2>4
    <3> QED BY <3>3, <3>4, <3>5, <3>6
  <2>5. CASE n + 1 > o + L
    <3>1. n + 1 \in (o + L + 1)..Len(s)
      BY <1>2, <2>5
    <3>2. h[n + 1] = Part(n)
      BY <1>4, <2>1, <2>2, <3>1 DEF WithLine
    <3>3. Part(n + 1) = lines
      BY <1>2, <2>5
    <3>4. Part(n) = lines
      <4>1. CASE n > o + L
        BY <1>2, <4>1
      <4>2. CASE n = o + L
        <5>1. n - o = L
          BY <1>2, <4>2
        <5>2. CASE L = 0
          BY <1>3, <4>2, <5>2
        <5>3. CASE L # 0
          BY <1>2, <1>3, <4>2, <5>1, <5>3
        <5> QED BY <5>2, <5>3
      <4> QED BY <1>2, <2>5, <4>1, <4>2
    <3> QED BY <3>2, <3>3, <3>4
  <2> QED BY <1>2, <2>3, <2>4, <2>5
<1>7. \A n \in Nat : n \in S
  <2> HIDE DEF S
  <2> QED BY <1>5, <1>6, Climb
<1>8. Part(Len(s)) = lines
  <2>1. CASE Len(s) > o + L
    BY <1>2, <2>1
  <2>2. CASE Len(s) = o + L
    <3>1. Len(s) - o = L
      BY <1>2, <2>2
    <3>2. CASE L = 0
      BY <1>3, <2>2, <3>2
    <3>3. CASE L # 0
      BY <1>2, <1>3, <2>2, <3>1, <3>3
    <3> QED BY <3>2, <3>3
  <2> QED BY <1>2, <1>4, <2>1, <2>2
<1> HIDE DEF Part
<1>9. h[Len(s)] = Part(Len(s))
  BY <1>2, <1>7
<1> QED BY <1>1, <1>8, <1>9
\* A set of positions that has all those before it is a beginning.
LEMMA Prefix ==
  ASSUME NEW L \in Nat, NEW P, P \subseteq 1..L,
         \A i \in P : \A j \in 1..L : j <= i => j \in P
  PROVE  Cardinality(P) \in Nat /\ P = 1..Cardinality(P)
<1> DEFINE M == (1..L+1) \ P
<1>1. M \subseteq Nat /\ M # {}
  OBVIOUS
<1>2. PICK m \in M : \A k \in M : m <= k
  <2> HIDE DEF M
  <2> QED BY <1>1, Least
<1>3. m \in Nat /\ m >= 1 /\ m <= L + 1 /\ m \notin P
  OBVIOUS
<1>4. P = 1..(m - 1)
  <2>1. ASSUME NEW i \in 1..(m - 1) PROVE i \in P
    <3>1. i \in 1..L+1 /\ ~ (m <= i)
      BY <1>3
    <3> QED BY <1>2, <3>1
  <2>2. ASSUME NEW i \in P PROVE i \in 1..(m - 1)
    <3>1. i \in 1..L /\ (m <= i /\ m <= L => m \in P)
      BY <1>3
    <3> QED BY <1>3, <3>1
  <2> QED BY <2>1, <2>2
<1>5. Cardinality(1..(m - 1)) = m - 1
  BY <1>3, FS_Interval
<1> QED BY <1>3, <1>4, <1>5

\* Moving positions leaves their number.
LEMMA Shifted ==
  ASSUME NEW A, NEW B, NEW c \in Int, A \subseteq Int, IsFiniteSet(A),
         \A j \in A : j + c \in B, \A k \in B : k \in Int /\ k - c \in A
  PROVE  Cardinality(B) = Cardinality(A) /\ IsFiniteSet(B)
<1> DEFINE f == [j \in A |-> j + c]
<1>1. f \in [A -> B]
  OBVIOUS
<1>2. \A i, j \in A : f[i] = f[j] => i = j
  OBVIOUS
<1>3. \A k \in B : \E j \in A : f[j] = k
  <2> TAKE k \in B
  <2>1. k - c \in A /\ f[k - c] = k
    OBVIOUS
  <2> QED BY <2>1
<1> HIDE DEF f
<1>4. ExistsBijection(A, B)
  BY <1>1, <1>2, <1>3 DEF ExistsBijection, Bijection, Injection, Surjection, IsInjective
<1> QED BY <1>4, FS_Bijection

\* The bank's movements: in the order of their days, each with its own identifier.
LedgerOK ==
  /\ ledger \in Seq(Movement) /\ Len(ledger) <= MaxMovements
  /\ \A i \in DOMAIN ledger : ledger[i].amount # 0 /\ ledger[i].id <= Len(ledger)
  /\ \A i, j \in DOMAIN ledger : i <= j => ledger[i].day <= ledger[j].day
  /\ \A i, j \in DOMAIN ledger : ledger[i].id = ledger[j].id => i = j

\* How many movements a file has, and how many come before.
Size(from, to) == Cardinality(Within(from, to))
Before(from) == Cardinality(Within(0, from - 1))

\* The movements up to a day are the first ones.
LEMMA DaysUpTo ==
  ASSUME LedgerOK, NEW e \in Int
  PROVE  /\ Cardinality(Within(0, e)) \in Nat /\ Cardinality(Within(0, e)) <= Len(ledger)
         /\ Within(0, e) = 1..Cardinality(Within(0, e))
         /\ Within(0, e) = {j \in DOMAIN ledger : ledger[j].day <= e}
<1> DEFINE P == {j \in DOMAIN ledger : ledger[j].day <= e}
<1>1. /\ DOMAIN ledger = 1..Len(ledger) /\ Len(ledger) \in Nat
      /\ \A i \in DOMAIN ledger : ledger[i].day \in Nat
      /\ \A i, j \in DOMAIN ledger : i <= j => ledger[i].day <= ledger[j].day
  <2>1. ledger \in Seq(Movement)
    BY DEF LedgerOK
  <2>2. DOMAIN ledger = 1..Len(ledger) /\ Len(ledger) \in Nat
    BY <2>1, LenProperties
  <2>3. ASSUME NEW i \in DOMAIN ledger PROVE ledger[i].day \in Nat
    <3>1. ledger[i] \in Movement
      BY <2>1, <2>2, ElementOfSeq
    <3> QED BY <3>1, FilesAssumption DEF Movement
  <2> QED BY <2>2, <2>3 DEF LedgerOK
<1>2. P \subseteq 1..Len(ledger) /\ \A i \in P : \A j \in 1..Len(ledger) : j <= i => j \in P
  <2> SUFFICES ASSUME NEW i \in P, NEW j \in 1..Len(ledger), j <= i PROVE ledger[j].day <= e
    BY <1>1
  <2>1. ledger[j].day <= ledger[i].day /\ ledger[j].day \in Nat /\ ledger[i].day \in Nat /\ ledger[i].day <= e
    BY <1>1
  <2> QED BY <2>1
<1>3. Within(0, e) = P
  BY <1>1 DEF Within
<1>0. P \subseteq 1..Len(ledger) /\ Len(ledger) \in Nat
  BY <1>1
<1> HIDE DEF P
<1>4. Cardinality(P) \in Nat /\ P = 1..Cardinality(P)
  BY <1>1, <1>2, Prefix
<1>5. Cardinality(P) <= Len(ledger)
  <2>1. CASE Cardinality(P) = 0
    BY <1>1, <2>1
  <2>2. CASE Cardinality(P) # 0
    <3>1. Cardinality(P) \in P
      BY <1>4, <2>2
    <3>2. Cardinality(P) \in 1..Len(ledger)
      BY <1>0, <3>1
    <3> QED BY <1>0, <1>4, <3>2
  <2> QED BY <2>1, <2>2
<1> QED BY <1>3, <1>4, <1>5 DEF P

\* A file has whole days: the movements behind those before it.
LEMMA WholeDays ==
  ASSUME LedgerOK, NEW from \in Days, NEW to \in Days, from <= to
  PROVE  /\ Size(from, to) \in Nat /\ Before(from) \in Nat
         /\ Before(from) + Size(from, to) <= Len(ledger)
         /\ Within(from, to) = (Before(from) + 1)..(Before(from) + Size(from, to))
         /\ \A j \in DOMAIN ledger : j <= Before(from) <=> ledger[j].day < from
<1> DEFINE a == Before(from)
           b == Cardinality(Within(0, to))
<1>1. from \in Nat /\ to \in Nat /\ from - 1 \in Int /\ to \in Int
  BY FilesAssumption
<1>2. /\ a \in Nat /\ a <= Len(ledger) /\ Within(0, from - 1) = 1..a
      /\ Within(0, from - 1) = {j \in DOMAIN ledger : ledger[j].day <= from - 1}
  BY <1>1, DaysUpTo DEF Before
<1>3. /\ b \in Nat /\ b <= Len(ledger) /\ Within(0, to) = 1..b
      /\ Within(0, to) = {j \in DOMAIN ledger : ledger[j].day <= to}
  BY <1>1, DaysUpTo
<1>4. /\ DOMAIN ledger = 1..Len(ledger) /\ Len(ledger) \in Nat
      /\ \A i \in DOMAIN ledger : ledger[i].day \in Nat
  <2>1. ledger \in Seq(Movement)
    BY DEF LedgerOK
  <2>2. DOMAIN ledger = 1..Len(ledger) /\ Len(ledger) \in Nat
    BY <2>1, LenProperties
  <2>3. ASSUME NEW i \in DOMAIN ledger PROVE ledger[i].day \in Nat
    <3>1. ledger[i] \in Movement
      BY <2>1, <2>2, ElementOfSeq
    <3> QED BY <3>1, FilesAssumption DEF Movement
  <2> QED BY <2>2, <2>3
<1> HIDE DEF a, b
<1>5. \A j \in DOMAIN ledger : (j <= a <=> ledger[j].day < from) /\ (j <= b <=> ledger[j].day <= to)
  <2> TAKE j \in DOMAIN ledger
  <2>1. (j <= a <=> j \in 1..a) /\ (j <= b <=> j \in 1..b)
    BY <1>2, <1>3, <1>4
  <2>2. (j \in 1..a <=> ledger[j].day <= from - 1) /\ (j \in 1..b <=> ledger[j].day <= to)
    BY <1>2, <1>3
  <2>3. ledger[j].day <= from - 1 <=> ledger[j].day < from
    BY <1>1, <1>4
  <2> QED BY <2>1, <2>2, <2>3
<1>6. Within(from, to) = (a + 1)..b
  <2>1. ASSUME NEW j \in DOMAIN ledger PROVE ledger[j].day \in from..to <=> j \in (a + 1)..b
    <3>1. ledger[j].day \in Nat /\ j \in Nat
      BY <1>4
    <3>2. (ledger[j].day >= from <=> ~ (j <= a)) /\ (ledger[j].day <= to <=> j <= b)
      BY <1>1, <1>5, <3>1
    <3> QED BY <1>1, <1>2, <1>3, <3>1, <3>2
  <2>2. (a + 1)..b \subseteq DOMAIN ledger
    BY <1>2, <1>3, <1>4
  <2> QED BY <2>1, <2>2 DEF Within
<1>7. a <= b
  <2>1. CASE a = 0
    BY <1>2, <1>3, <2>1
  <2>2. CASE a # 0
    <3>1. a \in DOMAIN ledger /\ a <= a
      BY <1>2, <1>4, <2>2
    <3>2. ledger[a].day < from /\ ledger[a].day \in Nat
      BY <1>4, <1>5, <3>1
    <3> QED BY <1>1, <1>5, <3>1, <3>2
  <2> QED BY <2>1, <2>2
<1>8. Size(from, to) = b - a
  <2>1. Cardinality((a + 1)..b) = IF a + 1 > b THEN 0 ELSE b - (a + 1) + 1
    BY <1>2, <1>3, FS_Interval
  <2> QED BY <1>2, <1>3, <1>6, <1>7, <2>1 DEF Size
<1> QED BY <1>2, <1>3, <1>5, <1>6, <1>7, <1>8 DEF a

\* A file of four parts, position by position.
Parted(file, hd, op, body, tl) ==
  /\ Len(file) = 4 + Len(op) + Len(body)
  /\ file[1] = hd[1] /\ file[2] = hd[2]
  /\ \A i \in 1..Len(op) : file[2 + i] = op[i]
  /\ \A i \in 1..Len(body) : file[2 + Len(op) + i] = body[i]
  /\ \A i \in 1..2 : file[2 + Len(op) + Len(body) + i] = tl[i]

LEMMA Joined ==
  ASSUME NEW U, NEW hd \in Seq(U), NEW op \in Seq(U), NEW body \in Seq(U), NEW tl \in Seq(U),
         Len(hd) = 2, Len(tl) = 2
  PROVE  ((hd \o op) \o body) \o tl \in Seq(U) /\ Parted(((hd \o op) \o body) \o tl, hd, op, body, tl)
<1> DEFINE o == Len(op)  n == Len(body)  x == hd \o op  y == x \o body  file == y \o tl
<1>1. o \in Nat /\ n \in Nat
  BY LenProperties
<1>2. /\ x \in Seq(U) /\ Len(x) = 2 + o
      /\ \A i \in 1..2 + o : x[i] = IF i <= 2 THEN hd[i] ELSE op[i - 2]
  <2>1. /\ x \in Seq(U) /\ Len(x) = Len(hd) + Len(op)
        /\ \A i \in 1..Len(hd) + Len(op) : x[i] = IF i <= Len(hd) THEN hd[i] ELSE op[i - Len(hd)]
    BY Zenon, ConcatProperties
  <2> QED BY <2>1
<1> HIDE DEF x
<1>3. /\ y \in Seq(U) /\ Len(y) = 2 + o + n
      /\ \A i \in 1..2 + o + n : y[i] = IF i <= 2 + o THEN x[i] ELSE body[i - (2 + o)]
  <2>1. /\ y \in Seq(U) /\ Len(y) = Len(x) + Len(body)
        /\ \A i \in 1..Len(x) + Len(body) : y[i] = IF i <= Len(x) THEN x[i] ELSE body[i - Len(x)]
    BY Zenon, <1>2, ConcatProperties
  <2> QED BY <1>2, <2>1
<1> HIDE DEF y
<1>4. /\ file \in Seq(U) /\ Len(file) = 4 + o + n
      /\ \A i \in 1..4 + o + n : file[i] = IF i <= 2 + o + n THEN y[i] ELSE tl[i - (2 + o + n)]
  <2>1. /\ file \in Seq(U) /\ Len(file) = Len(y) + Len(tl)
        /\ \A i \in 1..Len(y) + Len(tl) : file[i] = IF i <= Len(y) THEN y[i] ELSE tl[i - Len(y)]
    BY Zenon, <1>3, ConcatProperties
  <2>2. Len(y) + Len(tl) = 4 + o + n
    BY <1>1, <1>3
  <2> QED BY <1>3, <2>1, <2>2
<1> HIDE DEF file, o, n
<1>5. file[1] = hd[1] /\ file[2] = hd[2]
  BY <1>1, <1>2, <1>3, <1>4
<1>6. ASSUME NEW i \in 1..o PROVE file[2 + i] = op[i]
  <2>1. 2 + i \in 1..2 + o /\ 2 + i \in 1..2 + o + n /\ 2 + i \in 1..4 + o + n /\ 2 + i <= 2 + o
        /\ ~ (2 + i <= 2) /\ (2 + i) - 2 = i /\ 2 + i <= 2 + o + n
    BY <1>1
  <2> QED BY <1>2, <1>3, <1>4, <2>1
<1>7. ASSUME NEW i \in 1..n PROVE file[2 + o + i] = body[i]
  <2>1. 2 + o + i \in 1..2 + o + n /\ 2 + o + i \in 1..4 + o + n /\ ~ (2 + o + i <= 2 + o)
        /\ (2 + o + i) - (2 + o) = i /\ 2 + o + i <= 2 + o + n
    BY <1>1
  <2> QED BY <1>3, <1>4, <2>1
<1>8. ASSUME NEW i \in 1..2 PROVE file[2 + o + n + i] = tl[i]
  <2>1. 2 + o + n + i \in 1..4 + o + n /\ ~ (2 + o + n + i <= 2 + o + n)
        /\ (2 + o + n + i) - (2 + o + n) = i
    BY <1>1
  <2> QED BY <1>4, <2>1
<1> QED BY <1>4, <1>5, <1>6, <1>7, <1>8 DEF Parted, file, y, x, o, n

\* The bank's file.
Openings(layout, from) == IF layout = "ofx" THEN <<>> ELSE <<Opening(from)>>

Body(from, to) == [k \in 1..Size(from, to) |-> Line(k + Before(from))]

LEMMA ExportShape ==
  ASSUME NEW layout, NEW from, NEW to, Size(from, to) \in Nat
  PROVE  LET file == Export(layout, from, to)
             o == IF layout = "ofx" THEN 0 ELSE 1
             n == Size(from, to)
         IN /\ \E U : file \in Seq(U)
            /\ Len(file) = 4 + o + n
            /\ file[1] = Text /\ file[2] = Header(layout)
            /\ \A i \in 1..o : file[2 + i] = Opening(from)
            /\ \A i \in 1..n : file[2 + o + i] = Body(from, to)[i]
            /\ \A i \in 1..2 : file[2 + o + n + i].is \in {"text", "header"}
<1> DEFINE U == {Text, Header(layout), Opening(from)} \cup {Line(k + Before(from)) : k \in 1..Size(from, to)}
           hd == <<Text, Header(layout)>>
           op == Openings(layout, from)
           body == Body(from, to)
           file == ((hd \o op) \o body) \o hd
           o == IF layout = "ofx" THEN 0 ELSE 1
           n == Size(from, to)
<1>1. file = Export(layout, from, to)
  BY DEF Export, Openings, Body, Size, Before
<1>2. hd \in Seq(U) /\ Len(hd) = 2 /\ hd[1] = Text /\ hd[2] = Header(layout)
  OBVIOUS
<1>3. op \in Seq(U) /\ Len(op) = o /\ \A i \in 1..o : op[i] = Opening(from)
  <2>1. CASE layout = "ofx"
    <3>1. op = <<>> /\ o = 0
      BY <2>1 DEF Openings
    <3> HIDE DEF op, o, U
    <3> QED BY <3>1
  <2>2. CASE layout # "ofx"
    <3>1. op = <<Opening(from)>> /\ o = 1 /\ Opening(from) \in U
      BY <2>2 DEF Openings
    <3> HIDE DEF op, o, U
    <3> QED BY <3>1
  <2> QED BY <2>1, <2>2
<1>4. body \in Seq(U) /\ Len(body) = n
  <2>1. body \in [1..n -> U]
    BY DEF Body
  <2> HIDE DEF U, body
  <2> QED BY <2>1, SeqDef, LenProperties
<1> HIDE DEF U, hd, op, body, n
<1>5. /\ file \in Seq(U) /\ Len(file) = 4 + Len(op) + Len(body)
      /\ file[1] = hd[1] /\ file[2] = hd[2]
      /\ \A i \in 1..Len(op) : file[2 + i] = op[i]
      /\ \A i \in 1..Len(body) : file[2 + Len(op) + i] = body[i]
      /\ \A i \in 1..2 : file[2 + Len(op) + Len(body) + i] = hd[i]
  <2>1. hd \in Seq(U) /\ op \in Seq(U) /\ body \in Seq(U) /\ Len(hd) = 2
    BY <1>2, <1>3, <1>4
  <2>2. file \in Seq(U) /\ Parted(file, hd, op, body, hd)
    BY <2>1, Joined
  <2> HIDE DEF file
  <2> QED BY <2>2 DEF Parted
<1> HIDE DEF file, o
<1>6. \A i \in 1..2 : hd[i].is \in {"text", "header"}
  BY <1>2 DEF Text, Header
<1>7. /\ \E V : file \in Seq(V)
      /\ Len(file) = 4 + o + n
      /\ file[1] = Text /\ file[2] = Header(layout)
      /\ \A i \in 1..o : file[2 + i] = Opening(from)
      /\ \A i \in 1..n : file[2 + o + i] = body[i]
      /\ \A i \in 1..2 : file[2 + o + n + i].is \in {"text", "header"}
  <2>1. \E V : file \in Seq(V)
    BY <1>5
  <2>2. /\ Len(file) = 4 + o + n
        /\ file[1] = Text /\ file[2] = Header(layout)
        /\ \A i \in 1..o : file[2 + i] = Opening(from)
        /\ \A i \in 1..n : file[2 + o + i] = body[i]
        /\ \A i \in 1..2 : file[2 + o + n + i].is \in {"text", "header"}
    BY <1>2, <1>3, <1>4, <1>5, <1>6
  <2> QED BY <2>1, <2>2
<1> QED BY <1>1, <1>7 DEF o, n, body

\* The parser finds the header, and behind it the bank's movements and nothing else.
LEMMA HeaderOfExport ==
  ASSUME NEW layout, NEW from, NEW to, Size(from, to) \in Nat
  PROVE  LET file == Export(layout, from, to) IN HeaderAt(file) = 2 /\ file[2].layout = layout
<1> DEFINE file == Export(layout, from, to)
           I == {i \in 1..Len(file) : file[i].is = "header"}
<1>1. file[1] = Text /\ file[2] = Header(layout) /\ Len(file) \in Nat /\ Len(file) >= 2
  <2> DEFINE o == IF layout = "ofx" THEN 0 ELSE 1
             n == Size(from, to)
  <2>1. Len(file) = 4 + o + n /\ o \in Nat /\ n \in Nat
    BY ExportShape
  <2>2. file[1] = Text /\ file[2] = Header(layout)
    BY ExportShape
  <2> HIDE DEF file, o, n
  <2> QED BY <2>1, <2>2
<1>2. HeaderAt(file) = IF I # {} THEN Min(I) ELSE 0
  BY DEF HeaderAt, SelectInSeq
<1> HIDE DEF file
<1>3. 2 \in I /\ 1 \notin I /\ I \subseteq 1..Len(file) /\ file[2].layout = layout
  BY <1>1 DEF Text, Header
<1> HIDE DEF I
<1>4. \A i \in I : 2 <= i /\ i \in Nat
  BY <1>1, <1>3
<1>5. \A x \in I : (\A y \in I : x <= y) => x = 2
  BY <1>3, <1>4
<1>6. Min(I) = 2
  BY <1>3, <1>4, <1>5 DEF Min
<1> QED BY <1>2, <1>3, <1>6 DEF file

LEMMA TableOfExport ==
  ASSUME NEW layout, NEW from, NEW to, Size(from, to) \in Nat,
         \A k \in 1..Size(from, to) : ledger[k + Before(from)].amount # 0
  PROVE  TableOf(layout, Export(layout, from, to)) = Body(from, to)
<1> DEFINE file == Export(layout, from, to)
           s == BelowHeader(file)
           o == IF layout = "ofx" THEN 0 ELSE 1
           n == Size(from, to)
           body == Body(from, to)
<1>1. /\ Len(file) = 4 + o + n
      /\ \A i \in 1..o : file[2 + i] = Opening(from)
      /\ \A i \in 1..n : file[2 + o + i] = body[i]
      /\ \A i \in 1..2 : file[2 + o + n + i].is \in {"text", "header"}
  BY ExportShape
<1>2. PICK U : file \in Seq(U)
  BY ExportShape
<1>3. s = SubSeq(file, 3, Len(file))
  <2>1. HeaderAt(file) = 2
    BY HeaderOfExport
  <2>2. s = SubSeq(file, HeaderAt(file) + 1, Len(file))
    BY DEF BelowHeader
  <2>3. 2 + 1 = 3
    OBVIOUS
  <2> HIDE DEF s, file
  <2> QED BY <2>1, <2>2, <2>3
<1>4. o \in Nat /\ n \in Nat
  OBVIOUS
<1>5. \A i \in 1..n : body[i].is = "movement" /\ body[i].amount # 0
  BY DEF Body, Line
<1>6. \E V : body \in Seq(V)
  <2>1. body \in Seq({Line(k + Before(from)) : k \in 1..n})
    <3>1. body \in [1..n -> {Line(k + Before(from)) : k \in 1..n}]
      BY DEF Body
    <3> HIDE DEF body
    <3> QED BY <1>4, <3>1, SeqDef
  <2> QED BY <2>1
<1>7. Len(body) = n
  BY <1>4, LenProperties DEF Body
<1>8. layout = "ofx" => o = 0
  OBVIOUS
<1>9. Opening(from).amount = 0
  BY DEF Opening
<1>10. TableOf(layout, file) = LinesOf(layout, s)[DOMAIN s]
  BY TableFolds
<1> HIDE DEF s, file, o, n, body
<1>11. /\ s \in Seq(U) /\ Len(s) = 2 + o + n /\ \A i \in 1..2 + o + n : s[i] = file[2 + i]
  <2>1. \A i \in 3..Len(file) : file[i] \in U
    BY <1>1, <1>2, <1>4, ElementOfSeq
  <2>2. /\ s \in Seq(U) /\ Len(s) = IF 3 <= Len(file) THEN Len(file) - 3 + 1 ELSE 0
        /\ \A i \in 1..Len(file) - 3 + 1 : s[i] = file[3 + i - 1]
    BY <1>1, <1>3, <1>4, <2>1, SubSeqProperties
  <2>3. Len(file) - 3 + 1 = 2 + o + n /\ 3 <= Len(file) /\ \A i \in 1..2 + o + n : 3 + i - 1 = 2 + i
    BY <1>1, <1>4
  <2> QED BY <2>2, <2>3
<1>12. \A i \in 1..o : ~ (s[i].is = "movement" /\ (s[i].amount # 0 \/ layout = "ofx"))
  <2> TAKE i \in 1..o
  <2>1. s[i] = Opening(from) /\ o # 0
    <3>1. i \in 1..2 + o + n /\ o # 0
      BY <1>4
    <3> QED BY <1>1, <1>11, <3>1
  <2> QED BY <1>8, <1>9, <2>1
<1>13. \A i \in 1..n : s[o + i] = body[i]
  <2> TAKE i \in 1..n
  <2>1. o + i \in 1..2 + o + n /\ 2 + (o + i) = 2 + o + i
    BY <1>4
  <2> QED BY <1>1, <1>11, <2>1
<1>14. \A i \in (o + n + 1)..Len(s) : s[i].is # "movement"
  <2> TAKE i \in (o + n + 1)..Len(s)
  <2>1. i \in 1..2 + o + n /\ i - (o + n) \in 1..2 /\ 2 + i = 2 + o + n + (i - (o + n))
    BY <1>4, <1>11
  <2>2. file[2 + i].is \in {"text", "header"}
    BY <1>1, <2>1
  <2>3. s[i] = file[2 + i]
    BY <1>11, <2>1
  <2> QED BY <2>2, <2>3
<1>15. PICK V : body \in Seq(V)
  BY <1>6
<1>16. Around(layout, s, body, o) => LinesOf(layout, s)[DOMAIN s] = body
  <2>1. s \in Seq(U) /\ body \in Seq(V) /\ o \in Nat
    BY <1>4, <1>11, <1>15
  <2> QED BY <2>1, LinesAre
<1>17. Len(s) >= o + n
  BY <1>4, <1>11
<1>18. LinesOf(layout, s)[DOMAIN s] = body
  <2>1. Around(layout, s, body, o)
    BY <1>5, <1>7, <1>12, <1>13, <1>14, <1>17 DEF Around
  <2> QED BY <1>16, <2>1
<1> QED BY <1>10, <1>18 DEF file, body

\* The transaction of a movement.  What of it depends on the file is the number of
\* equal lines; a file has whole days, so this is their number in the whole account.
Entry(layout, i) ==
  [fitid |-> IF layout \in {"ident", "ofx"}
             THEN [kind |-> layout, id |-> ledger[i].id]
             ELSE [kind |-> layout, line |-> Shows(layout, Line(i)),
                   nth |-> Cardinality({j \in 1..i : Shows(layout, Line(j)) = Shows(layout, Line(i))})],
   day |-> ledger[i].day, amount |-> ledger[i].amount]

LEMMA LedgerTyped ==
  ASSUME LedgerOK
  PROVE  /\ DOMAIN ledger = 1..Len(ledger) /\ Len(ledger) \in Nat
         /\ \A i \in DOMAIN ledger : /\ ledger[i] \in Movement /\ ledger[i].day \in Days /\ ledger[i].day \in Nat
                                     /\ ledger[i].amount \in Amounts \ {0} /\ ledger[i].id \in Nat
<1>1. ledger \in Seq(Movement) /\ \A i \in DOMAIN ledger : ledger[i].amount # 0
  BY DEF LedgerOK
<1>2. DOMAIN ledger = 1..Len(ledger) /\ Len(ledger) \in Nat
  BY <1>1, LenProperties
<1>3. ASSUME NEW i \in DOMAIN ledger PROVE ledger[i] \in Movement
  BY <1>1, <1>2, ElementOfSeq
<1>4. ASSUME NEW i \in DOMAIN ledger
      PROVE  /\ ledger[i].day \in Days /\ ledger[i].day \in Nat
             /\ ledger[i].amount \in Amounts \ {0} /\ ledger[i].id \in Nat
  <2>1. ledger[i] \in [id : 1..MaxMovements, day : Days, amount : Amounts] /\ ledger[i].amount # 0
    BY <1>1, <1>3 DEF Movement
  <2>2. ledger[i].id \in 1..MaxMovements /\ ledger[i].day \in Days /\ ledger[i].amount \in Amounts
    BY Zenon, <2>1
  <2>3. ledger[i].id \in Nat
    BY <2>2, FilesAssumption
  <2>4. ledger[i].day \in Nat
    BY Zenon, <2>2, FilesAssumption
  <2> QED BY <2>1, <2>2, <2>3, <2>4
<1> QED BY <1>2, <1>3, <1>4

\* Whatever days a file has, its transactions are those of its movements.
LEMMA Parsed ==
  ASSUME LedgerOK, NEW layout, NEW from \in Days, NEW to \in Days, from <= to
  PROVE  Parse(Export(layout, from, to)) = [k \in 1..Size(from, to) |-> Entry(layout, k + Before(from))]
<1> DEFINE n == Size(from, to)  off == Before(from)  lines == Body(from, to)
           file == Export(layout, from, to)
<1>1. /\ n \in Nat /\ off \in Nat /\ off + n <= Len(ledger)
      /\ \A j \in DOMAIN ledger : j <= off <=> ledger[j].day < from
  BY WholeDays
<1>2. /\ DOMAIN ledger = 1..Len(ledger) /\ Len(ledger) \in Nat
      /\ \A i \in DOMAIN ledger : ledger[i].day \in Nat /\ ledger[i].amount # 0
  BY LedgerTyped
<1>3. \A k \in 1..n : k + off \in DOMAIN ledger /\ k + off > off
  BY <1>1, <1>2
<1>4. from \in Nat
  BY FilesAssumption
<1>5. HeaderAt(file) = 2 /\ file[2].layout = layout
  BY <1>1, HeaderOfExport
<1>6. TableOf(layout, file) = lines
  BY <1>1, <1>2, <1>3, TableOfExport
<1>7. DOMAIN lines = 1..n /\ \A k \in 1..n : lines[k] = Line(k + off)
  BY DEF Body
<1> HIDE DEF n, off, lines
<1>8. ASSUME NEW k \in 1..n PROVE FitId(layout, lines, k) = Entry(layout, k + off).fitid
  <2> DEFINE A == {j \in 1..k : Shows(layout, lines[j]) = Shows(layout, lines[k])}
             B == {j \in 1..(k + off) : Shows(layout, Line(j)) = Shows(layout, Line(k + off))}
  <2>1. A \subseteq Int /\ IsFiniteSet(A)
    <3>1. IsFiniteSet(1..k)
      BY FS_Interval
    <3> QED BY <3>1, FS_Subset
  <2>2. \A j \in A : j + off \in B
    <3> TAKE j \in A
    <3>1. j \in 1..n /\ k \in 1..n
      BY <1>1
    <3>2. lines[j] = Line(j + off) /\ lines[k] = Line(k + off)
      BY <1>7, <3>1
    <3>3. j + off \in 1..(k + off)
      BY <1>1
    <3> QED BY <3>2, <3>3
  <2>3. \A j \in B : j \in Int /\ j - off \in A
    <3> TAKE j \in B
    <3>1. Shows(layout, Line(j)) = Shows(layout, Line(k + off)) /\ j \in 1..(k + off)
      OBVIOUS
    <3>2. Line(j).day = Line(k + off).day
      BY <3>1 DEF Shows
    <3>3. ledger[j].day = ledger[k + off].day
      BY <3>2 DEF Line
    <3>4. j \in DOMAIN ledger /\ k + off \in DOMAIN ledger /\ ~ (k + off <= off)
      BY <1>1, <1>2, <1>3
    <3>5. ~ (j <= off)
      BY <1>1, <3>3, <3>4
    <3>6. j - off \in 1..k /\ (j - off) + off = j /\ j - off \in 1..n
      BY <1>1, <3>1, <3>5
    <3>7. lines[j - off] = Line(j) /\ lines[k] = Line(k + off)
      BY <1>7, <3>6
    <3> QED BY <3>1, <3>6, <3>7
  <2>4. Cardinality(B) = Cardinality(A)
    <3> HIDE DEF A, B
    <3>1. off \in Int
      BY <1>1
    <3> QED BY Zenon, <2>1, <2>2, <2>3, <3>1, Shifted
  <2>5. Occurrence(layout, lines, k) = Cardinality(A)
    BY DEF Occurrence
  <2>6. lines[k] = Line(k + off) /\ lines[k].id = ledger[k + off].id
    BY <1>7 DEF Line
  <2>7. CASE layout \in {"ident", "ofx"}
    BY <2>6, <2>7 DEF FitId, Entry
  <2>8. CASE layout \notin {"ident", "ofx"}
    <3>1. FitId(layout, lines, k) = [kind |-> layout, line |-> Shows(layout, lines[k]), nth |-> Cardinality(A)]
      BY <2>5, <2>8 DEF FitId
    <3>2. Entry(layout, k + off).fitid = [kind |-> layout, line |-> Shows(layout, Line(k + off)), nth |-> Cardinality(B)]
      BY <2>8 DEF Entry
    <3> QED BY <2>4, <2>6, <3>1, <3>2
  <2> QED BY <2>7, <2>8
<1>9. \A k \in 1..n : [fitid |-> FitId(layout, lines, k), day |-> lines[k].day, amount |-> lines[k].amount]
                      = Entry(layout, k + off)
  <2> TAKE k \in 1..n
  <2>1. lines[k].day = ledger[k + off].day /\ lines[k].amount = ledger[k + off].amount
    BY <1>7 DEF Line
  <2>2. Entry(layout, k + off) = [fitid |-> Entry(layout, k + off).fitid,
                                  day |-> ledger[k + off].day, amount |-> ledger[k + off].amount]
    BY DEF Entry
  <2> QED BY <1>8, <2>1, <2>2
<1>10. Parse(file) = [k \in 1..n |-> [fitid |-> FitId(layout, lines, k), day |-> lines[k].day, amount |-> lines[k].amount]]
  <2> HIDE DEF file
  <2> QED BY <1>5, <1>6, <1>7 DEF Parse
<1>11. [k \in 1..n |-> [fitid |-> FitId(layout, lines, k), day |-> lines[k].day, amount |-> lines[k].amount]]
       = [k \in 1..n |-> Entry(layout, k + off)]
  BY <1>9
<1> QED BY <1>10, <1>11 DEF n, off, file

\* Two movements have two FITIDs: by the identifier, or by the number of equal lines.
LEMMA EntryDistinct ==
  ASSUME LedgerOK, NEW layout, NEW i \in DOMAIN ledger, NEW j \in DOMAIN ledger,
         Entry(layout, i).fitid = Entry(layout, j).fitid
  PROVE  i = j
<1> DEFINE A(k) == {l \in 1..k : Shows(layout, Line(l)) = Shows(layout, Line(k))}
<1>1. DOMAIN ledger = 1..Len(ledger) /\ Len(ledger) \in Nat
  BY LedgerTyped
<1>2. CASE layout \in {"ident", "ofx"}
  <2>1. ledger[i].id = ledger[j].id
    BY <1>2 DEF Entry
  <2> QED BY <2>1 DEF LedgerOK
<1>3. CASE layout \notin {"ident", "ofx"}
  <2>1. Shows(layout, Line(i)) = Shows(layout, Line(j)) /\ Cardinality(A(i)) = Cardinality(A(j))
    <3>1. Entry(layout, i).fitid = [kind |-> layout, line |-> Shows(layout, Line(i)), nth |-> Cardinality(A(i))]
      BY <1>3 DEF Entry
    <3>2. Entry(layout, j).fitid = [kind |-> layout, line |-> Shows(layout, Line(j)), nth |-> Cardinality(A(j))]
      BY <1>3 DEF Entry
    <3> HIDE DEF A
    <3>3. Entry(layout, i).fitid.line = Shows(layout, Line(i)) /\ Entry(layout, i).fitid.nth = Cardinality(A(i))
      BY <3>1
    <3>4. Entry(layout, j).fitid.line = Shows(layout, Line(j)) /\ Entry(layout, j).fitid.nth = Cardinality(A(j))
      BY <3>2
    <3> QED BY Zenon, <3>3, <3>4
  <2>2. ASSUME NEW a \in DOMAIN ledger, NEW b \in DOMAIN ledger, a < b,
               Shows(layout, Line(a)) = Shows(layout, Line(b)), Cardinality(A(a)) = Cardinality(A(b))
        PROVE  FALSE
    <3>1. a \in Nat /\ b \in Nat /\ 1 <= a
      BY <1>1
    <3>2. A(a) \subseteq A(b)
      BY <2>2, <3>1
    <3>3. IsFiniteSet(A(b))
      <4>1. IsFiniteSet(1..b)
        BY <3>1, FS_Interval
      <4> QED BY <4>1, FS_Subset
    <3>4. b \in A(b) /\ b \notin A(a)
      BY <2>2, <3>1
    <3> HIDE DEF A
    <3> QED BY <2>2, <3>2, <3>3, <3>4, FS_Subset
  <2> HIDE DEF A
  <2>3. i < j \/ j < i \/ i = j
    BY <1>1
  <2> QED BY <2>1, <2>2, <2>3
<1> QED BY <1>2, <1>3

\* A row is the transaction of a movement, as it is now: or one of a line with a
\* balance, from before something was booked before it.
RowOK(r) ==
  /\ r.day \in Days /\ r.amount \in Amounts \ {0} /\ r.fitid.kind \in Layouts
  /\ \/ \E i \in DOMAIN ledger : r = Entry(r.fitid.kind, i)
     \/ /\ r.fitid.kind = "balance" /\ r.day \in shifted
        /\ r.fitid.line.day = r.day /\ r.fitid.line.amount = r.amount

RowsOK ==
  /\ IsFiniteSet(books)
  /\ \A r \in books : RowOK(r)
  /\ \A r, t \in books : r.fitid = t.fitid => r = t

HistoryOK == covered \subseteq ToSet(ledger) /\ uploads \in Nat /\ shifted \subseteq Days

FilesInv == LedgerOK /\ RowsOK /\ HistoryOK /\ NothingMissing

\* Where the bank puts a new movement, and what is where then.
Behind(d) == Cardinality({j \in DOMAIN ledger : ledger[j].day <= d}) + 1

LEMMA Inserted ==
  ASSUME LedgerOK, NEW d \in Days, NEW x \in Amounts, BookMovement(d, x)
  PROVE  /\ Behind(d) \in 1..Len(ledger) + 1
         /\ ledger' \in Seq(Movement) /\ Len(ledger') = Len(ledger) + 1
         /\ ledger'[Behind(d)] = [id |-> Len(ledger) + 1, day |-> d, amount |-> x]
         /\ \A i \in DOMAIN ledger : /\ i < Behind(d) => ledger'[i] = ledger[i] /\ ledger[i].day <= d
                                     /\ i >= Behind(d) => ledger'[i + 1] = ledger[i] /\ ledger[i].day > d
<1> DEFINE p == Behind(d)
           m == [id |-> Len(ledger) + 1, day |-> d, amount |-> x]
           L == Len(ledger)
<1>1. DOMAIN ledger = 1..L /\ L \in Nat /\ \A i \in DOMAIN ledger : ledger[i] \in Movement /\ ledger[i].day \in Nat
  BY LedgerTyped
<1>2. d \in Int /\ d \in Nat /\ L < MaxMovements /\ MaxMovements \in Nat
  BY FilesAssumption DEF BookMovement
<1>3. m \in Movement
  BY <1>1, <1>2 DEF Movement
<1>4. p \in 1..L + 1 /\ \A i \in DOMAIN ledger : i < p <=> ledger[i].day <= d
  <2> DEFINE P == {j \in DOMAIN ledger : ledger[j].day <= d}
  <2>1. Within(0, d) = P /\ Cardinality(Within(0, d)) \in Nat /\ Cardinality(Within(0, d)) <= L
        /\ Within(0, d) = 1..Cardinality(Within(0, d))
    BY <1>2, DaysUpTo
  <2>2. Cardinality(P) \in Nat /\ Cardinality(P) <= L /\ P = 1..Cardinality(P)
    BY <2>1
  <2>3. p = Cardinality(P) + 1
    BY DEF Behind
  <2>4. \A i \in DOMAIN ledger : i \in P <=> ledger[i].day <= d
    OBVIOUS
  <2> HIDE DEF P, p
  <2>5. \A i \in DOMAIN ledger : i < p <=> i \in P
    BY <1>1, <2>2, <2>3
  <2>6. p \in 1..L + 1
    BY <1>1, <2>2, <2>3
  <2> QED BY <2>4, <2>5, <2>6
<1>5. ledger' = SubSeq(ledger, 1, p - 1) \o <<m>> \o SubSeq(ledger, p, L)
  BY DEF BookMovement, InsertAt, Behind
<1> HIDE DEF p, m
<1> DEFINE a == SubSeq(ledger, 1, p - 1)  b == <<m>>  c == SubSeq(ledger, p, L)
<1>6. /\ a \in Seq(Movement) /\ Len(a) = p - 1
      /\ \A i \in 1..p - 1 : a[i] = ledger[i]
  <2>1. \A i \in 1..p - 1 : ledger[i] \in Movement
    BY <1>1, <1>4
  <2>2. /\ a \in Seq(Movement) /\ Len(a) = IF 1 <= p - 1 THEN p - 1 - 1 + 1 ELSE 0
        /\ \A i \in 1..p - 1 - 1 + 1 : a[i] = ledger[1 + i - 1]
    BY <1>4, <2>1, SubSeqProperties
  <2>3. p - 1 - 1 + 1 = p - 1 /\ \A i \in 1..p - 1 : 1 + i - 1 = i
    BY <1>4
  <2>4. p \in Int /\ 1 <= p
    BY <1>1, <1>4
  <2> HIDE DEF a
  <2>5. Len(a) = p - 1
    BY <2>2, <2>4
  <2>6. \A i \in 1..p - 1 : a[i] = ledger[i]
    BY <2>2, <2>3
  <2> QED BY <2>2, <2>5, <2>6
<1>7. b \in Seq(Movement) /\ Len(b) = 1 /\ b[1] = m
  BY <1>3
<1>8. /\ c \in Seq(Movement) /\ Len(c) = L - p + 1
      /\ \A i \in 1..L - p + 1 : c[i] = ledger[p + i - 1]
  <2>1. \A i \in p..L : ledger[i] \in Movement
    BY <1>1, <1>4
  <2>2. /\ c \in Seq(Movement) /\ Len(c) = IF p <= L THEN L - p + 1 ELSE 0
        /\ \A i \in 1..L - p + 1 : c[i] = ledger[p + i - 1]
    BY <1>1, <1>4, <2>1, SubSeqProperties
  <2> HIDE DEF c
  <2> QED BY <1>1, <1>4, <2>2
<1> HIDE DEF a, b, c
<1>9. /\ a \o b \in Seq(Movement) /\ Len(a \o b) = p
      /\ \A i \in 1..p : (a \o b)[i] = IF i <= p - 1 THEN a[i] ELSE b[i - (p - 1)]
  <2>1. /\ a \o b \in Seq(Movement) /\ Len(a \o b) = Len(a) + Len(b)
        /\ \A i \in 1..Len(a) + Len(b) : (a \o b)[i] = IF i <= Len(a) THEN a[i] ELSE b[i - Len(a)]
    BY Zenon, <1>6, <1>7, ConcatProperties
  <2>2. Len(a) + Len(b) = p
    BY <1>4, <1>6, <1>7
  <2> QED BY <1>6, <2>1, <2>2
<1> DEFINE ab == a \o b
<1> HIDE DEF ab
<1>10. /\ ledger' \in Seq(Movement) /\ Len(ledger') = L + 1
       /\ \A i \in 1..L + 1 : ledger'[i] = IF i <= p THEN ab[i] ELSE c[i - p]
  <2>1. ledger' = ab \o c
    BY <1>5 DEF a, b, c, ab
  <2>2. ab \in Seq(Movement) /\ Len(ab) = p
    BY <1>9 DEF ab
  <2>3. /\ ab \o c \in Seq(Movement) /\ Len(ab \o c) = Len(ab) + Len(c)
        /\ \A i \in 1..Len(ab) + Len(c) : (ab \o c)[i] = IF i <= Len(ab) THEN ab[i] ELSE c[i - Len(ab)]
    BY Zenon, <1>8, <2>2, ConcatProperties
  <2>4. Len(ab) + Len(c) = L + 1
    BY <1>1, <1>4, <1>8, <2>2
  <2> QED BY <2>1, <2>2, <2>3, <2>4
<1>11. \A i \in 1..p : ab[i] = IF i <= p - 1 THEN ledger[i] ELSE m
  <2> TAKE i \in 1..p
  <2>1. ab[i] = IF i <= p - 1 THEN a[i] ELSE b[i - (p - 1)]
    BY <1>9 DEF ab
  <2>2. CASE i <= p - 1
    BY <1>6, <2>1, <2>2
  <2>3. CASE ~ (i <= p - 1)
    <3>1. i - (p - 1) = 1
      BY <1>4, <2>3
    <3> QED BY <1>7, <2>1, <2>3, <3>1
  <2> QED BY <2>2, <2>3
<1>12. ledger'[p] = m
  <2>1. p \in 1..L + 1 /\ p \in 1..p /\ ~ (p <= p - 1)
    BY <1>4
  <2> QED BY <1>10, <1>11, <2>1
<1>13. ASSUME NEW i \in DOMAIN ledger, i < p PROVE ledger'[i] = ledger[i]
  <2>1. i \in 1..L + 1 /\ i \in 1..p /\ i <= p - 1 /\ i <= p
    BY <1>1, <1>4, <1>13
  <2> QED BY <1>10, <1>11, <2>1
<1>14. ASSUME NEW i \in DOMAIN ledger, i >= p PROVE ledger'[i + 1] = ledger[i]
  <2>1. i + 1 \in 1..L + 1 /\ ~ (i + 1 <= p) /\ i + 1 - p \in 1..L - p + 1 /\ p + (i + 1 - p) - 1 = i
    BY <1>1, <1>4, <1>14
  <2> DEFINE k == i + 1
  <2>2. k \in 1..L + 1 /\ ~ (k <= p) /\ k - p \in 1..L - p + 1 /\ p + (k - p) - 1 = i
    BY <1>1, <1>4, <1>14, <2>1
  <2> HIDE DEF k
  <2>3. ledger'[k] = c[k - p]
    BY <1>10, <2>2
  <2>4. c[k - p] = ledger[p + (k - p) - 1]
    BY <1>8, <2>2
  <2> QED BY <2>2, <2>3, <2>4 DEF k
<1>15. \A i \in DOMAIN ledger : (i < p => ledger[i].day <= d) /\ (i >= p => ledger[i].day > d)
  <2> TAKE i \in DOMAIN ledger
  <2>1. i \in Nat /\ ledger[i].day \in Nat
    BY <1>1
  <2> QED BY <1>2, <1>4, <2>1
<1> QED BY <1>4, <1>10, <1>12, <1>13, <1>14, <1>15 DEF p, m

LEMMA LedgerGrows ==
  ASSUME LedgerOK, NEW d \in Days, NEW x \in Amounts, BookMovement(d, x)
  PROVE  LedgerOK'
<1> DEFINE p == Behind(d)
           L == Len(ledger)
           Old(i) == IF i < p THEN i ELSE i - 1
<1>1. /\ DOMAIN ledger = 1..L /\ L \in Nat
      /\ \A i \in DOMAIN ledger : ledger[i].day \in Nat /\ ledger[i].id \in Nat /\ ledger[i].amount # 0
  BY LedgerTyped
<1>2. /\ p \in 1..L + 1
      /\ ledger' \in Seq(Movement) /\ Len(ledger') = L + 1
      /\ ledger'[p] = [id |-> L + 1, day |-> d, amount |-> x]
      /\ \A i \in DOMAIN ledger : /\ i < p => ledger'[i] = ledger[i] /\ ledger[i].day <= d
                                  /\ i >= p => ledger'[i + 1] = ledger[i] /\ ledger[i].day > d
  BY Inserted
<1>3. d \in Nat /\ L < MaxMovements /\ x # 0 /\ MaxMovements \in Nat
  BY FilesAssumption DEF BookMovement
<1>4. /\ \A i \in DOMAIN ledger : ledger[i].id <= L
      /\ \A i, j \in DOMAIN ledger : i <= j => ledger[i].day <= ledger[j].day
      /\ \A i, j \in DOMAIN ledger : ledger[i].id = ledger[j].id => i = j
  BY DEF LedgerOK
<1>5. DOMAIN ledger' = 1..L + 1
  BY <1>2, LenProperties
<1> HIDE DEF p, L
<1>6. ASSUME NEW i \in 1..L + 1, i # p
      PROVE  /\ Old(i) \in DOMAIN ledger /\ ledger'[i] = ledger[Old(i)]
             /\ i < p => ledger[Old(i)].day <= d
             /\ i > p => ledger[Old(i)].day > d
  <2>1. CASE i < p
    <3>1. i \in DOMAIN ledger
      BY <1>1, <1>2, <2>1
    <3> QED BY <1>2, <2>1, <3>1
  <2>2. CASE i > p
    <3>1. i - 1 \in DOMAIN ledger /\ i - 1 >= p /\ (i - 1) + 1 = i /\ ~ (i < p)
      BY <1>1, <1>2, <2>2
    <3>2. ledger'[(i - 1) + 1] = ledger[i - 1] /\ ledger[i - 1].day > d
      BY <1>2, <3>1
    <3> QED BY <3>1, <3>2
  <2> QED BY <1>2, <1>6, <2>1, <2>2
<1>7. \A i, j \in 1..L + 1 : i # p /\ j # p => (i <= j <=> Old(i) <= Old(j)) /\ (i = j <=> Old(i) = Old(j))
  BY <1>1, <1>2
<1> HIDE DEF Old
<1>8. \A i \in 1..L + 1 : ledger'[i].amount # 0 /\ ledger'[i].id <= L + 1
  <2> TAKE i \in 1..L + 1
  <2>1. CASE i = p
    BY <1>1, <1>2, <1>3, <2>1
  <2>2. CASE i # p
    <3>1. ledger'[i] = ledger[Old(i)] /\ ledger[Old(i)].amount # 0 /\ ledger[Old(i)].id \in Nat /\ ledger[Old(i)].id <= L
      BY <1>1, <1>4, <1>6, <2>2
    <3> QED BY <1>1, <3>1
  <2> QED BY <2>1, <2>2
<1>9. \A i, j \in 1..L + 1 : i <= j => ledger'[i].day <= ledger'[j].day
  <2> SUFFICES ASSUME NEW i \in 1..L + 1, NEW j \in 1..L + 1, i <= j PROVE ledger'[i].day <= ledger'[j].day
    OBVIOUS
  <2>0. ledger'[p].day = d
    BY <1>2
  <2>1. CASE i = p /\ j = p
    BY <1>3, <2>0, <2>1
  <2>2. CASE i = p /\ j # p
    <3>1. j > p /\ Old(j) \in DOMAIN ledger
      BY <1>2, <1>6, <2>2
    <3>2. ledger'[j] = ledger[Old(j)] /\ ledger[Old(j)].day > d /\ ledger[Old(j)].day \in Nat
      BY <1>1, <1>6, <2>2, <3>1
    <3> QED BY <1>3, <2>0, <2>2, <3>2
  <2>3. CASE i # p /\ j = p
    <3>1. i < p /\ Old(i) \in DOMAIN ledger
      BY <1>2, <1>6, <2>3
    <3>2. ledger'[i] = ledger[Old(i)] /\ ledger[Old(i)].day <= d
      BY <1>6, <2>3, <3>1
    <3> QED BY <2>0, <2>3, <3>2
  <2>4. CASE i # p /\ j # p
    <3>1. ledger'[i] = ledger[Old(i)] /\ ledger'[j] = ledger[Old(j)] /\ Old(i) \in DOMAIN ledger /\ Old(j) \in DOMAIN ledger
      BY <1>6, <2>4
    <3>2. Old(i) <= Old(j)
      BY <1>7, <2>4
    <3> QED BY <1>4, <3>1, <3>2
  <2> QED BY <2>1, <2>2, <2>3, <2>4
<1>10. \A i, j \in 1..L + 1 : ledger'[i].id = ledger'[j].id => i = j
  <2> SUFFICES ASSUME NEW i \in 1..L + 1, NEW j \in 1..L + 1, ledger'[i].id = ledger'[j].id PROVE i = j
    OBVIOUS
  <2>0. ledger'[p].id = L + 1
    BY <1>2
  <2>1. ASSUME NEW k \in 1..L + 1, k # p PROVE ledger'[k].id # L + 1
    <3>1. ledger'[k].id \in Nat /\ ledger'[k].id <= L
      BY <1>1, <1>4, <1>6, <2>1
    <3> QED BY <1>1, <3>1
  <2>2. CASE i = p \/ j = p
    BY <2>0, <2>1, <2>2
  <2>3. CASE i # p /\ j # p
    <3>1. ledger'[i] = ledger[Old(i)] /\ ledger'[j] = ledger[Old(j)] /\ Old(i) \in DOMAIN ledger /\ Old(j) \in DOMAIN ledger
      BY <1>6, <2>3
    <3>2. Old(i) = Old(j)
      BY <1>4, <3>1
    <3> QED BY <1>7, <2>3, <3>2
  <2> QED BY <2>2, <2>3
<1>11. L + 1 <= MaxMovements
  BY <1>1, <1>3
<1> QED BY <1>2, <1>5, <1>8, <1>9, <1>10, <1>11 DEF LedgerOK

\* A new movement leaves the transactions of those before it, balances included ...
LEMMA EntryBefore ==
  ASSUME LedgerOK, NEW d \in Days, NEW x \in Amounts, BookMovement(d, x), NEW layout,
         NEW i \in DOMAIN ledger, i < Behind(d)
  PROVE  i \in DOMAIN ledger' /\ Entry(layout, i)' = Entry(layout, i)
<1> DEFINE p == Behind(d)
           L == Len(ledger)
<1>1. DOMAIN ledger = 1..L /\ L \in Nat
  BY LedgerTyped
<1>2. /\ p \in 1..L + 1 /\ ledger' \in Seq(Movement) /\ Len(ledger') = L + 1
      /\ \A j \in DOMAIN ledger : j < p => ledger'[j] = ledger[j]
  BY Inserted
<1>3. DOMAIN ledger' = 1..L + 1
  BY <1>2, LenProperties
<1> HIDE DEF p, L
<1>4. \A j \in 1..i : ledger'[j] = ledger[j] /\ j \in Nat
  BY <1>1, <1>2 DEF p
<1>5. ASSUME NEW j \in 1..i PROVE Line(j)' = Line(j)
  <2>1. SubSeq(ledger', 1, j) = SubSeq(ledger, 1, j)
    <3>1. /\ SubSeq(ledger', 1, j) \in Seq(Movement) /\ SubSeq(ledger, 1, j) \in Seq(Movement)
          /\ Len(SubSeq(ledger', 1, j)) = j /\ Len(SubSeq(ledger, 1, j)) = j
          /\ \A k \in 1..j : SubSeq(ledger', 1, j)[k] = ledger'[k] /\ SubSeq(ledger, 1, j)[k] = ledger[k]
      <4>1. \A k \in 1..j : ledger'[k] \in Movement /\ ledger[k] \in Movement
        <5>1. \A k \in 1..j : k \in 1..i /\ k \in DOMAIN ledger
          BY <1>1
        <5> QED BY <1>4, <5>1, LedgerTyped
      <4>2. 1 \in Int /\ j \in Int /\ 1 <= j /\ j - 1 + 1 = j /\ \A k \in 1..j : 1 + k - 1 = k
        BY <1>1
      <4>3. /\ SubSeq(ledger', 1, j) \in Seq(Movement)
            /\ Len(SubSeq(ledger', 1, j)) = IF 1 <= j THEN j - 1 + 1 ELSE 0
            /\ \A k \in 1..j - 1 + 1 : SubSeq(ledger', 1, j)[k] = ledger'[1 + k - 1]
        BY <4>1, <4>2, SubSeqProperties
      <4>4. /\ SubSeq(ledger, 1, j) \in Seq(Movement)
            /\ Len(SubSeq(ledger, 1, j)) = IF 1 <= j THEN j - 1 + 1 ELSE 0
            /\ \A k \in 1..j - 1 + 1 : SubSeq(ledger, 1, j)[k] = ledger[1 + k - 1]
        BY <4>1, <4>2, SubSeqProperties
      <4> QED BY <4>2, <4>3, <4>4
    <3>2. \A k \in 1..j : SubSeq(ledger', 1, j)[k] = SubSeq(ledger, 1, j)[k]
      <4>1. \A k \in 1..j : k \in 1..i
        BY <1>1
      <4> QED BY <1>4, <3>1, <4>1
    <3> QED BY <3>1, <3>2, SeqEqual
  <2>2. BalanceAt(j)' = BalanceAt(j)
    BY <2>1 DEF BalanceAt
  <2>3. ledger'[j] = ledger[j]
    BY <1>4
  <2> QED BY <2>2, <2>3 DEF Line
<1>6. i \in 1..i /\ i \in 1..L + 1
  BY <1>1
<1>7. \A j \in 1..i : Shows(layout, Line(j))' = Shows(layout, Line(j))
  BY <1>5 DEF Shows
<1>8. {j \in 1..i : Shows(layout, Line(j)) = Shows(layout, Line(i))}'
      = {j \in 1..i : Shows(layout, Line(j)) = Shows(layout, Line(i))}
  BY <1>6, <1>7
<1>9. ledger'[i] = ledger[i] /\ Shows(layout, Line(i))' = Shows(layout, Line(i))
  BY <1>4, <1>6, <1>7
<1> QED BY <1>3, <1>6, <1>8, <1>9 DEF Entry

\* ... and of those behind it, but for their balances.
LEMMA EntryBehind ==
  ASSUME LedgerOK, NEW d \in Days, NEW x \in Amounts, BookMovement(d, x), NEW layout, layout # "balance",
         NEW i \in DOMAIN ledger, i >= Behind(d)
  PROVE  i + 1 \in DOMAIN ledger' /\ Entry(layout, i + 1)' = Entry(layout, i)
<1> DEFINE p == Behind(d)
           L == Len(ledger)
           A == {j \in 1..i : Shows(layout, Line(j)) = Shows(layout, Line(i))}
           B == {j \in 1..(i + 1) : Shows(layout, Line(j)') = Shows(layout, Line(i + 1)')}
<1>1. /\ DOMAIN ledger = 1..L /\ L \in Nat
      /\ \A j \in DOMAIN ledger : ledger[j].day \in Nat
  BY LedgerTyped
<1>2. /\ p \in 1..L + 1 /\ ledger' \in Seq(Movement) /\ Len(ledger') = L + 1
      /\ ledger'[p].day = d /\ d \in Nat
      /\ \A j \in DOMAIN ledger : /\ j < p => ledger'[j] = ledger[j] /\ ledger[j].day <= d
                                  /\ j >= p => ledger'[j + 1] = ledger[j] /\ ledger[j].day > d
  <2>1. ledger'[p] = [id |-> L + 1, day |-> d, amount |-> x]
    BY Inserted
  <2>2. ledger'[p].day = d /\ d \in Nat
    BY <2>1, FilesAssumption
  <2>3. /\ p \in 1..L + 1 /\ ledger' \in Seq(Movement) /\ Len(ledger') = L + 1
        /\ \A j \in DOMAIN ledger : /\ j < p => ledger'[j] = ledger[j] /\ ledger[j].day <= d
                                    /\ j >= p => ledger'[j + 1] = ledger[j] /\ ledger[j].day > d
    BY Inserted
  <2> QED BY <2>2, <2>3
<1>3. DOMAIN ledger' = 1..L + 1
  BY <1>2, LenProperties
<1>4. i \in 1..L /\ i >= p
  BY <1>1
<1> HIDE DEF p, L
<1>5. \A l, k : Shows(layout, l) = Shows(layout, k) <=> l.day = k.day /\ l.amount = k.amount
  BY DEF Shows
<1>6. ledger'[i + 1] = ledger[i] /\ ledger[i].day > d /\ ledger[i].day \in Nat
  BY <1>1, <1>2, <1>4
<1>7. \A j \in 1..(i + 1) : j <= p => ledger'[j].day # ledger[i].day
  <2> TAKE j \in 1..(i + 1)
  <2>1. CASE j = p
    BY <1>2, <1>6, <2>1
  <2>2. CASE j < p
    <3>1. j \in DOMAIN ledger
      BY <1>1, <1>2, <1>4, <2>2
    <3>2. ledger'[j] = ledger[j] /\ ledger[j].day <= d /\ ledger[j].day \in Nat
      BY <1>1, <1>2, <2>2, <3>1
    <3> QED BY <1>2, <1>6, <3>2
  <2>3. CASE j > p
    BY <1>2, <2>3
  <2> QED BY <1>2, <2>1, <2>2, <2>3
<1>8. \A j \in 1..i : j < p => ledger[j].day # ledger[i].day
  <2> SUFFICES ASSUME NEW j \in 1..i, j < p PROVE ledger[j].day # ledger[i].day
    OBVIOUS
  <2>1. j \in DOMAIN ledger
    BY <1>1, <1>4
  <2>2. ledger[j].day <= d /\ ledger[j].day \in Nat
    BY <1>1, <1>2, <2>1
  <2> QED BY <1>2, <1>6, <2>2
<1>9. \A j \in A : j + 1 \in B
  <2> TAKE j \in A
  <2>1. j \in 1..i /\ ledger[j].day = ledger[i].day /\ ledger[j].amount = ledger[i].amount
    BY <1>5 DEF Line
  <2>2. j \in DOMAIN ledger /\ j >= p
    BY <1>1, <1>2, <1>4, <1>8, <2>1
  <2>3. ledger'[j + 1] = ledger[j] /\ j + 1 \in 1..(i + 1)
    <3>1. j + 1 \in 1..(i + 1)
      BY <1>1, <1>4, <2>1
    <3> QED BY <1>2, <2>2, <3>1
  <2>4. ledger'[j + 1].day = ledger'[i + 1].day /\ ledger'[j + 1].amount = ledger'[i + 1].amount
    BY <1>6, <2>1, <2>3
  <2>5. Shows(layout, Line(j + 1)') = Shows(layout, Line(i + 1)')
    <3>1. /\ Line(j + 1)'.day = ledger'[j + 1].day /\ Line(j + 1)'.amount = ledger'[j + 1].amount
          /\ Line(i + 1)'.day = ledger'[i + 1].day /\ Line(i + 1)'.amount = ledger'[i + 1].amount
      BY DEF Line
    <3> QED BY <1>5, <2>4, <3>1
  <2> QED BY <2>3, <2>5
<1>10. \A j \in B : j \in Int /\ j - 1 \in A
  <2> TAKE j \in B
  <2>1. j \in 1..(i + 1) /\ Shows(layout, Line(j)') = Shows(layout, Line(i + 1)')
    OBVIOUS
  <2>2. ledger'[j].day = ledger'[i + 1].day /\ ledger'[j].amount = ledger'[i + 1].amount
    <3>1. /\ Line(j)'.day = ledger'[j].day /\ Line(j)'.amount = ledger'[j].amount
          /\ Line(i + 1)'.day = ledger'[i + 1].day /\ Line(i + 1)'.amount = ledger'[i + 1].amount
      BY DEF Line
    <3> QED BY <1>5, <2>1, <3>1
  <2>3. j > p
    BY <1>2, <1>6, <1>7, <2>1, <2>2
  <2> DEFINE k == j - 1
  <2>4. k \in 1..i /\ k >= p /\ k + 1 = j
    BY <1>2, <2>1, <2>3
  <2> HIDE DEF k
  <2>5. k \in DOMAIN ledger
    BY <1>1, <1>4, <2>4
  <2>6. ledger'[k + 1] = ledger[k]
    BY <1>2, <2>4, <2>5
  <2>7. ledger[k].day = ledger[i].day /\ ledger[k].amount = ledger[i].amount
    BY <1>6, <2>2, <2>4, <2>6
  <2>8. Shows(layout, Line(k)) = Shows(layout, Line(i))
    <3>1. Line(k).day = ledger[k].day /\ Line(k).amount = ledger[k].amount
          /\ Line(i).day = ledger[i].day /\ Line(i).amount = ledger[i].amount
      BY DEF Line
    <3> QED BY <1>5, <2>7, <3>1
  <2> QED BY <2>1, <2>4, <2>8 DEF k
<1>11. A \subseteq Int /\ IsFiniteSet(A)
  <2>1. IsFiniteSet(1..i)
    BY <1>4, FS_Interval
  <2>2. A \subseteq 1..i /\ 1..i \subseteq Int
    BY <1>1, <1>4
  <2> HIDE DEF A
  <2> QED BY <2>1, <2>2, FS_Subset
<1>12. Cardinality(B) = Cardinality(A)
  <2>1. 1 \in Int
    OBVIOUS
  <2> HIDE DEF A, B
  <2> QED BY Zenon, <1>9, <1>10, <1>11, <2>1, Shifted
<1>13. Shows(layout, Line(i + 1)') = Shows(layout, Line(i))
  <2>1. /\ Line(i + 1)'.day = ledger'[i + 1].day /\ Line(i + 1)'.amount = ledger'[i + 1].amount
        /\ Line(i).day = ledger[i].day /\ Line(i).amount = ledger[i].amount
    BY DEF Line
  <2> QED BY <1>5, <1>6, <2>1
<1>14. i + 1 \in DOMAIN ledger'
  BY <1>1, <1>3, <1>4
<1>15. Entry(layout, i + 1)' =
         [fitid |-> IF layout \in {"ident", "ofx"}
                    THEN [kind |-> layout, id |-> ledger'[i + 1].id]
                    ELSE [kind |-> layout, line |-> Shows(layout, Line(i + 1)'), nth |-> Cardinality(B)],
          day |-> ledger'[i + 1].day, amount |-> ledger'[i + 1].amount]
  BY DEF Entry
<1>16. Entry(layout, i) =
         [fitid |-> IF layout \in {"ident", "ofx"}
                    THEN [kind |-> layout, id |-> ledger[i].id]
                    ELSE [kind |-> layout, line |-> Shows(layout, Line(i)), nth |-> Cardinality(A)],
          day |-> ledger[i].day, amount |-> ledger[i].amount]
  BY DEF Entry
<1> HIDE DEF A, B
<1> QED BY <1>6, <1>12, <1>13, <1>14, <1>15, <1>16

LEMMA ToSetFinite ==
  ASSUME LedgerOK
  PROVE  IsFiniteSet(ToSet(ledger))
<1> DEFINE n == Len(ledger)  g == [i \in 1..n |-> ledger[i]]
<1>1. n \in Nat /\ DOMAIN ledger = 1..n
  BY LedgerTyped
<1>2. g \in Surjection(1..n, ToSet(ledger))
  BY <1>1 DEF Surjection, ToSet
<1>3. IsFiniteSet(1..n)
  BY <1>1, FS_Interval
<1> HIDE DEF g, n
<1> QED BY <1>2, <1>3, FS_Surjection

LEMMA EntryKind ==
  ASSUME NEW layout, NEW i
  PROVE  /\ Entry(layout, i).fitid.kind = layout
         /\ Entry(layout, i).day = ledger[i].day /\ Entry(layout, i).amount = ledger[i].amount
         /\ layout \notin {"ident", "ofx"} => Entry(layout, i).fitid.line = Shows(layout, Line(i))
         /\ Shows(layout, Line(i)).day = ledger[i].day /\ Shows(layout, Line(i)).amount = ledger[i].amount
<1>1. Entry(layout, i).day = ledger[i].day /\ Entry(layout, i).amount = ledger[i].amount
  BY DEF Entry
<1>2. Shows(layout, Line(i)).day = ledger[i].day /\ Shows(layout, Line(i)).amount = ledger[i].amount
  BY DEF Shows, Line
<1>3. CASE layout \in {"ident", "ofx"}
  <2>1. Entry(layout, i).fitid = [kind |-> layout, id |-> ledger[i].id]
    BY <1>3 DEF Entry
  <2> QED BY <1>1, <1>2, <1>3, <2>1
<1>4. CASE layout \notin {"ident", "ofx"}
  <2>1. Entry(layout, i).fitid = [kind |-> layout, line |-> Shows(layout, Line(i)),
          nth |-> Cardinality({j \in 1..i : Shows(layout, Line(j)) = Shows(layout, Line(i))})]
    BY <1>4 DEF Entry
  <2> QED BY <1>1, <1>2, <2>1
<1> QED BY <1>3, <1>4

\* So the rows stay transactions of movements when something is booked,
LEMMA BookingKeepsRows ==
  ASSUME FilesInv, NEW d \in Days, NEW x \in Amounts, BookMovement(d, x)
  PROVE  RowsOK' /\ HistoryOK' /\ NothingMissing'
<1> USE DEF FilesInv
<1>1. /\ books' = books /\ uploads' = uploads /\ covered' = covered
      /\ shifted' = shifted \cup {t.day : t \in {q \in books : q.day > d}}
  BY DEF BookMovement
<1>2. ASSUME NEW r \in books PROVE RowOK(r)'
  <2>1. RowOK(r)
    BY DEF RowsOK
  <2> DEFINE kind == r.fitid.kind
  <2>2. CASE r.fitid.kind = "balance" /\ r.day \in shifted /\ r.fitid.line.day = r.day /\ r.fitid.line.amount = r.amount
    BY <1>1, <2>1, <2>2 DEF RowOK
  <2>3. CASE \E i \in DOMAIN ledger : r = Entry(kind, i)
    <3>1. PICK i \in DOMAIN ledger : r = Entry(kind, i)
      BY <2>3
    <3> HIDE DEF kind
    <3>2. CASE i < Behind(d)
      <4>1. i \in DOMAIN ledger' /\ Entry(kind, i)' = Entry(kind, i)
        BY <3>2, EntryBefore
      <4>2. \E k \in DOMAIN ledger' : r = Entry(kind, k)'
        BY <3>1, <4>1
      <4> QED BY <2>1, <4>2 DEF RowOK, kind
    <3>3. CASE i >= Behind(d) /\ kind # "balance"
      <4>1. i + 1 \in DOMAIN ledger' /\ Entry(kind, i + 1)' = Entry(kind, i)
        BY <3>3, EntryBehind
      <4>2. \E k \in DOMAIN ledger' : r = Entry(kind, k)'
        BY <3>1, <4>1
      <4> QED BY <2>1, <4>2 DEF RowOK, kind
    <3>4. CASE i >= Behind(d) /\ kind = "balance"
      <4>1. ledger[i].day > d
        BY <3>4, Inserted
      <4>2. r.day = ledger[i].day /\ r.amount = ledger[i].amount
        BY <3>1, EntryKind
      <4>3. r.fitid.line = Shows(kind, Line(i))
        BY <3>1, <3>4, EntryKind
      <4>4. r.fitid.line.day = r.day /\ r.fitid.line.amount = r.amount
        BY <4>2, <4>3, EntryKind
      <4>5. r.day \in shifted'
        BY <1>1, <4>1, <4>2
      <4> QED BY <2>1, <3>4, <4>4, <4>5 DEF RowOK, kind
    <3>5. i < Behind(d) \/ i >= Behind(d)
      <4>1. i \in 1..Len(ledger) /\ Len(ledger) \in Nat
        BY LedgerTyped
      <4>2. Behind(d) \in 1..Len(ledger) + 1
        BY Inserted
      <4> QED BY <4>1, <4>2
    <3> QED BY <3>2, <3>3, <3>4, <3>5
  <2> QED BY <2>1, <2>2, <2>3 DEF RowOK
<1>3. RowsOK'
  BY <1>1, <1>2 DEF RowsOK
<1>4. ToSet(ledger) \subseteq ToSet(ledger')
  <2> SUFFICES ASSUME NEW i \in DOMAIN ledger PROVE \E k \in DOMAIN ledger' : ledger'[k] = ledger[i]
    BY DEF ToSet
  <2>1. /\ Behind(d) \in 1..Len(ledger) + 1 /\ ledger' \in Seq(Movement) /\ Len(ledger') = Len(ledger) + 1
        /\ i < Behind(d) => ledger'[i] = ledger[i]
        /\ i >= Behind(d) => ledger'[i + 1] = ledger[i]
    BY Inserted
  <2>2. DOMAIN ledger' = 1..Len(ledger) + 1
    BY <2>1, LenProperties
  <2>3. i \in 1..Len(ledger) /\ Len(ledger) \in Nat
    BY LedgerTyped
  <2>4. i \in DOMAIN ledger' /\ i + 1 \in DOMAIN ledger' /\ (i < Behind(d) \/ i >= Behind(d))
    BY <2>1, <2>2, <2>3
  <2> QED BY <2>1, <2>4
<1>5. shifted' \subseteq Days
  <2>1. \A r \in books : r.day \in Days
    BY DEF RowsOK, RowOK
  <2> QED BY <1>1, <2>1 DEF HistoryOK
<1>6. HistoryOK'
  BY <1>1, <1>4, <1>5 DEF HistoryOK
<1>7. NothingMissing'
  BY <1>1 DEF NothingMissing
<1> QED BY <1>3, <1>6, <1>7

\* and when a file is uploaded, which brings each movement of its days.
LEMMA UploadKeepsRows ==
  ASSUME FilesInv, NEW layout \in Layouts, NEW from \in Days, NEW to \in Days, Upload(layout, from, to)
  PROVE  /\ RowsOK' /\ books \subseteq books'
         /\ \A i \in Within(from, to) : \E r \in books' : r.fitid = Entry(layout, i).fitid
<1> USE DEF FilesInv
<1> DEFINE ts == Parse(Export(layout, from, to))
           n == Size(from, to)
           off == Before(from)
<1>1. from <= to /\ books' = FoldLeft(BulkUpsert, books, ts) /\ UNCHANGED <<ledger, shifted>>
  BY DEF Upload
<1>2. ts = [k \in 1..n |-> Entry(layout, k + off)]
  BY <1>1, Parsed
<1>3. /\ n \in Nat /\ off \in Nat /\ off + n <= Len(ledger)
      /\ Within(from, to) = (off + 1)..(off + n)
  BY <1>1, WholeDays
<1>4. DOMAIN ledger = 1..Len(ledger) /\ Len(ledger) \in Nat
  BY LedgerTyped
<1> DEFINE S0 == {Entry(layout, i) : i \in DOMAIN ledger}
<1> HIDE DEF ts, n, off
<1>5. \A k \in 1..n : k + off \in DOMAIN ledger
  BY <1>3, <1>4
<1>6. ts \in Seq(S0)
  <2>1. ts \in [1..n -> S0]
    BY <1>2, <1>5
  <2> HIDE DEF S0
  <2> QED BY <1>3, <2>1, SeqDef
<1>7. DOMAIN ts = 1..n /\ \A k \in 1..n : ts[k] = Entry(layout, k + off)
  BY <1>2
<1>8. /\ books \subseteq books'
      /\ books' \subseteq books \cup {ts[i] : i \in DOMAIN ts}
      /\ \A i \in DOMAIN ts : \E r \in books' : r.fitid = ts[i].fitid
      /\ \A r, t \in books' : r.fitid = t.fitid => r = t
  <2>1. \A r, t \in books : r.fitid = t.fitid => r = t
    BY DEF RowsOK
  <2> HIDE DEF S0, FilesInv
  <2> QED BY <1>1, <1>6, <2>1, Upserted
<1>9. \A r \in books' \ books : \E i \in DOMAIN ledger : r = Entry(layout, i)
  BY <1>5, <1>7, <1>8
<1>10. \A kind, i : Entry(kind, i)' = Entry(kind, i)
  BY <1>1 DEF Entry, Line, BalanceAt
<1>11. ASSUME NEW r \in books' PROVE RowOK(r)'
  <2>1. CASE r \in books
    <3>1. RowOK(r)
      BY <2>1 DEF RowsOK
    <3> QED BY <1>1, <1>10, <3>1 DEF RowOK
  <2>2. CASE r \notin books
    <3>1. PICK i \in DOMAIN ledger : r = Entry(layout, i)
      BY <1>9, <2>2
    <3>2. r.fitid.kind = layout /\ r.day = ledger[i].day /\ r.amount = ledger[i].amount
      BY <3>1, EntryKind
    <3>3. r.day \in Days /\ r.amount \in Amounts \ {0}
      BY <3>2, LedgerTyped
    <3>4. \E k \in DOMAIN ledger' : r = Entry(r.fitid.kind, k)'
      BY <1>1, <1>10, <3>1, <3>2
    <3> QED BY <3>2, <3>3, <3>4 DEF RowOK
  <2> QED BY <2>1, <2>2
<1>12. IsFiniteSet(books')
  <2>1. IsFiniteSet({ts[i] : i \in DOMAIN ts})
    <3> DEFINE T == {ts[i] : i \in DOMAIN ts}  g == [i \in 1..n |-> ts[i]]
    <3>1. g \in Surjection(1..n, T)
      BY <1>7 DEF Surjection
    <3>2. IsFiniteSet(1..n)
      BY <1>3, FS_Interval
    <3> HIDE DEF T, g
    <3>3. IsFiniteSet(T)
      BY <3>1, <3>2, FS_Surjection
    <3> QED BY <3>3 DEF T
  <2>2. IsFiniteSet(books \cup {ts[i] : i \in DOMAIN ts})
    <3>1. IsFiniteSet(books)
      BY DEF RowsOK
    <3> QED BY <2>1, <3>1, FS_Union
  <2> QED BY <1>8, <2>2, FS_Subset
<1>13. RowsOK'
  BY <1>8, <1>11, <1>12 DEF RowsOK
<1>14. ASSUME NEW i \in Within(from, to) PROVE \E r \in books' : r.fitid = Entry(layout, i).fitid
  <2> DEFINE k == i - off
  <2>1. k \in 1..n /\ k + off = i
    BY <1>3
  <2> HIDE DEF k
  <2> QED BY <1>7, <1>8, <2>1
<1> QED BY <1>8, <1>13, <1>14

\* Of equal movements of a day in the file, each has a row of its own; other days lose
\* nothing.
LEMMA UploadMissesNothing ==
  ASSUME FilesInv, NEW layout \in Layouts, NEW from \in Days, NEW to \in Days, Upload(layout, from, to)
  PROVE  NothingMissing' /\ HistoryOK'
<1> USE DEF FilesInv
<1>1. /\ covered' = covered \cup {ledger[i] : i \in Within(from, to)} /\ uploads' = uploads + 1
      /\ ledger' = ledger /\ shifted' = shifted
  BY DEF Upload
<1>2. /\ RowsOK' /\ books \subseteq books'
      /\ \A i \in Within(from, to) : \E r \in books' : r.fitid = Entry(layout, i).fitid
  BY UploadKeepsRows
<1>3. /\ DOMAIN ledger = 1..Len(ledger)
      /\ \A i \in DOMAIN ledger : ledger[i].day \in Nat
      /\ \A i, j \in DOMAIN ledger : ledger[i] = ledger[j] => i = j
  BY LedgerTyped DEF LedgerOK
<1>4. covered' \subseteq ToSet(ledger)
  <2>1. \A i \in Within(from, to) : ledger[i] \in ToSet(ledger)
    BY DEF Within, ToSet
  <2> QED BY <1>1, <2>1 DEF HistoryOK
<1>5. HistoryOK'
  BY <1>1, <1>4 DEF HistoryOK
<1>6. IsFiniteSet(books') /\ \A r \in books' : RowOK(r)'
  BY <1>2 DEF RowsOK
<1>7. \A kind, i : Entry(kind, i)' = Entry(kind, i)
  BY <1>1 DEF Entry, Line, BalanceAt
<1>8. ASSUME NEW d \in Days, NEW x \in Amounts
      PROVE  Cardinality(Alike(books', d, x)) >= Cardinality(Alike(covered', d, x))
  <2> DEFINE M == Alike(covered', d, x)  R == Alike(books', d, x)
             RowOf(m, r) == \E i \in DOMAIN ledger : ledger[i] = m /\ r.fitid = Entry(layout, i).fitid
             f == [m \in M |-> CHOOSE r \in books' : RowOf(m, r)]
  <2>1. IsFiniteSet(R)
    <3>1. R \subseteq books'
      BY DEF Alike
    <3> QED BY <1>6, <3>1, FS_Subset
  <2>2. CASE d \in from..to
    <3>1. ASSUME NEW m \in M PROVE \E r \in books' : RowOf(m, r)
      <4>1. m \in ToSet(ledger) /\ m.day = d
        BY <1>4 DEF Alike
      <4>2. PICK i \in DOMAIN ledger : ledger[i] = m
        BY <4>1 DEF ToSet
      <4>3. i \in Within(from, to)
        BY <2>2, <4>1, <4>2 DEF Within
      <4> QED BY <1>2, <4>2, <4>3
    <3>2. ASSUME NEW m \in M, NEW r \in books', RowOf(m, r) PROVE r \in R
      <4>1. PICK i \in DOMAIN ledger : ledger[i] = m /\ r.fitid = Entry(layout, i).fitid
        BY <3>2
      <4>2. m.day = d /\ m.amount = x
        BY DEF Alike
      <4>3. r.fitid.kind = layout
        BY <4>1, EntryKind
      <4>4. RowOK(r)'
        BY <1>6
      <4>5. CASE \E j \in DOMAIN ledger : r = Entry(layout, j)
        <5>1. PICK j \in DOMAIN ledger : r = Entry(layout, j)
          BY <4>5
        <5>2. j = i
          BY <4>1, <5>1, EntryDistinct
        <5>3. r.day = d /\ r.amount = x
          BY <4>1, <4>2, <5>1, <5>2, EntryKind
        <5> QED BY <5>3 DEF Alike
      <4>6. CASE layout = "balance" /\ r.fitid.line.day = r.day /\ r.fitid.line.amount = r.amount
        <5>1. r.fitid.line = Shows(layout, Line(i))
          BY <4>1, <4>6, EntryKind
        <5>2. r.day = d /\ r.amount = x
          BY <4>1, <4>2, <4>6, <5>1, EntryKind
        <5> QED BY <5>2 DEF Alike
      <4> QED BY <1>1, <1>7, <4>3, <4>4, <4>5, <4>6 DEF RowOK
    <3>3. \A m \in M : f[m] \in books' /\ RowOf(m, f[m])
      <4> TAKE m \in M
      <4>1. \E r \in books' : RowOf(m, r)
        BY <3>1
      <4>2. f[m] = CHOOSE r \in books' : RowOf(m, r)
        OBVIOUS
      <4> HIDE DEF RowOf, f
      <4> QED BY <4>1, <4>2
    <3>4. f \in [M -> R]
      <4>1. \A m \in M : f[m] \in R
        <5> HIDE DEF f, R, RowOf, M
        <5> QED BY <3>2, <3>3
      <4> QED BY <4>1
    <3>5. \A m1, m2 \in M : f[m1] = f[m2] => m1 = m2
      <4> SUFFICES ASSUME NEW m1 \in M, NEW m2 \in M, f[m1] = f[m2] PROVE m1 = m2
        BY Zenon
      <4> HIDE DEF f, M, R
      <4>1. PICK i \in DOMAIN ledger : ledger[i] = m1 /\ f[m1].fitid = Entry(layout, i).fitid
        BY <3>3
      <4>2. PICK j \in DOMAIN ledger : ledger[j] = m2 /\ f[m2].fitid = Entry(layout, j).fitid
        BY <3>3
      <4>3. i = j
        BY <4>1, <4>2, EntryDistinct
      <4> QED BY <4>1, <4>2, <4>3
    <3>6. f \in Injection(M, R)
      <4> HIDE DEF f, M, R
      <4> QED BY <3>4, <3>5 DEF Injection, IsInjective
    <3>7. Cardinality(M) <= Cardinality(R) /\ IsFiniteSet(M)
      <4> HIDE DEF f, M, R
      <4> QED BY <2>1, <3>6, FS_Injection
    <3> HIDE DEF f, M, R
    <3>8. Cardinality(R) >= Cardinality(M)
      BY <2>1, <3>7, FS_CardinalityType
    <3> QED BY <3>8 DEF M, R
  <2>3. CASE d \notin from..to
    <3>1. M = Alike(covered, d, x)
      BY <1>1, <2>3 DEF Alike, Within
    <3>2. Alike(books, d, x) \subseteq R
      BY <1>2 DEF Alike
    <3>3. Cardinality(Alike(books, d, x)) >= Cardinality(Alike(covered, d, x))
      BY DEF NothingMissing
    <3>4. Cardinality(Alike(books, d, x)) <= Cardinality(R) /\ IsFiniteSet(Alike(books, d, x))
      <4> HIDE DEF R
      <4> QED BY <2>1, <3>2, FS_Subset
    <3>5. IsFiniteSet(Alike(covered, d, x))
      <4>1. IsFiniteSet(ToSet(ledger))
        BY ToSetFinite
      <4>2. Alike(covered, d, x) \subseteq ToSet(ledger)
        BY DEF Alike, HistoryOK
      <4> QED BY <4>1, <4>2, FS_Subset
    <3> HIDE DEF M, R
    <3>6. Cardinality(R) \in Nat /\ Cardinality(M) \in Nat /\ Cardinality(Alike(books, d, x)) \in Nat
      BY <2>1, <3>1, <3>4, <3>5, FS_CardinalityType
    <3>7. Cardinality(R) >= Cardinality(M)
      BY <3>1, <3>3, <3>4, <3>6
    <3> QED BY <3>7 DEF M, R
  <2> QED BY <2>2, <2>3
<1>9. NothingMissing'
  BY <1>8 DEF NothingMissing
<1> QED BY <1>5, <1>9

\* Rows of one format are transactions of different movements: no more than there are.
LEMMA TwiceNever ==
  ASSUME FilesInv
  PROVE  NothingTwice
<1> USE DEF FilesInv
<1> SUFFICES ASSUME NEW d \in Days, NEW x \in Amounts,
                    Cardinality(Alike(books, d, x)) > Cardinality(Alike(ToSet(ledger), d, x))
             PROVE  LET kinds == {r.fitid.kind : r \in Alike(books, d, x)} IN
                    Cardinality(kinds) > 1 \/ (kinds = {"balance"} /\ d \in shifted)
  BY DEF NothingTwice
<1> DEFINE R == Alike(books, d, x)  M == Alike(ToSet(ledger), d, x)
           kinds == {r.fitid.kind : r \in R}
<1>1. IsFiniteSet(M) /\ Cardinality(M) \in Nat
  <2>1. M \subseteq ToSet(ledger) /\ IsFiniteSet(ToSet(ledger))
    BY ToSetFinite DEF Alike
  <2> HIDE DEF M
  <2> QED BY <2>1, FS_Subset, FS_CardinalityType
<1>2. IsFiniteSet(R) /\ Cardinality(R) \in Nat
  <2>1. R \subseteq books /\ IsFiniteSet(books)
    BY DEF Alike, RowsOK
  <2> HIDE DEF R
  <2> QED BY <2>1, FS_Subset, FS_CardinalityType
<1>3. IsFiniteSet(kinds) /\ Cardinality(kinds) \in Nat
  <2> DEFINE g == [r \in R |-> r.fitid.kind]
  <2>1. g \in Surjection(R, kinds)
    BY DEF Surjection
  <2> HIDE DEF g, R, kinds
  <2> QED BY <1>2, <2>1, FS_Surjection, FS_CardinalityType
<1>4. R # {}
  <2>1. SUFFICES ASSUME R = {} PROVE FALSE
    OBVIOUS
  <2>2. Cardinality(R) = 0
    BY <2>1, FS_EmptySet
  <2> HIDE DEF R, M
  <2>3. Cardinality(R) > Cardinality(M)
    BY DEF R, M
  <2> QED BY <1>1, <2>2, <2>3
<1>5. CASE Cardinality(kinds) > 1
  BY <1>5
<1>6. CASE ~ (Cardinality(kinds) > 1)
  <2>1. PICK k : kinds = {k}
    <3>1. PICK r \in R : TRUE
      BY <1>4
    <3>2. r.fitid.kind \in kinds
      OBVIOUS
    <3>3. {r.fitid.kind} \subseteq kinds /\ IsFiniteSet({r.fitid.kind}) /\ Cardinality({r.fitid.kind}) = 1
      BY <3>2, FS_Singleton
    <3> HIDE DEF kinds
    <3>4. Cardinality({r.fitid.kind}) <= Cardinality(kinds)
      BY <1>3, <3>3, FS_Subset
    <3>5. {r.fitid.kind} = kinds
      BY <1>3, <1>6, <3>3, <3>4, FS_Subset
    <3> QED BY <3>5
  <2>2. CASE k = "balance" /\ d \in shifted
    BY <2>1, <2>2
  <2>3. CASE ~ (k = "balance" /\ d \in shifted)
    <3>1. ASSUME NEW r \in R PROVE \E i \in DOMAIN ledger : r = Entry(k, i)
      <4>1. r \in books /\ r.day = d
        BY DEF Alike
      <4>2. RowOK(r)
        BY <4>1 DEF RowsOK
      <4>3. r.fitid.kind = k
        BY <2>1
      <4> QED BY <2>3, <4>1, <4>2, <4>3 DEF RowOK
    <3> DEFINE At(r) == CHOOSE i \in DOMAIN ledger : r = Entry(k, i)
               f == [r \in R |-> ledger[At(r)]]
    <3>2. \A r \in R : At(r) \in DOMAIN ledger /\ r = Entry(k, At(r))
      <4> HIDE DEF R
      <4> QED BY <3>1
    <3> HIDE DEF At
    <3>3. \A r \in R : f[r] \in M
      <4> TAKE r \in R
      <4>1. f[r] = ledger[At(r)] /\ f[r] \in ToSet(ledger)
        BY <3>2 DEF ToSet
      <4>2. r.day = ledger[At(r)].day /\ r.amount = ledger[At(r)].amount
        BY <3>2, EntryKind
      <4>3. r.day = d /\ r.amount = x
        BY DEF Alike
      <4> QED BY <4>1, <4>2, <4>3 DEF Alike
    <3>4. \A r1, r2 \in R : f[r1] = f[r2] => r1 = r2
      <4> SUFFICES ASSUME NEW r1 \in R, NEW r2 \in R, f[r1] = f[r2] PROVE r1 = r2
        BY Zenon
      <4>1. ledger[At(r1)] = ledger[At(r2)]
        OBVIOUS
      <4>2. At(r1) = At(r2)
        BY <3>2, <4>1 DEF LedgerOK
      <4> QED BY <3>2, <4>2
    <3>5. f \in [R -> M]
      BY <3>3
    <3> HIDE DEF f, R, M
    <3>6. f \in Injection(R, M)
      BY <3>4, <3>5 DEF Injection, IsInjective
    <3>7. Cardinality(R) <= Cardinality(M)
      BY <1>1, <3>6, FS_Injection
    <3>8. Cardinality(R) > Cardinality(M)
      BY DEF R, M
    <3> QED BY <1>1, <1>2, <3>7, <3>8
  <2> QED BY <2>2, <2>3
<1> QED BY <1>5, <1>6

LEMMA FilesStart == FilesInit => FilesInv
<1> SUFFICES ASSUME FilesInit PROVE FilesInv
  OBVIOUS
<1>1. ledger = <<>> /\ books = {} /\ uploads = 0 /\ covered = {} /\ shifted = {}
  BY DEF FilesInit
<1>2. LedgerOK
  <2>1. ledger \in Seq(Movement) /\ Len(ledger) = 0 /\ DOMAIN ledger = {}
    BY <1>1
  <2> QED BY <2>1, FilesAssumption DEF LedgerOK
<1>3. RowsOK
  BY <1>1, FS_EmptySet DEF RowsOK
<1>4. HistoryOK
  BY <1>1 DEF HistoryOK
<1>5. NothingMissing
  <2>1. \A d, x : Alike(books, d, x) = {} /\ Alike(covered, d, x) = {}
    BY <1>1 DEF Alike
  <2>2. Cardinality({}) >= Cardinality({})
    BY FS_EmptySet
  <2> QED BY <2>1, <2>2 DEF NothingMissing
<1> QED BY <1>2, <1>3, <1>4, <1>5 DEF FilesInv

LEMMA FilesStep == FilesInv /\ [FilesNext]_filesVars => FilesInv'
<1> SUFFICES ASSUME FilesInv, [FilesNext]_filesVars PROVE FilesInv'
  OBVIOUS
<1>1. ASSUME NEW d \in Days, NEW x \in Amounts, BookMovement(d, x) PROVE FilesInv'
  BY <1>1, LedgerGrows, BookingKeepsRows DEF FilesInv
<1>2. ASSUME NEW layout \in Layouts, NEW from \in Days, NEW to \in Days, Upload(layout, from, to)
      PROVE  FilesInv'
  <2>1. ledger' = ledger
    BY <1>2 DEF Upload
  <2>2. LedgerOK'
    BY <2>1 DEF LedgerOK, FilesInv
  <2> QED BY <1>2, <2>2, UploadKeepsRows, UploadMissesNothing DEF FilesInv
<1>3. CASE UNCHANGED filesVars
  <2>1. \A kind, i : Entry(kind, i)' = Entry(kind, i)
    BY <1>3 DEF filesVars, Entry, Line, BalanceAt
  <2>2. \A r \in books : RowOK(r) => RowOK(r)'
    BY <1>3, <2>1 DEF filesVars, RowOK
  <2>3. RowsOK'
    BY <1>3, <2>2 DEF filesVars, RowsOK, FilesInv
  <2> QED BY <1>3, <2>3 DEF filesVars, FilesInv, LedgerOK, HistoryOK, NothingMissing
<1> QED BY <1>1, <1>2, <1>3 DEF FilesNext

LEMMA FilesInvGives == FilesInv => FilesTypeOK /\ EachMovementOnce
<1> SUFFICES ASSUME FilesInv PROVE FilesTypeOK /\ EachMovementOnce
  OBVIOUS
<1>1. FilesTypeOK
  BY DEF FilesInv, LedgerOK, RowsOK, RowOK, HistoryOK, FilesTypeOK
<1>2. EachMovementOnce
  BY TwiceNever DEF FilesInv, EachMovementOnce
<1> QED BY <1>1, <1>2

\* A movement that a file has shown is in the books once, whatever files overlap and
\* whatever the bank books in between, back-dated or not, equal or not: fewer rows
\* never, more only by a line with a balance in which a booking before it has changed
\* the FITID, or by files of two formats, for any number of movements and files
\* (internal/csvparser/parser.go:77-104, internal/repository/transaction.go:29-77).
THEOREM MovementsOnce == FilesSpec => []EachMovementOnce
<1>1. FilesInv => EachMovementOnce
  BY FilesInvGives
<1> QED BY <1>1, FilesStart, FilesStep, PTL DEF FilesSpec

-----------------------------------------------------------------------------
(* The types of the parts side by side: MCParts.                            *)

\* Beside ListingInv: the days and the numbers stay in their bounds.
ListingBounds ==
  /\ today \in 0..LastDay /\ changes \in 0..MaxChanges
  /\ \A r \in Rows : row[r].day \in 0..LastDay
  /\ Len(list.data) <= MaxLimit /\ list.total <= Cardinality(Rows)

LEMMA PageBounded ==
  ASSUME ListingInv, list.at = "page", NEW s \in Orders, NEW cut \in BOOLEAN,
         cut => PageEnd(s) > PageStart
  PROVE  Len(PageData(s, cut)) <= list.limit
<1> DEFINE k == PageStart
           m == IF cut THEN PageEnd(s) - 1 ELSE PageEnd(s)
<1>1. /\ k \in Nat /\ PageEnd(s) \in 0..Len(s) /\ list.limit \in Nat \ {0}
      /\ PageEnd(s) = IF k + list.limit <= Len(s) THEN k + list.limit ELSE Len(s)
  BY PageFacts
<1>2. Len(s) \in Nat /\ s \in [1..Len(s) -> Matching]
  BY OrderFacts
<1>3. PageEnd(s) <= k + list.limit
  BY <1>1, <1>2
<1>4. m \in Int /\ m <= Len(s) /\ m <= k + list.limit
  BY <1>1, <1>2, <1>3
<1>5. PageData(s, cut) = SubSeq(s, k + 1, m)
  BY DEF PageData
<1> HIDE DEF k, m
<1>6. \A i \in (k + 1)..m : s[i] \in Matching
  BY <1>1, <1>2, <1>4
<1>7. Len(SubSeq(s, k + 1, m)) = IF k + 1 <= m THEN m - (k + 1) + 1 ELSE 0
  BY <1>1, <1>4, <1>6, SubSeqProperties
<1> QED BY <1>1, <1>4, <1>5, <1>7

LEMMA BoundsKept ==
  ASSUME ListingInv, ListingBounds, [ListingNext]_listingVars
  PROVE  ListingBounds'
<1> USE DEF ListingBounds
<1>0. /\ list \in ListPage /\ walk \in ListWalk
      /\ row \in [Rows -> [account : ListAccounts, day : Int, at : {"new", "there", "gone"}]]
  BY DEF ListingInv, ListingTypes
<1>1. IsFiniteSet(Rows) /\ Cardinality(Rows) \in Nat /\ MaxLimit \in Nat /\ LastDay \in Nat /\ MaxChanges \in Nat
  BY ListingAssumption, FS_CardinalityType
<1>2. NoList.data = <<>> /\ Len(<<>>) = 0 /\ NoList.total = 0
  BY DEF NoList
<1>3. ASSUME NEW what \in {"rows", "visible", "plan"}, Change(what)
      PROVE  changes' \in 0..MaxChanges /\ list'.data = list.data /\ list'.total = list.total
  <2>1. changes' \in 0..MaxChanges
    BY <1>1, <1>3 DEF Change
  <2>2. list'.data = list.data /\ list'.total = list.total
    BY <1>0, <1>3 DEF Change, ListPage
  <2> QED BY <2>1, <2>2
<1>4. ASSUME NEW r \in Rows, ChangeRow(r) PROVE ListingBounds'
  <2>1. Change("rows") /\ UNCHANGED <<today, visible, free>>
    BY <1>4 DEF ChangeRow
  <2>2. \A q \in Rows : row'[q].day = row[q].day
    BY <1>0, <1>4 DEF ChangeRow
  <2> QED BY <1>3, <2>1, <2>2
<1>5. ASSUME NEW a \in ListAccounts, ChangeVisible(a) PROVE ListingBounds'
  BY <1>3, <1>5 DEF ChangeVisible
<1>6. CASE ChangePlan
  BY <1>3, <1>6 DEF ChangePlan
<1>7. CASE NextDay
  <2>1. today' \in 0..LastDay /\ UNCHANGED <<row, changes>>
    BY <1>1, <1>7 DEF NextDay
  <2>2. list'.data = list.data /\ list'.total = list.total
    BY <1>0, <1>7 DEF NextDay, ListPage
  <2> QED BY <2>1, <2>2
<1>8. CASE \E limit \in Limits, accounts \in SUBSET ListAccounts, from \in Froms :
             BeginWalk(limit, accounts, from)
  BY <1>8 DEF BeginWalk
<1>9. ASSUME NEW seen \in SUBSET visible, ReadVisible(seen) PROVE ListingBounds'
  <2>1. list'.data = <<>> /\ list'.total = 0
    BY <1>9, <1>2 DEF ReadVisible, NoList
  <2> QED BY <1>1, <1>2, <1>9, <2>1 DEF ReadVisible
<1>10. ASSUME NEW fails \in BOOLEAN, ReadPlan(fails) PROVE ListingBounds'
  <2>1. list'.data = list.data /\ list'.total = list.total
    BY <1>0, <1>10 DEF ReadPlan, ListPage
  <2> QED BY <1>10, <2>1 DEF ReadPlan
<1>11. CASE CountRows
  <2>1. list'.data = list.data /\ list'.total = Cardinality(Matching)
    BY <1>0, <1>11 DEF CountRows, ListPage
  <2>2. Cardinality(Matching) <= Cardinality(Rows)
    <3>1. Matching \subseteq Rows
      BY DEF Matching
    <3> QED BY <1>1, <3>1, FS_Subset
  <2> QED BY <1>11, <2>1, <2>2 DEF CountRows
<1>12. ASSUME list.at = "page", NEW s \in Orders, NEW cut \in BOOLEAN, ReadRows(s, cut)
       PROVE  ListingBounds'
  <2>1. list'.data = PageData(s, cut) /\ list'.total = list.total
    BY <1>0, <1>12 DEF ReadRows, ListPage, PageData, PageStart, PageEnd
  <2>2. Len(PageData(s, cut)) <= list.limit
    <3>1. cut => PageEnd(s) > PageStart
      BY <1>12 DEF ReadRows, PageEnd, PageStart
    <3> QED BY <1>12, <3>1, PageBounded
  <2>3. list.limit <= MaxLimit
    <3>1. list.limit = Clamp(walk.limit)
      BY <1>12 DEF ListingInv, ListFits
    <3>2. walk.limit \in Int /\ DefaultLimit \in 1..MaxLimit
      BY <1>0, ListingAssumption DEF ListWalk
    <3> QED BY <1>1, <3>1, <3>2 DEF Clamp
  <2>4. PageData(s, cut) \in Seq(Rows) /\ list.limit \in Nat
    <3>1. cut => PageEnd(s) > PageStart
      BY <1>12 DEF ReadRows, PageEnd, PageStart
    <3> QED BY <1>12, <3>1, PageFacts
  <2>5. Len(list'.data) <= MaxLimit
    <3>1. Len(PageData(s, cut)) \in Nat
      BY <2>4, LenProperties
    <3> QED BY <1>1, <2>1, <2>2, <2>3, <2>4, <3>1
  <2> QED BY <1>12, <2>1, <2>5 DEF ReadRows
<1>13. CASE TakePage
  BY <1>1, <1>2, <1>13 DEF TakePage
<1>14. CASE GiveUp
  BY <1>1, <1>2, <1>14 DEF GiveUp
<1>15. CASE UNCHANGED listingVars
  BY <1>15 DEF listingVars
<1> QED BY <1>4, <1>5, <1>6, <1>7, <1>8, <1>9, <1>10, <1>11, <1>12, <1>13, <1>14, <1>15 DEF ListingNext

LEMMA ListingTyped == ListingInv /\ ListingBounds => ListingTypeOK
<1> SUFFICES ASSUME ListingInv, ListingBounds PROVE ListingTypeOK
  OBVIOUS
<1>1. /\ list \in ListPage /\ walk \in ListWalk /\ visible \in SUBSET ListAccounts /\ free \in BOOLEAN
      /\ row \in [Rows -> [account : ListAccounts, day : Int, at : {"new", "there", "gone"}]]
  BY DEF ListingInv, ListingTypes
<1>2. /\ list.at \in {"idle", "plan", "count", "page", "done"} /\ list.data \in Seq(Rows)
      /\ list.allowed \subseteq ListAccounts /\ list.from \in Int /\ list.total \in Nat /\ walk.page \in Nat
  BY <1>1 DEF ListPage, ListWalk
<1>3. row \in [Rows -> [account : ListAccounts, day : 0..LastDay, at : {"new", "there", "gone"}]]
  BY <1>1 DEF ListingBounds
<1>4. list.total \in 0..Cardinality(Rows)
  <2>1. Cardinality(Rows) \in Nat
    BY ListingAssumption, FS_CardinalityType
  <2> QED BY <1>2, <2>1 DEF ListingBounds
<1> QED BY <1>1, <1>2, <1>3, <1>4 DEF ListingBounds, ListingTypeOK

\* The limiter: each request has its own number, so each counts once.
AnswersCount ==
  /\ LimiterTypeOK
  /\ IsFiniteSet(admitted) /\ IsFiniteSet(denied)
  /\ \A a \in admitted \cup denied : a.nth < asked

LEMMA AnswersCountKept ==
  ASSUME AnswersCount, [LimiterNext]_limiterVars
  PROVE  AnswersCount'
<1> DEFINE Entries == [count : 0..MaxPerWindow, resetAt : Int]
<1>0. /\ MaxPerWindow \in Nat \ {0} /\ Window \in Nat /\ LastInstant \in Nat /\ MaxAsked \in Nat
      /\ NoEntry \in Entries
  BY LimiterAssumption DEF NoEntry
<1>1. /\ instant \in 0..LastInstant /\ asked \in 0..MaxAsked
      /\ entries \in [Replicas -> [Keys -> Entries]]
      /\ admitted \subseteq Ever /\ denied \subseteq Ever
      /\ Cardinality(admitted) + Cardinality(denied) = asked
      /\ IsFiniteSet(admitted) /\ IsFiniteSet(denied)
      /\ \A a \in admitted \cup denied : a.nth < asked
  BY DEF AnswersCount, LimiterTypeOK
<1>2. Cardinality(admitted) \in Nat /\ Cardinality(denied) \in Nat
  BY <1>1, FS_CardinalityType
<1>3. ASSUME NEW r \in Replicas, NEW k \in Keys, Allow(r, k) PROVE AnswersCount'
  <2> DEFINE e == entries[r][k]
             q == [replica |-> r, key |-> k, at |-> instant, nth |-> asked]
  <2>1. Ask(r, k) = {q}
    <3>1. q \in Ask(r, k)
      BY DEF Ask
    <3>2. ASSUME NEW y \in Ask(r, k) PROVE y = q
      BY <3>2 DEF Ask
    <3> HIDE DEF q
    <3> QED BY <3>1, <3>2
  <2>2. q \in Ever /\ q \notin admitted /\ q \notin denied /\ q.nth = asked
    <3>1. q \in Ever /\ q.nth = asked
      BY <1>0, <1>1 DEF Ever
    <3>2. ~ (asked < asked)
      BY <1>1
    <3> QED BY <1>1, <3>1, <3>2
  <2>3. asked' = asked + 1 /\ asked < MaxAsked /\ instant' = instant
    BY <1>3 DEF Allow
  <2>4. e \in Entries
    BY <1>1
  <2>5. entries' \in [Replicas -> [Keys -> Entries]]
    <3>1. CASE entries' = [entries EXCEPT ![r][k] = [count |-> 1, resetAt |-> instant + Window]]
      <4>1. [count |-> 1, resetAt |-> instant + Window] \in Entries
        BY <1>0, <1>1
      <4> HIDE DEF Entries
      <4> QED BY <1>1, <3>1, <4>1
    <3>2. CASE HasRoom(e) /\ entries' = [entries EXCEPT ![r][k].count = @ + 1]
      <4>1. [e EXCEPT !.count = @ + 1] \in Entries
        BY <1>0, <2>4, <3>2 DEF HasRoom
      <4>2. entries' = [entries EXCEPT ![r][k] = [e EXCEPT !.count = @ + 1]]
        BY <1>1, <3>2
      <4> HIDE DEF Entries, e
      <4> QED BY <1>1, <4>1, <4>2
    <3>3. CASE entries' = entries
      BY <1>1, <3>3
    <3> QED BY <1>3, <3>1, <3>2, <3>3 DEF Allow
  <2> HIDE DEF q, e, Entries
  <2>6. \/ admitted' = admitted \cup {q} /\ denied' = denied
        \/ denied' = denied \cup {q} /\ admitted' = admitted
    BY <1>3, <2>1 DEF Allow
  <2>7. /\ IsFiniteSet(admitted \cup {q}) /\ Cardinality(admitted \cup {q}) = Cardinality(admitted) + 1
        /\ IsFiniteSet(denied \cup {q}) /\ Cardinality(denied \cup {q}) = Cardinality(denied) + 1
    BY <1>1, <2>2, FS_AddElement
  <2>8. /\ Cardinality(admitted') + Cardinality(denied') = asked'
        /\ IsFiniteSet(admitted') /\ IsFiniteSet(denied')
    <3>1. \/ /\ Cardinality(admitted') = Cardinality(admitted) + 1
             /\ Cardinality(denied') = Cardinality(denied)
          \/ /\ Cardinality(admitted') = Cardinality(admitted)
             /\ Cardinality(denied') = Cardinality(denied) + 1
      BY <2>6, <2>7
    <3>2. Cardinality(admitted') + Cardinality(denied') = asked'
      BY <1>1, <1>2, <2>3, <3>1
    <3> QED BY <1>1, <2>6, <2>7, <3>2
  <2>9. \A a \in admitted' \cup denied' : a.nth < asked'
    <3>1. \A a \in admitted \cup denied : a.nth \in Nat
      BY <1>0, <1>1 DEF Ever
    <3>2. \A a \in admitted \cup denied \cup {q} : a.nth < asked + 1
      BY <1>1, <2>2, <3>1
    <3> QED BY <2>3, <2>6, <3>2
  <2>10. admitted' \subseteq Ever /\ denied' \subseteq Ever
    BY <1>1, <2>2, <2>6
  <2>11. asked' \in 0..MaxAsked /\ instant' \in 0..LastInstant
    BY <1>0, <1>1, <2>3
  <2> QED BY <2>5, <2>8, <2>9, <2>10, <2>11 DEF AnswersCount, LimiterTypeOK, Entries
<1>4. ASSUME NEW r \in Replicas, Cleanup(r) \/ Reboot(r) PROVE AnswersCount'
  <2>1. UNCHANGED <<instant, admitted, denied, asked>>
    BY <1>4 DEF Cleanup, Reboot
  <2>2. entries' \in [Replicas -> [Keys -> Entries]]
    <3> HIDE DEF Entries
    <3>1. CASE Cleanup(r)
      <4>1. entries' = [entries EXCEPT ![r] = [k \in Keys |-> IF Expired(entries[r][k]) THEN NoEntry ELSE entries[r][k]]]
        BY <1>1, <3>1 DEF Cleanup
      <4>2. [k \in Keys |-> IF Expired(entries[r][k]) THEN NoEntry ELSE entries[r][k]] \in [Keys -> Entries]
        BY <1>0, <1>1
      <4> QED BY <1>1, <4>1, <4>2
    <3>2. CASE Reboot(r)
      BY <1>0, <1>1, <3>2 DEF Reboot
    <3> QED BY <1>4, <3>1, <3>2
  <2> QED BY <1>1, <2>1, <2>2 DEF AnswersCount, LimiterTypeOK, Entries
<1>5. CASE Pass
  <2>1. instant' \in 0..LastInstant /\ UNCHANGED <<entries, admitted, denied, asked>>
    BY <1>0, <1>1, <1>5 DEF Pass
  <2> QED BY <1>1, <2>1 DEF AnswersCount, LimiterTypeOK
<1>6. CASE UNCHANGED limiterVars
  BY <1>6 DEF limiterVars, AnswersCount, LimiterTypeOK
<1> QED BY <1>3, <1>4, <1>5, <1>6 DEF LimiterNext

\* The runner: what it is about to record is one of the migrations.
RunnersTyped ==
  /\ MigrationsTypeOK
  /\ \A m \in Machines : runner[m].at = "record" => runner[m].next \in Ids

LEMMA RunnersTypedKept ==
  ASSUME RunnersTyped, [MigrationsNext]_migrationVars
  PROVE  RunnersTyped'
<1> DEFINE Processes == [at : {"idle", "read", "loop", "record"}, build : 0..LastMigration,
                         applied : SUBSET Ids, next : 1..(LastMigration + 1)]
<1>0. LastMigration \in Nat \ {0} /\ Ids = 1..LastMigration /\ NoRunner \in Processes /\ NoRunner.at = "idle"
  BY MigrationsAssumption DEF Ids, NoRunner
<1>1. /\ recorded \subseteq Ids /\ effects \subseteq Ids /\ runs \in Nat /\ repeated \subseteq Ids
      /\ excused \subseteq Ids /\ runner \in [Machines -> Processes]
      /\ \A m \in Machines : runner[m].at = "record" => runner[m].next \in Ids
  BY DEF RunnersTyped, MigrationsTypeOK
<1> DEFINE Put(m, p) == /\ p \in Processes /\ (p.at = "record" => p.next \in Ids)
                        /\ runner' = [runner EXCEPT ![m] = p]
<1>2. ASSUME NEW m \in Machines, NEW p, Put(m, p),
             recorded' \subseteq Ids, effects' \subseteq Ids, runs' \in Nat, repeated' \subseteq Ids,
             excused' \subseteq Ids
      PROVE  RunnersTyped'
  <2> HIDE DEF Processes
  <2>1. runner' \in [Machines -> Processes] /\ \A n \in Machines : runner'[n] = IF n = m THEN p ELSE runner[n]
    BY <1>1, <1>2
  <2>2. \A n \in Machines : runner'[n].at = "record" => runner'[n].next \in Ids
    BY <1>1, <1>2, <2>1
  <2> QED BY <1>2, <2>1, <2>2 DEF RunnersTyped, MigrationsTypeOK, Processes
<1>3. ASSUME NEW m \in Machines PROVE
        /\ runner[m] \in Processes
        /\ runner[m].at = "loop" /\ runner[m].next <= runner[m].build => runner[m].next \in Ids
        /\ runner[m].next \in Ids => runner[m].next + 1 \in 1..(LastMigration + 1)
  BY <1>0, <1>1
<1>4. ASSUME NEW m \in Machines, NEW build \in Ids, StartRunner(m, build) PROVE RunnersTyped'
  <2> DEFINE p == [NoRunner EXCEPT !.at = "read", !.build = build]
  <2>1. p \in Processes /\ p.at = "read"
    <3>1. NoRunner \in Processes /\ build \in 0..LastMigration
      BY <1>0
    <3> HIDE DEF NoRunner
    <3> QED BY <3>1
  <2>2. Put(m, p)
    BY <1>4, <2>1 DEF StartRunner
  <2> HIDE DEF p, Put
  <2> QED BY <1>1, <1>2, <1>4, <2>2 DEF StartRunner
<1>5. ASSUME NEW m \in Machines, NEW ids \in SUBSET recorded, ReadApplied(m, ids) PROVE RunnersTyped'
  <2> DEFINE p == [runner[m] EXCEPT !.at = "loop", !.applied = ids]
  <2>1. p \in Processes /\ p.at = "loop"
    BY <1>1, <1>3
  <2>2. runner' = [runner EXCEPT ![m] = p]
    BY <1>1, <1>5 DEF ReadApplied
  <2>3. Put(m, p)
    BY <2>1, <2>2
  <2> HIDE DEF p, Put
  <2> QED BY <1>1, <1>2, <1>5, <2>3 DEF ReadApplied
<1>6. ASSUME NEW m \in Machines, SkipApplied(m) PROVE RunnersTyped'
  <2> DEFINE p == [runner[m] EXCEPT !.next = runner[m].next + 1]
  <2>0. runner[m].at = "loop" /\ runner[m].next \in Ids
    BY <1>3, <1>6 DEF SkipApplied
  <2>1. p \in Processes /\ p.at = "loop"
    BY <1>3, <2>0
  <2>2. runner' = [runner EXCEPT ![m] = p]
    BY <1>1, <1>6 DEF SkipApplied
  <2>3. Put(m, p)
    BY <2>1, <2>2
  <2> HIDE DEF p, Put
  <2> QED BY <1>1, <1>2, <1>6, <2>3 DEF SkipApplied
<1>7. ASSUME NEW m \in Machines, RunMigration(m) PROVE RunnersTyped'
  <2> DEFINE p == [runner[m] EXCEPT !.at = "record"]
  <2>0. runner[m].at = "loop" /\ runner[m].next \in Ids
    BY <1>3, <1>7 DEF RunMigration, ToRun
  <2>1. p \in Processes /\ p.at = "record" /\ p.next \in Ids
    BY <1>3, <2>0
  <2>2. runner' = [runner EXCEPT ![m] = p]
    BY <1>1, <1>7 DEF RunMigration
  <2>3. Put(m, p)
    BY <2>1, <2>2
  <2>4. effects' \subseteq Ids /\ repeated' \subseteq Ids /\ excused' \subseteq Ids /\ recorded' = recorded /\ runs' = runs
    BY <1>1, <1>7, <2>0 DEF RunMigration, Excuse
  <2> HIDE DEF p, Put
  <2> QED BY <1>1, <1>2, <2>3, <2>4
<1>8. ASSUME NEW m \in Machines, RecordMigration(m) PROVE RunnersTyped'
  <2> DEFINE p == [runner[m] EXCEPT !.at = "loop", !.next = runner[m].next + 1]
  <2>0. runner[m].next \in Ids
    BY <1>1, <1>8 DEF RecordMigration
  <2>1. p \in Processes /\ p.at = "loop"
    BY <1>3, <2>0
  <2>2. runner' = [runner EXCEPT ![m] = p]
    BY <1>1, <1>8 DEF RecordMigration
  <2>3. Put(m, p)
    BY <2>1, <2>2
  <2>4. recorded' \subseteq Ids /\ excused' \subseteq Ids /\ UNCHANGED <<effects, runs, repeated>>
    BY <1>1, <1>8, <2>0 DEF RecordMigration, Excuse
  <2> HIDE DEF p, Put
  <2> QED BY <1>1, <1>2, <2>3, <2>4
<1>9. ASSUME NEW m \in Machines, RecordFails(m) \/ RecordUnheard(m) \/ EndLoop(m) \/ RunnerFails(m)
      PROVE  RunnersTyped'
  <2>1. runner' = [runner EXCEPT ![m] = NoRunner] /\ UNCHANGED <<effects, runs, repeated>>
    BY <1>9 DEF RecordFails, RecordUnheard, EndLoop, RunnerFails
  <2>2. Put(m, NoRunner)
    BY <1>0, <2>1
  <2>3. recorded' \subseteq Ids /\ excused' \subseteq Ids
    BY <1>1, <1>9 DEF RecordFails, RecordUnheard, EndLoop, RunnerFails, Excuse
  <2> HIDE DEF Put
  <2> QED BY <1>1, <1>2, <2>1, <2>2, <2>3
<1>10. CASE UNCHANGED migrationVars
  BY <1>10 DEF migrationVars, RunnersTyped, MigrationsTypeOK
<1> QED BY <1>4, <1>5, <1>6, <1>7, <1>8, <1>9, <1>10 DEF MigrationsNext

\* All parts at once, each with its invariant.
PartsInv == FilesInv /\ ListingInv /\ ListingBounds /\ AnswersCount /\ RunnersTyped

LEMMA EmptyPage ==
  /\ NoList.data = <<>> /\ Len(NoList.data) <= MaxLimit
  /\ NoList.total = 0 /\ NoList.total <= Cardinality(Rows)
<1>1. IsFiniteSet(Rows) /\ Cardinality(Rows) \in Nat /\ MaxLimit \in Nat
  BY ListingAssumption, FS_CardinalityType
<1>2. NoList.data = <<>> /\ Len(<<>>) = 0 /\ NoList.total = 0
  BY DEF NoList
<1> QED BY <1>1, <1>2

LEMMA PartsStart == MCInit => PartsInv
<1> SUFFICES ASSUME MCInit PROVE PartsInv
  OBVIOUS
<1>1. FilesInv
  BY FilesStart DEF MCInit
<1>2. AnswersCount
  <2>1. LimiterInit
    BY DEF MCInit
  <2>2. NoEntry \in [count : 0..MaxPerWindow, resetAt : Int]
    BY LimiterAssumption DEF NoEntry
  <2>3. entries \in [Replicas -> [Keys -> [count : 0..MaxPerWindow, resetAt : Int]]]
    BY <2>1, <2>2 DEF LimiterInit
  <2>4. IsFiniteSet({}) /\ Cardinality({}) = 0
    BY FS_EmptySet
  <2>5. instant \in 0..LastInstant /\ asked \in 0..MaxAsked
    BY <2>1, LimiterAssumption DEF LimiterInit
  <2> QED BY <2>1, <2>3, <2>4, <2>5 DEF LimiterInit, AnswersCount, LimiterTypeOK
<1>3. RunnersTyped
  <2>1. MigrationsInit
    BY DEF MCInit
  <2>2. NoRunner \in [at : {"idle", "read", "loop", "record"}, build : 0..LastMigration,
                      applied : SUBSET Ids, next : 1..(LastMigration + 1)] /\ NoRunner.at = "idle"
    BY MigrationsAssumption DEF NoRunner
  <2>3. /\ runner \in [Machines -> [at : {"idle", "read", "loop", "record"}, build : 0..LastMigration,
                                    applied : SUBSET Ids, next : 1..(LastMigration + 1)]]
        /\ \A m \in Machines : runner[m].at = "idle"
    BY <2>1, <2>2 DEF MigrationsInit
  <2> QED BY <2>1, <2>3 DEF MigrationsInit, RunnersTyped, MigrationsTypeOK
<1>4. list = NoList /\ walk = NoWalk /\ changes = 0
  BY DEF MCInit, MCListingInit, ListingInit
<1>5. CASE part = "listing"
  <2>1. ListingInit
    BY <1>5 DEF MCInit, MCListingInit
  <2>2. ListingBounds
    <3>1. LastDay \in Nat \ {0} /\ MaxChanges \in Nat
      BY ListingAssumption
    <3>2. \A r \in Rows : row[r].day \in 0..(LastDay - 1)
      BY <2>1 DEF ListingInit
    <3>3. today = LastDay - 1
      BY <2>1 DEF ListingInit
    <3>4. /\ today \in 0..LastDay /\ \A r \in Rows : row[r].day \in 0..LastDay
      BY <3>1, <3>2, <3>3
    <3> QED BY <1>4, <3>1, <3>4, EmptyPage DEF ListingBounds
  <2> QED BY <1>1, <1>2, <1>3, <2>1, <2>2, ListingStart DEF PartsInv
<1>6. CASE part # "listing"
  <2>1. /\ row = [r \in Rows |-> [account |-> account1, day |-> 0, at |-> "new"]]
        /\ free = FALSE /\ today = 0 /\ visible = {}
    BY <1>6 DEF MCInit, SomeRows
  <2>2. ListingBounds
    <3>1. today \in 0..LastDay /\ changes \in 0..MaxChanges /\ \A r \in Rows : row[r].day \in 0..LastDay
      BY <1>4, <2>1, ListingAssumption
    <3> QED BY <1>4, <3>1, EmptyPage DEF ListingBounds
  <2>3. ListingTypes
    <3>1. row \in [Rows -> [account : ListAccounts, day : Int, at : {"new", "there", "gone"}]]
      BY <2>1, PartsAssumption
    <3>2. today \in Int /\ visible \in SUBSET ListAccounts
      BY <2>1
    <3>3. free \in BOOLEAN
      BY <2>1, Zenon
    <3>4. list \in ListPage /\ walk \in ListWalk /\ (walk.over => walk.page > 0)
      BY <1>4, NoListOK
    <3> QED BY <3>1, <3>2, <3>3, <3>4 DEF ListingTypes
  <2>4. ListingInv
    BY <1>4, <2>3, NoListOK
    DEF ListingInv, ListFits, ReadOrChanged, DataAllowed, StillRead, Progress, OverAtEnd
  <2> QED BY <1>1, <1>2, <1>3, <2>2, <2>4 DEF PartsInv
<1> QED BY <1>5, <1>6

\* The bank's movements and the rows, the table and the page, the limiter's entries
\* and answers, and the migrations' record and processes are well typed, each request
\* has one answer and no page is longer than the limit, for any size of the parts
\* (internal/csvparser/parser.go:49-133, internal/handlers/transaction.go:402-468,
\* internal/middleware/rate_limit.go:56-87, internal/migrations/runner.go:85-133).
THEOREM PartsTyped == MCSpec => []PartsTypeOK
<1> DEFINE allVars ==
      <<part, vars, filesVars, listingVars, limiterVars, migrationVars, bayesVars>>
<1>1. PartsInv /\ [MCNext]_allVars => PartsInv'
  <2> SUFFICES ASSUME PartsInv, [MCNext]_allVars
               PROVE  PartsInv'
    OBVIOUS
  <2>1. /\ [FilesNext]_filesVars /\ [ListingNext]_listingVars
        /\ [LimiterNext]_limiterVars /\ [MigrationsNext]_migrationVars
    BY DEF MCNext, Still
  <2> QED BY <2>1, FilesStep, ListingStep, BoundsKept, AnswersCountKept, RunnersTypedKept DEF PartsInv
<1>2. PartsInv => PartsTypeOK
  <2>1. PartsInv => FilesTypeOK
    BY FilesInvGives DEF PartsInv
  <2>2. PartsInv => ListingTypeOK
    BY ListingTyped DEF PartsInv
  <2> QED BY <2>1, <2>2 DEF PartsInv, PartsTypeOK, AnswersCount, RunnersTyped
<1> QED BY <1>1, <1>2, PartsStart, PTL DEF MCSpec
=============================================================================
