--------------------------- MODULE SessionsProofs ---------------------------
(***************************************************************************)
(* Proofs about Sessions, for any number of accounts, requests and tokens. *)
(***************************************************************************)
EXTENDS Sessions, TLAPS

LEMMA GensFacts == Gens \subseteq Nat /\ 0 \in Gens
  BY ConstantsAssumption DEF Gens

LEMMA IdleFacts ==
  /\ Idle \in Request /\ WellFormed(Idle)
  /\ Idle.at = "idle" /\ Idle.op = "none" /\ Idle.seen = {} /\ Idle.token = NoReset
  BY GensFacts DEF Idle, Request, WellFormed, Setters

LEMMA InitTypeOK == Init => TypeOK
<1> SUFFICES ASSUME Init PROVE TypeOK
  OBVIOUS
<1>1. NoRow \in RefreshRow /\ NoRow.status = "none"
  BY GensFacts DEF NoRow, RefreshRow
<1>2. TablesOK
  <2>1. password \in [Users -> Gens] /\ lastGen \in Gens
    BY GensFacts DEF Init
  <2>2. /\ refresh \in [Tokens -> RefreshRow]
        /\ \A t \in Tokens : refresh[t] = NoRow
    BY <1>1 DEF Init
  <2>3. /\ reset \in [ResetTokens -> ResetRow]
        /\ \A r \in ResetTokens : reset[r].status = "none"
    BY DEF Init, ResetRow
  <2>4. QED
    BY <2>1, <2>2, <2>3 DEF TablesOK
<1>3. RequestsOK
  BY IdleFacts DEF Init, RequestsOK
<1>4. HistoryOK
  BY GensFacts DEF Init, HistoryOK
<1>5. QED
  BY <1>2, <1>3, <1>4 DEF TypeOK

\* A step that gives slot p a well-formed request rq, and deletes no row that
\* another request has seen, keeps the requests well-formed.
LEMMA RequestsStep ==
  ASSUME RequestsOK, NEW p \in Procs, NEW rq \in Request, WellFormed(rq),
         req' = [req EXCEPT ![p] = rq],
         \A r \in rq.seen : reset'[r].status # "none",
         \A r \in ResetTokens : reset[r].status # "none" => reset'[r].status # "none"
  PROVE  RequestsOK'
<1>1. req' \in [Procs -> Request] /\ \A q \in Procs : WellFormed(req[q]')
  BY DEF RequestsOK, WellFormed
<1>2. ASSUME NEW q \in Procs, NEW r \in req'[q].seen
      PROVE  reset'[r].status # "none"
  <2>1. CASE q = p
    BY <1>2, <2>1 DEF RequestsOK
  <2>2. CASE q # p
    BY <1>2, <2>2 DEF RequestsOK, Request
  <2>3. QED
    BY <2>1, <2>2
<1>3. QED
  BY <1>1, <1>2 DEF RequestsOK

LEMMA NextTypeOK == TypeOK /\ [Next]_vars => TypeOK'
<1> SUFFICES ASSUME TypeOK, [Next]_vars PROVE TypeOK'
  OBVIOUS
<1> USE GensFacts, IdleFacts
<1>1. ASSUME NEW p \in Procs, NEW u \in Users, LoginVerify(p, u)
      PROVE  TypeOK'
  <2> DEFINE rq == [Idle EXCEPT !.at = "issue", !.op = "login", !.user = u,
                                !.gen = password[u]]
  <2>1. rq \in Request /\ WellFormed(rq) /\ rq.seen = {}
    BY DEF TypeOK, TablesOK, Idle, Request, WellFormed, Setters
  <2>2. RequestsOK'
    BY <1>1, <2>1, RequestsStep DEF LoginVerify, TypeOK
  <2>3. QED
    BY <1>1, <2>2 DEF LoginVerify, TypeOK, TablesOK, HistoryOK
<1>2. ASSUME NEW p \in Procs, NEW u \in Users, ChangeVerify(p, u)
      PROVE  TypeOK'
  <2> DEFINE rq == [Idle EXCEPT !.at = "update", !.op = "change", !.user = u]
  <2>1. rq \in Request /\ WellFormed(rq) /\ rq.seen = {}
    BY DEF Idle, Request, WellFormed, Setters
  <2>2. RequestsOK'
    BY <1>2, <2>1, RequestsStep DEF ChangeVerify, TypeOK
  <2>3. QED
    BY <1>2, <2>2 DEF ChangeVerify, TypeOK, TablesOK, HistoryOK
<1>3. ASSUME NEW p \in Procs, NEW u \in Users, CliConfirm(p, u)
      PROVE  TypeOK'
  <2> DEFINE rq == [Idle EXCEPT !.at = "update", !.op = "cli", !.user = u]
  <2>1. rq \in Request /\ WellFormed(rq) /\ rq.seen = {}
    BY DEF Idle, Request, WellFormed, Setters
  <2>2. RequestsOK'
    BY <1>3, <2>1, RequestsStep DEF CliConfirm, TypeOK
  <2>3. QED
    BY <1>3, <2>2 DEF CliConfirm, TypeOK, TablesOK, HistoryOK
<1>4. ASSUME NEW p \in Procs, NEW u \in Users, ForgotSnapshot(p, u)
      PROVE  TypeOK'
  <2> DEFINE rows == {r \in ResetTokens :
                        reset[r].user = u /\ reset[r].status \in {"pending", "used"}}
             rq == [Idle EXCEPT !.at = "insert", !.op = "forgot", !.user = u,
                      !.seen = rows]
  <2>1. rq \in Request /\ WellFormed(rq) /\ rq.seen = rows
    BY DEF Idle, Request, WellFormed, Setters
  <2>2. RequestsOK'
    BY <1>4, <2>1, RequestsStep DEF ForgotSnapshot, TypeOK
  <2>3. QED
    BY <1>4, <2>2 DEF ForgotSnapshot, TypeOK, TablesOK, HistoryOK
<1>5. ASSUME NEW p \in Procs, NEW t \in Tokens, RefreshRevoke(p, t)
      PROVE  TypeOK'
  <2> DEFINE rq == [Idle EXCEPT !.at = "issue", !.op = "refresh",
                      !.user = refresh[t].user, !.gen = refresh[t].gen,
                      !.root = refresh[t].root, !.raced = refresh[t].raced]
  <2>1. /\ refresh[t] \in RefreshRow /\ refresh[t].status # "none"
        /\ refresh[t].user \in Users /\ refresh[t].root \in Tokens
    BY <1>5 DEF RefreshRevoke, TypeOK, TablesOK, NoRow
  <2>2. rq \in Request /\ WellFormed(rq) /\ rq.seen = {}
    BY <2>1 DEF RefreshRow, Idle, Request, WellFormed, Setters
  <2>3. TablesOK'
    BY <1>5, <2>1 DEF RefreshRevoke, TypeOK, TablesOK, RefreshRow
  <2>4. RequestsOK'
    BY <1>5, <2>2, RequestsStep DEF RefreshRevoke, TypeOK
  <2>5. QED
    BY <1>5, <2>3, <2>4 DEF RefreshRevoke, TypeOK, HistoryOK
<1>6. ASSUME NEW p \in Procs, NEW t \in Tokens, IssueTokenPair(p, t)
      PROVE  TypeOK'
  <2> DEFINE row == [status |-> "active", user |-> req[p].user,
                     root |-> IF req[p].op = "login" THEN t ELSE req[p].root,
                     gen |-> req[p].gen, raced |-> req[p].raced]
  <2>1. row \in RefreshRow /\ row.user \in Users /\ row.root \in Tokens
    BY <1>6 DEF IssueTokenPair, TypeOK, RequestsOK, WellFormed, Request, RefreshRow
  <2>2. refresh' = [refresh EXCEPT ![t] = row]
    BY <1>6 DEF IssueTokenPair
  <2>3. TablesOK'
    BY <1>6, <2>1, <2>2 DEF IssueTokenPair, TypeOK, TablesOK
  <2>4. RequestsOK'
    BY <1>6, RequestsStep DEF IssueTokenPair, TypeOK
  <2>5. QED
    BY <1>6, <2>3, <2>4 DEF IssueTokenPair, TypeOK, HistoryOK
<1>7. ASSUME NEW p \in Procs, NEW r \in ResetTokens, ResetConsume(p, r)
      PROVE  TypeOK'
  <2> DEFINE rq == [Idle EXCEPT !.at = "update", !.op = "reset",
                      !.user = reset[r].user, !.token = r]
  <2>1. rq \in Request /\ WellFormed(rq) /\ rq.seen = {}
    BY <1>7 DEF ResetConsume, TypeOK, TablesOK, ResetRow, Idle, Request,
                WellFormed, Setters
  <2>2. TablesOK'
    BY <1>7 DEF ResetConsume, TypeOK, TablesOK, ResetRow
  <2>3. \A s \in ResetTokens : reset[s].status # "none" => reset'[s].status # "none"
    BY <1>7 DEF ResetConsume, TypeOK, TablesOK, ResetRow
  <2>4. RequestsOK'
    BY <1>7, <2>1, <2>3, RequestsStep DEF ResetConsume, TypeOK
  <2>5. QED
    BY <1>7, <2>2, <2>4 DEF ResetConsume, TypeOK, HistoryOK
<1>8. ASSUME NEW p \in Procs, NEW r \in ResetTokens, ForgotInsert(p, r)
      PROVE  TypeOK'
  <2>1. req[p].user \in Users /\ \A s \in req[p].seen : reset[s].status # "none"
    BY <1>8 DEF ForgotInsert, TypeOK, RequestsOK, WellFormed
  <2>2. /\ reset' \in [ResetTokens -> ResetRow]
        /\ \A s \in ResetTokens : /\ reset'[s].status # "none" => reset'[s].user \in Users
                                  /\ reset[s].status # "none" => reset'[s].status # "none"
    <3> SUFFICES ASSUME NEW s \in ResetTokens
                 PROVE  /\ reset'[s] \in ResetRow
                        /\ reset'[s].status # "none" => reset'[s].user \in Users
                        /\ reset[s].status # "none" => reset'[s].status # "none"
      BY <1>8 DEF ForgotInsert
    <3>1. reset[s] \in ResetRow /\ (reset[s].status # "none" => reset[s].user \in Users)
      BY DEF TypeOK, TablesOK
    <3>2. CASE s = r
      BY <1>8, <2>1, <3>2 DEF ForgotInsert, ResetRow
    <3>3. CASE s # r /\ s \in req[p].seen
      BY <1>8, <2>1, <3>1, <3>3 DEF ForgotInsert, ResetRow
    <3>4. CASE s # r /\ s \notin req[p].seen
      BY <1>8, <3>1, <3>4 DEF ForgotInsert
    <3>5. QED
      BY <3>2, <3>3, <3>4
  <2>3. RequestsOK'
    BY <1>8, <2>2, RequestsStep DEF ForgotInsert, TypeOK
  <2>4. QED
    BY <1>8, <2>2, <2>3 DEF ForgotInsert, TypeOK, TablesOK, HistoryOK
<1>9. ASSUME NEW p \in Procs, UpdatePassword(p)
      PROVE  TypeOK'
  <2> DEFINE rq == [req[p] EXCEPT !.at = "sweep", !.gen = lastGen + 1]
  <2>1. lastGen + 1 \in Gens
    BY <1>9, ConstantsAssumption DEF UpdatePassword, TypeOK, TablesOK, Gens
  <2>2. rq \in Request /\ WellFormed(rq) /\ rq.seen = req[p].seen
    BY <1>9, <2>1 DEF UpdatePassword, TypeOK, RequestsOK, Request, WellFormed
  <2>3. req' = [req EXCEPT ![p] = rq]
    BY <1>9 DEF UpdatePassword, TypeOK, RequestsOK, Request
  <2>4. RequestsOK'
    BY <1>9, <2>2, <2>3, RequestsStep DEF UpdatePassword, TypeOK, RequestsOK
  <2>5. writes' \in [ResetTokens -> Nat]
    BY <1>9 DEF UpdatePassword, TypeOK, HistoryOK, RequestsOK, WellFormed
  <2>6. QED
    BY <1>9, <2>1, <2>4, <2>5 DEF UpdatePassword, TypeOK, TablesOK, HistoryOK
<1>10. ASSUME NEW p \in Procs, RevokeAllByUser(p)
       PROVE  TypeOK'
  <2>1. TablesOK'
    <3>1. ASSUME NEW t \in Tokens
          PROVE  /\ refresh'[t] \in RefreshRow
                 /\ \/ refresh'[t] = NoRow
                    \/ /\ refresh'[t].status # "none"
                       /\ refresh'[t].user \in Users /\ refresh'[t].root \in Tokens
      <4>1. /\ refresh[t] \in RefreshRow /\ NoRow.user \notin Users
            /\ \/ refresh[t] = NoRow
               \/ /\ refresh[t].status # "none"
                  /\ refresh[t].user \in Users /\ refresh[t].root \in Tokens
        BY ConstantsAssumption DEF TypeOK, TablesOK, NoRow
      <4>2. req[p].user \in Users
        BY <1>10 DEF RevokeAllByUser, TypeOK, RequestsOK, WellFormed
      <4>3. QED
        BY <1>10, <4>1, <4>2 DEF RevokeAllByUser, TypeOK, TablesOK, RefreshRow
    <3>2. QED
      BY <1>10, <3>1 DEF RevokeAllByUser, TypeOK, TablesOK
  <2>2. \A q \in Procs : /\ req'[q] \in Request /\ WellFormed(req'[q])
                         /\ req'[q].seen \subseteq req[q].seen
    BY <1>10 DEF RevokeAllByUser, TypeOK, RequestsOK, Request, WellFormed
  <2>3. RequestsOK'
    BY <1>10, <2>2 DEF RevokeAllByUser, TypeOK, RequestsOK, WellFormed
  <2>4. req[p].gen \in Gens /\ req[p].user \in Users /\ req[p].op \in Setters
    BY <1>10 DEF RevokeAllByUser, TypeOK, RequestsOK, WellFormed, Request
  <2>5. swept' \in [Users -> Gens] /\ writes' \in [ResetTokens -> Nat]
    BY <1>10, <2>4 DEF RevokeAllByUser, TypeOK, HistoryOK
  <2>6. acked' \in [Setters -> [Users -> Gens]]
    BY <1>10, <2>4 DEF RevokeAllByUser, Report, TypeOK, HistoryOK
  <2>7. QED
    BY <2>1, <2>3, <2>5, <2>6 DEF TypeOK, HistoryOK
<1>11. ASSUME NEW p \in Procs, ChangeSweepFails(p)
       PROVE  TypeOK'
  <2>1. RequestsOK'
    BY <1>11, RequestsStep DEF ChangeSweepFails, TypeOK
  <2>2. HistoryOK'
    BY <1>11 DEF ChangeSweepFails, Report, TypeOK, HistoryOK, RequestsOK,
                 WellFormed, Request, Setters
  <2>3. QED
    BY <1>11, <2>1, <2>2 DEF ChangeSweepFails, TypeOK, TablesOK
<1>12. ASSUME NEW p \in Procs, Abandon(p)
       PROVE  TypeOK'
  <2>1. RequestsOK'
    BY <1>12, RequestsStep DEF Abandon, TypeOK
  <2>2. QED
    BY <1>12, <2>1 DEF Abandon, TypeOK, TablesOK, HistoryOK
<1>13. ASSUME NEW t \in Tokens, LogoutRevoke(t) \/ ExpireRefresh(t)
       PROVE  TypeOK'
  <2>1. /\ refresh[t] \in RefreshRow /\ refresh[t].status # "none"
        /\ refresh[t].user \in Users /\ refresh[t].root \in Tokens
    BY <1>13 DEF LogoutRevoke, ExpireRefresh, TypeOK, TablesOK, NoRow
  <2>2. TablesOK'
    BY <1>13, <2>1 DEF LogoutRevoke, ExpireRefresh, TypeOK, TablesOK, RefreshRow
  <2>3. QED
    BY <1>13, <2>2 DEF LogoutRevoke, ExpireRefresh, TypeOK, RequestsOK, HistoryOK,
                       WellFormed
<1>14. ASSUME NEW r \in ResetTokens, ExpireReset(r)
       PROVE  TypeOK'
  BY <1>14 DEF ExpireReset, TypeOK, TablesOK, RequestsOK, HistoryOK, ResetRow,
               WellFormed
<1>15. CASE UNCHANGED vars
  BY <1>15 DEF vars, TypeOK, TablesOK, RequestsOK, HistoryOK, WellFormed
<1>16. QED
  BY <1>1, <1>2, <1>3, <1>4, <1>5, <1>6, <1>7, <1>8, <1>9, <1>10, <1>11, <1>12,
     <1>13, <1>14, <1>15 DEF Next

\* Sessions is type correct for any number of accounts, requests and tokens.
THEOREM TypeCorrect == Spec => []TypeOK
  BY InitTypeOK, NextTypeOK, PTL DEF Spec

-----------------------------------------------------------------------------
(* Rotation keeps sessions linear.                                         *)

LinearInv == SessionLinear /\ RootsIssued

\* A step that opens no token and starts no rotation keeps LinearInv.
LEMMA QuietStep ==
  ASSUME LinearInv,
         \A t \in Tokens : /\ Active(t)' => Active(t)
                           /\ refresh'[t].root = refresh[t].root
                           /\ refresh'[t].status = "none" <=> refresh[t].status = "none",
         \A p \in Procs, c \in Tokens : Rotating(p, c)' => Rotating(p, c),
         \A t \in Tokens : refresh[t].status # "none" => refresh[t].root \in Tokens
  PROVE  LinearInv'
<1>1. SessionLinear'
  <2>1. \A t1, t2 \in Tokens :
          Active(t1)' /\ Active(t2)' /\ refresh'[t1].root = refresh'[t2].root => t1 = t2
    BY DEF LinearInv, SessionLinear
  <2>2. \A t \in Tokens, p \in Procs : ~(Active(t)' /\ Rotating(p, refresh[t].root)')
    BY DEF LinearInv, SessionLinear, Active
  <2>3. \A p, q \in Procs, c \in Tokens : Rotating(p, c)' /\ Rotating(q, c)' => p = q
    BY DEF LinearInv, SessionLinear
  <2>4. QED
    BY <2>1, <2>2, <2>3 DEF SessionLinear, Rotating
<1>2. RootsIssued'
  BY DEF LinearInv, RootsIssued, Rotating
<1>3. QED
  BY <1>1, <1>2 DEF LinearInv

LEMMA RefreshLinear ==
  ASSUME TypeOK, LinearInv, NEW p \in Procs, NEW t \in Tokens, RefreshRevoke(p, t)
  PROVE  LinearInv'
<1> DEFINE c == refresh[t].root
<1>1. c \in Tokens /\ Active(t) /\ req[p].at = "idle"
  BY IdleFacts DEF RefreshRevoke, TypeOK, TablesOK, NoRow, Active
<1>2. \A s \in Tokens : /\ refresh'[s].root = refresh[s].root
                        /\ Active(s)' <=> Active(s) /\ s # t
                        /\ refresh'[s].status = "none" <=> refresh[s].status = "none"
  BY DEF RefreshRevoke, TypeOK, TablesOK, RefreshRow, Active
<1>3. \A q \in Procs, d \in Tokens :
        Rotating(q, d)' <=> (q = p /\ d = c) \/ (q # p /\ Rotating(q, d))
  <2>1. /\ req' \in [Procs -> Request] /\ \A q \in Procs : q # p => req'[q] = req[q]
        /\ req'[p].at = "issue" /\ req'[p].op = "refresh" /\ req'[p].root = c
    BY NextTypeOK DEF RefreshRevoke, TypeOK, RequestsOK, Idle, Next
  <2>2. QED
    BY <2>1 DEF Rotating
<1>4. \A q \in Procs : ~Rotating(q, c)
  BY <1>1 DEF LinearInv, SessionLinear
<1>5. \A s \in Tokens : Active(s) /\ refresh[s].root = c => s = t
  BY <1>1 DEF LinearInv, SessionLinear
<1>6. SessionLinear'
  <2>1. \A t1, t2 \in Tokens :
          Active(t1)' /\ Active(t2)' /\ refresh'[t1].root = refresh'[t2].root => t1 = t2
    BY <1>2 DEF LinearInv, SessionLinear
  <2>2. \A s \in Tokens, q \in Procs : ~(Active(s)' /\ Rotating(q, refresh[s].root)')
    <3> SUFFICES ASSUME NEW s \in Tokens, NEW q \in Procs, Active(s)',
                        Rotating(q, refresh[s].root)'
                 PROVE  FALSE
      OBVIOUS
    <3>1. Active(s) /\ s # t /\ refresh'[s].root = refresh[s].root
      BY <1>2
    <3>2. refresh[s].root \in Tokens
      BY <3>1 DEF TypeOK, TablesOK, Active, NoRow
    <3>3. \A d \in Tokens : d = refresh[s].root => Rotating(q, d)'
      BY <3>1 DEF Rotating
    <3>4. QED
      BY <1>3, <1>5, <3>1, <3>2, <3>3 DEF LinearInv, SessionLinear
  <2>3. \A q1, q2 \in Procs, d \in Tokens : Rotating(q1, d)' /\ Rotating(q2, d)' => q1 = q2
    BY <1>3, <1>4 DEF LinearInv, SessionLinear
  <2>4. QED
    BY <2>1, <2>2, <2>3 DEF SessionLinear, Rotating
<1>7. RootsIssued'
  BY <1>1, <1>2, <1>3 DEF LinearInv, RootsIssued, Active, TypeOK, TablesOK, NoRow
<1>8. QED
  BY <1>6, <1>7 DEF LinearInv

LEMMA IssueLinear ==
  ASSUME TypeOK, LinearInv, NEW p \in Procs, NEW t \in Tokens, IssueTokenPair(p, t)
  PROVE  LinearInv'
<1> DEFINE c == IF req[p].op = "login" THEN t ELSE req[p].root
<1>1. /\ c \in Tokens /\ refresh[t].status = "none"
      /\ req[p].op = "login" \/ (Rotating(p, c) /\ c = req[p].root)
  BY DEF IssueTokenPair, TypeOK, RequestsOK, WellFormed, Rotating
<1>2. /\ Active(t)' /\ refresh'[t].root = c /\ refresh'[t].status # "none"
      /\ \A s \in Tokens : s # t => refresh'[s] = refresh[s]
  BY DEF IssueTokenPair, TypeOK, TablesOK, Active
<1>3. \A s \in Tokens : s # t => (Active(s)' <=> Active(s))
  BY <1>2 DEF Active
<1>4. \A q \in Procs, d \in Tokens : Rotating(q, d)' <=> q # p /\ Rotating(q, d)
  BY IdleFacts DEF IssueTokenPair, TypeOK, RequestsOK, Rotating
<1>5. \A s \in Tokens : s # t /\ Active(s) => refresh[s].root # c
  BY <1>1 DEF LinearInv, SessionLinear, RootsIssued, Active
<1>6. \A q \in Procs : q # p => ~Rotating(q, c)
  BY <1>1 DEF LinearInv, SessionLinear, RootsIssued
<1>7. SessionLinear'
  <2>1. \A t1, t2 \in Tokens :
          Active(t1)' /\ Active(t2)' /\ refresh'[t1].root = refresh'[t2].root => t1 = t2
    BY <1>2, <1>3, <1>5 DEF LinearInv, SessionLinear
  <2>2. \A s \in Tokens, q \in Procs : ~(Active(s)' /\ Rotating(q, refresh[s].root)')
    <3> SUFFICES ASSUME NEW s \in Tokens, NEW q \in Procs, Active(s)',
                        Rotating(q, refresh[s].root)'
                 PROVE  FALSE
      OBVIOUS
    <3>1. CASE s = t
      <4>1. \A d \in Tokens : d = c => Rotating(q, d)'
        BY <1>2, <3>1 DEF Rotating
      <4>2. QED
        BY <1>1, <1>4, <1>6, <4>1
    <3>2. CASE s # t
      <4>1. Active(s) /\ refresh'[s].root = refresh[s].root
        BY <1>2, <1>3, <3>2
      <4>2. refresh[s].root \in Tokens
        BY <4>1 DEF TypeOK, TablesOK, Active, NoRow
      <4>3. \A d \in Tokens : d = refresh[s].root => Rotating(q, d)'
        BY <4>1 DEF Rotating
      <4>4. QED
        BY <1>4, <4>1, <4>2, <4>3 DEF LinearInv, SessionLinear
    <3>3. QED
      BY <3>1, <3>2
  <2>3. \A q1, q2 \in Procs, d \in Tokens : Rotating(q1, d)' /\ Rotating(q2, d)' => q1 = q2
    BY <1>4 DEF LinearInv, SessionLinear
  <2>4. QED
    BY <2>1, <2>2, <2>3 DEF SessionLinear, Rotating
<1>8. RootsIssued'
  <2>1. \A s \in Tokens : refresh[s].status # "none" => refresh'[s].status # "none"
    BY <1>2
  <2>2. refresh[c].status # "none" \/ c = t
    BY <1>1 DEF LinearInv, RootsIssued
  <2>3. refresh'[c].status # "none"
    BY <1>1, <1>2, <2>1, <2>2
  <2>4. \A s \in Tokens : refresh'[s].status # "none" =>
          refresh'[refresh'[s].root].status # "none"
    BY <1>2, <2>1, <2>3 DEF LinearInv, RootsIssued, TypeOK, TablesOK, NoRow
  <2>5. \A q \in Procs, d \in Tokens : Rotating(q, d)' => refresh'[d].status # "none"
    BY <1>4, <2>1 DEF LinearInv, RootsIssued
  <2>6. QED
    BY <2>4, <2>5 DEF RootsIssued, Rotating
<1>9. QED
  BY <1>7, <1>8 DEF LinearInv

LEMMA NextLinear == TypeOK /\ LinearInv /\ [Next]_vars => LinearInv'
<1> SUFFICES ASSUME TypeOK, LinearInv, [Next]_vars PROVE LinearInv'
  OBVIOUS
<1>1. \A t \in Tokens : refresh[t].status # "none" => refresh[t].root \in Tokens
  BY DEF TypeOK, TablesOK, NoRow
<1>2. ASSUME NEW p \in Procs,
             \/ \E u \in Users : \/ LoginVerify(p, u) \/ ChangeVerify(p, u)
                                 \/ CliConfirm(p, u) \/ ForgotSnapshot(p, u)
             \/ \E r \in ResetTokens : ResetConsume(p, r) \/ ForgotInsert(p, r)
             \/ UpdatePassword(p) \/ ChangeSweepFails(p) \/ Abandon(p)
      PROVE  LinearInv'
  <2>0. req \in [Procs -> Request] /\ Idle.at = "idle"
    BY IdleFacts DEF TypeOK, RequestsOK
  <2>1. /\ UNCHANGED refresh
        /\ \A q \in Procs : q # p => req'[q] = req[q]
        /\ req'[p].op # "refresh" \/ req'[p].at # "issue"
    <3>1. ASSUME NEW u \in Users, \/ LoginVerify(p, u) \/ ChangeVerify(p, u)
                                  \/ CliConfirm(p, u) \/ ForgotSnapshot(p, u)
          PROVE  <2>1!:
      BY <2>0, <3>1 DEF LoginVerify, ChangeVerify, CliConfirm, ForgotSnapshot, Idle
    <3>2. ASSUME NEW r \in ResetTokens, ResetConsume(p, r) \/ ForgotInsert(p, r)
          PROVE  <2>1!:
      BY <2>0, <3>2 DEF ResetConsume, ForgotInsert, Idle
    <3>3. CASE UpdatePassword(p)
      BY <2>0, <3>3 DEF UpdatePassword, Request
    <3>4. CASE ChangeSweepFails(p) \/ Abandon(p)
      BY <2>0, <3>4 DEF ChangeSweepFails, Abandon
    <3>5. QED
      BY <1>2, <3>1, <3>2, <3>3, <3>4
  <2>2. \A q \in Procs, c \in Tokens : Rotating(q, c)' => Rotating(q, c)
    BY <2>1 DEF Rotating
  <2>3. QED
    BY <1>1, <2>1, <2>2, QuietStep DEF Active
<1>3. ASSUME NEW p \in Procs, RevokeAllByUser(p)
      PROVE  LinearInv'
  <2>1. \A t \in Tokens : /\ Active(t)' => Active(t)
                          /\ refresh'[t].root = refresh[t].root
                          /\ refresh'[t].status = "none" <=> refresh[t].status = "none"
    <3> SUFFICES ASSUME NEW t \in Tokens
                 PROVE  /\ Active(t)' => Active(t)
                        /\ refresh'[t].root = refresh[t].root
                        /\ refresh'[t].status = "none" <=> refresh[t].status = "none"
      OBVIOUS
    <3>1. CASE refresh[t].user = req[p].user
      <4>1. refresh[t].status # "none"
        BY <1>3, <3>1, ConstantsAssumption DEF RevokeAllByUser, TypeOK, TablesOK,
             RequestsOK, WellFormed, NoRow
      <4>2. QED
        BY <1>3, <3>1, <4>1 DEF RevokeAllByUser, TypeOK, TablesOK, RefreshRow, Active
    <3>2. CASE refresh[t].user # req[p].user
      BY <1>3, <3>2 DEF RevokeAllByUser, Active
    <3>3. QED
      BY <3>1, <3>2
  <2>2. \A q \in Procs, c \in Tokens : Rotating(q, c)' => Rotating(q, c)
    BY <1>3, IdleFacts DEF RevokeAllByUser, TypeOK, RequestsOK, Request, Rotating
  <2>3. QED
    BY <1>1, <2>1, <2>2, QuietStep
<1>4. ASSUME NEW t \in Tokens, LogoutRevoke(t) \/ ExpireRefresh(t)
      PROVE  LinearInv'
  <2>1. \A s \in Tokens : /\ Active(s)' => Active(s)
                          /\ refresh'[s].root = refresh[s].root
                          /\ refresh'[s].status = "none" <=> refresh[s].status = "none"
    BY <1>4 DEF LogoutRevoke, ExpireRefresh, TypeOK, TablesOK, RefreshRow, Active
  <2>2. \A q \in Procs, c \in Tokens : Rotating(q, c)' => Rotating(q, c)
    BY <1>4 DEF LogoutRevoke, ExpireRefresh, Rotating
  <2>3. QED
    BY <1>1, <2>1, <2>2, QuietStep
<1>5. CASE UNCHANGED vars \/ \E r \in ResetTokens : ExpireReset(r)
  BY <1>1, <1>5, QuietStep DEF vars, ExpireReset, Active, Rotating
<1>6. QED
  BY <1>2, <1>3, <1>4, <1>5, RefreshLinear, IssueLinear DEF Next

\* However requests overlap, a login never has two usable refresh tokens or
\* rotations: what the comment of RevokeByHash promises.
THEOREM SessionsLinear == Spec => []SessionLinear
<1>1. Init => LinearInv
  BY IdleFacts DEF Init, LinearInv, SessionLinear, RootsIssued, Active, Rotating, NoRow
<1>2. TypeOK /\ LinearInv /\ [Next]_vars => LinearInv'
  BY NextLinear
<1>3. LinearInv => SessionLinear
  BY DEF LinearInv
<1>4. QED
  BY <1>1, <1>2, <1>3, TypeCorrect, PTL DEF Spec

-----------------------------------------------------------------------------
(* A session outlives its password only by overlapping the sweep.          *)

StaleInv == StaleSessionsRaced /\ GenerationsOrdered

LEMMA NextStale == TypeOK /\ StaleInv /\ [Next]_vars => StaleInv'
<1> SUFFICES ASSUME TypeOK, StaleInv, [Next]_vars PROVE StaleInv'
  OBVIOUS
<1> USE GensFacts, IdleFacts
<1>0. /\ \A u \in Users : swept[u] \in Nat /\ password[u] \in Nat
      /\ lastGen \in Nat
      /\ \A p \in Procs : req[p].gen \in Nat
      /\ \A t \in Tokens : refresh[t].gen \in Nat
      /\ \A t \in Tokens : Active(t) => refresh[t].user \in Users
      /\ \A p \in Procs : req[p].at # "idle" => req[p].user \in Users
  <2>1. /\ \A u \in Users : swept[u] \in Nat /\ password[u] \in Nat
        /\ lastGen \in Nat
    BY DEF TypeOK, TablesOK, HistoryOK
  <2>2. \A p \in Procs : /\ req[p].gen \in Nat
                         /\ req[p].at # "idle" => req[p].user \in Users
    BY DEF TypeOK, RequestsOK, Request, WellFormed
  <2>3. ASSUME NEW t \in Tokens
        PROVE  /\ refresh[t].gen \in Nat
               /\ Active(t) => refresh[t].user \in Users
    <3>1. refresh[t] \in RefreshRow
      BY DEF TypeOK, TablesOK
    <3>2. refresh[t].gen \in Nat
      BY <3>1 DEF RefreshRow
    <3>3. Active(t) => refresh[t].user \in Users
      BY DEF TypeOK, TablesOK, NoRow, Active
    <3>4. QED
      BY <3>2, <3>3
  <2>4. QED
    BY <2>1, <2>2, <2>3
\* Steps that start or end a request without touching sessions or history.
<1>1. ASSUME NEW p \in Procs,
             UNCHANGED <<password, lastGen, swept, refresh>>,
             \A q \in Procs : q # p => req'[q] = req[q],
             req'[p].at # "sweep",
             req'[p].at = "issue" => /\ req'[p].user \in Users
                                     /\ req'[p].gen = password[req'[p].user]
      PROVE  StaleInv'
  <2>1. StaleSessionsRaced'
    BY <1>1 DEF StaleInv, StaleSessionsRaced, Active
  <2>2. GenerationsOrdered'
    BY <1>0, <1>1 DEF StaleInv, GenerationsOrdered
  <2>3. QED
    BY <2>1, <2>2 DEF StaleInv
<1>2. ASSUME NEW p \in Procs, NEW u \in Users, LoginVerify(p, u)
      PROVE  StaleInv'
  BY <1>1, <1>2 DEF LoginVerify, TypeOK, RequestsOK, Idle
<1>3. ASSUME NEW p \in Procs,
             \/ \E u \in Users : \/ ChangeVerify(p, u) \/ CliConfirm(p, u)
                                 \/ ForgotSnapshot(p, u)
             \/ \E r \in ResetTokens : ResetConsume(p, r) \/ ForgotInsert(p, r)
             \/ ChangeSweepFails(p) \/ Abandon(p)
      PROVE  StaleInv'
  <2>1. /\ UNCHANGED <<password, lastGen, swept, refresh>>
        /\ \A q \in Procs : q # p => req'[q] = req[q]
        /\ req'[p].at \notin {"sweep", "issue"}
    <3> USE DEF TypeOK, RequestsOK
    <3>1. ASSUME NEW u \in Users, ChangeVerify(p, u) \/ CliConfirm(p, u)
                                     \/ ForgotSnapshot(p, u)
          PROVE  <2>1!:
      BY <3>1 DEF ChangeVerify, CliConfirm, ForgotSnapshot, Idle
    <3>2. ASSUME NEW r \in ResetTokens, ResetConsume(p, r) \/ ForgotInsert(p, r)
          PROVE  <2>1!:
      BY <3>2 DEF ResetConsume, ForgotInsert, Idle
    <3>3. CASE ChangeSweepFails(p) \/ Abandon(p)
      BY <3>3 DEF ChangeSweepFails, Abandon
    <3>4. QED
      BY <1>3, <3>1, <3>2, <3>3
  <2>2. QED
    BY <1>1, <2>1
<1>4. ASSUME NEW p \in Procs, NEW t \in Tokens, RefreshRevoke(p, t)
      PROVE  StaleInv'
  <2>1. /\ UNCHANGED <<password, lastGen, swept>>
        /\ \A q \in Procs : q # p => req'[q] = req[q]
        /\ req'[p].at = "issue" /\ req'[p].gen = refresh[t].gen
        /\ req'[p].user = refresh[t].user /\ req'[p].raced = refresh[t].raced
        /\ Active(t)
    BY <1>4 DEF RefreshRevoke, TypeOK, RequestsOK, Idle, Active
  <2>2. \A s \in Tokens : /\ Active(s)' => Active(s)
                          /\ refresh'[s].user = refresh[s].user
                          /\ refresh'[s].gen = refresh[s].gen
                          /\ refresh'[s].raced = refresh[s].raced
    BY <1>4 DEF RefreshRevoke, TypeOK, TablesOK, RefreshRow, Active
  <2>3. StaleSessionsRaced'
    BY <2>1, <2>2 DEF StaleInv, StaleSessionsRaced
  <2>4. GenerationsOrdered'
    BY <2>1 DEF StaleInv, StaleSessionsRaced, GenerationsOrdered
  <2>5. QED
    BY <2>3, <2>4 DEF StaleInv
<1>5. ASSUME NEW p \in Procs, NEW t \in Tokens, IssueTokenPair(p, t)
      PROVE  StaleInv'
  <2>1. /\ UNCHANGED <<password, lastGen, swept>>
        /\ \A q \in Procs : q # p => req'[q] = req[q]
        /\ req'[p].at = "idle" /\ req[p].at = "issue"
    BY <1>5 DEF IssueTokenPair, TypeOK, RequestsOK
  <2>2. /\ refresh'[t].user = req[p].user /\ refresh'[t].gen = req[p].gen
        /\ refresh'[t].raced = req[p].raced
        /\ \A s \in Tokens : s # t => refresh'[s] = refresh[s]
    BY <1>5 DEF IssueTokenPair, TypeOK, TablesOK
  <2>3. StaleSessionsRaced'
    BY <2>1, <2>2 DEF StaleInv, StaleSessionsRaced, GenerationsOrdered, Active
  <2>4. GenerationsOrdered'
    BY <2>1 DEF StaleInv, GenerationsOrdered
  <2>5. QED
    BY <2>3, <2>4 DEF StaleInv
<1>6. ASSUME NEW p \in Procs, UpdatePassword(p)
      PROVE  StaleInv'
  <2>1. /\ UNCHANGED <<refresh, swept>> /\ lastGen' = lastGen + 1
        /\ password' = [password EXCEPT ![req[p].user] = lastGen + 1]
        /\ req[p].user \in Users /\ password \in [Users -> Gens]
        /\ req'[p].at = "sweep" /\ req'[p].gen = lastGen + 1
        /\ req'[p].user = req[p].user
        /\ \A q \in Procs : q # p => req'[q] = req[q]
    BY <1>0, <1>6 DEF UpdatePassword, TypeOK, TablesOK, RequestsOK, Request
  <2>2. \A u \in Users : password'[u] = password[u] \/ password'[u] = lastGen + 1
    BY <2>1
  <2>3. password'[req[p].user] = lastGen + 1
    BY <2>1
  <2>4. \A u \in Users : /\ swept'[u] <= password'[u] /\ password'[u] <= lastGen'
                         /\ password[u] <= password'[u]
    BY <1>0, <2>1, <2>2 DEF StaleInv, GenerationsOrdered
  <2>5. \A q \in Procs : req'[q].at = "sweep" => req'[q].gen <= password'[req'[q].user]
    BY <1>0, <2>1, <2>3, <2>4 DEF StaleInv, GenerationsOrdered
  <2>6. \A q \in Procs :
          req'[q].at = "issue" /\ req'[q].gen < swept'[req'[q].user] => req'[q].raced
    BY <2>1 DEF StaleInv, GenerationsOrdered
  <2>7. StaleSessionsRaced'
    BY <2>1 DEF StaleInv, StaleSessionsRaced, Active
  <2>8. QED
    BY <2>4, <2>5, <2>6, <2>7 DEF StaleInv, GenerationsOrdered
<1>7. ASSUME NEW p \in Procs, RevokeAllByUser(p)
      PROVE  StaleInv'
  <2> DEFINE u == req[p].user
  <2>1. /\ UNCHANGED <<password, lastGen>> /\ u \in Users
        /\ req[p].gen <= password[u]
        /\ swept' = [swept EXCEPT ![u] = IF @ < req[p].gen THEN req[p].gen ELSE @]
        /\ swept \in [Users -> Gens]
    BY <1>0, <1>7 DEF RevokeAllByUser, StaleInv, GenerationsOrdered, TypeOK, HistoryOK
  <2>2. /\ \A v \in Users : v # u => swept'[v] = swept[v]
        /\ swept'[u] <= password[u]
    BY <1>0, <2>1 DEF StaleInv, GenerationsOrdered
  <2>3. \A q \in Procs :
          \/ req'[q].at = "idle"
          \/ /\ req'[q].at = req[q].at /\ req'[q].gen = req[q].gen
             /\ req'[q].user = req[q].user
             /\ req'[q].raced = (req[q].raced \/ (req[q].at = "issue" /\ req[q].user = u))
    BY <1>7 DEF RevokeAllByUser, TypeOK, RequestsOK, Request
  <2>4. \A t \in Tokens : Active(t)' => refresh[t].user # u /\ refresh'[t] = refresh[t]
    BY <1>7 DEF RevokeAllByUser, TypeOK, TablesOK, RefreshRow, Active
  <2>5. StaleSessionsRaced'
    BY <1>0, <2>2, <2>4 DEF StaleInv, StaleSessionsRaced, Active
  <2>6. GenerationsOrdered'
    <3>1. \A v \in Users : swept'[v] <= password'[v] /\ password'[v] <= lastGen'
      BY <2>1, <2>2 DEF StaleInv, GenerationsOrdered
    <3>2. \A q \in Procs : req'[q].at = "sweep" => req'[q].gen <= password'[req'[q].user]
      BY <2>1, <2>3 DEF StaleInv, GenerationsOrdered
    <3>3. ASSUME NEW q \in Procs, req'[q].at = "issue",
                 req'[q].gen < swept'[req'[q].user]
          PROVE  req'[q].raced
      <4>1. req[q].at = "issue" /\ req'[q].user = req[q].user /\ req'[q].gen = req[q].gen
        BY <2>3, <3>3
      <4>2. CASE req[q].user = u
        BY <2>3, <3>3, <4>1, <4>2
      <4>3. CASE req[q].user # u
        BY <1>0, <2>2, <2>3, <3>3, <4>1, <4>3 DEF StaleInv, GenerationsOrdered
      <4>4. QED
        BY <4>2, <4>3
    <3>4. QED
      BY <3>1, <3>2, <3>3 DEF GenerationsOrdered
  <2>7. QED
    BY <2>5, <2>6 DEF StaleInv
<1>8. ASSUME NEW t \in Tokens, LogoutRevoke(t) \/ ExpireRefresh(t)
      PROVE  StaleInv'
  <2>1. \A s \in Tokens : /\ Active(s)' => Active(s)
                          /\ refresh'[s].user = refresh[s].user
                          /\ refresh'[s].gen = refresh[s].gen
                          /\ refresh'[s].raced = refresh[s].raced
    BY <1>8 DEF LogoutRevoke, ExpireRefresh, TypeOK, TablesOK, RefreshRow, Active
  <2>2. UNCHANGED <<password, lastGen, swept, req>>
    BY <1>8 DEF LogoutRevoke, ExpireRefresh
  <2>3. QED
    BY <2>1, <2>2 DEF StaleInv, StaleSessionsRaced, GenerationsOrdered
<1>9. CASE UNCHANGED vars \/ \E r \in ResetTokens : ExpireReset(r)
  BY <1>9 DEF vars, ExpireReset, StaleInv, StaleSessionsRaced, GenerationsOrdered, Active
<1>10. QED
  BY <1>2, <1>3, <1>4, <1>5, <1>6, <1>7, <1>8, <1>9 DEF Next

\* A usable session older than a revoked password was between its read and its
\* INSERT while RevokeAllByUser ran; no other interleaving produces one.
THEOREM StaleOnlyByOverlap == Spec => []StaleSessionsRaced
<1>1. Init => StaleInv
  BY IdleFacts DEF Init, StaleInv, StaleSessionsRaced, GenerationsOrdered, Active, NoRow
<1>2. TypeOK /\ StaleInv /\ [Next]_vars => StaleInv'
  BY NextStale
<1>3. StaleInv => StaleSessionsRaced
  BY DEF StaleInv
<1>4. QED
  BY <1>1, <1>2, <1>3, TypeCorrect, PTL DEF Spec

-----------------------------------------------------------------------------
(* A reset token sets one password.                                        *)

ResetInv == ResetTokensSpent /\ ResetWritesOnce

Unspent(r) == reset[r].status \in {"none", "pending"}

\* p has consumed a token and has not written the password yet.
Writing(p) == req[p].at = "update" /\ req[p].op = "reset"

\* A step that writes no password under a token, hands no token to a request
\* and makes no token presentable keeps ResetInv.
LEMMA TokensQuiet ==
  ASSUME ResetInv, UNCHANGED writes,
         \A r \in ResetTokens : Unspent(r)' => Unspent(r),
         \A q \in Procs :
           \/ req'[q].token = NoReset /\ ~Writing(q)'
           \/ req'[q].token = req[q].token /\ (Writing(q)' => Writing(q))
  PROVE  ResetInv'
<1>1. \A r \in ResetTokens : Unspent(r)' =>
        writes'[r] = 0 /\ \A q \in Procs : req'[q].token # r
  BY ConstantsAssumption DEF ResetInv, ResetTokensSpent, Unspent
<1>2. \A q1, q2 \in Procs :
        req'[q1].token \in ResetTokens /\ req'[q1].token = req'[q2].token => q1 = q2
  BY ConstantsAssumption DEF ResetInv, ResetTokensSpent
<1>3. \A q \in Procs : Writing(q)' => writes'[req'[q].token] = 0
  BY DEF ResetInv, ResetTokensSpent, Writing
<1>4. QED
  BY <1>1, <1>2, <1>3 DEF ResetInv, ResetTokensSpent, ResetWritesOnce, Unspent, Writing

LEMMA NextReset == TypeOK /\ ResetInv /\ [Next]_vars => ResetInv'
<1> SUFFICES ASSUME TypeOK, ResetInv, [Next]_vars PROVE ResetInv'
  OBVIOUS
<1>0. /\ req \in [Procs -> Request] /\ reset \in [ResetTokens -> ResetRow]
      /\ writes \in [ResetTokens -> Nat]
      /\ \A p \in Procs : req[p].op = "reset" => req[p].token \in ResetTokens
  BY DEF TypeOK, TablesOK, RequestsOK, HistoryOK, WellFormed
\* Steps that only give slot p a request without a token.
<1>1. ASSUME NEW p \in Procs, UNCHANGED writes,
             \A r \in ResetTokens : Unspent(r)' => Unspent(r),
             \A q \in Procs : q # p => req'[q] = req[q],
             req'[p].token = NoReset, req'[p].op # "reset"
      PROVE  ResetInv'
  BY <1>1, TokensQuiet DEF Writing
<1>2. ASSUME NEW p \in Procs, NEW u \in Users,
             \/ LoginVerify(p, u) \/ ChangeVerify(p, u) \/ CliConfirm(p, u)
             \/ ForgotSnapshot(p, u)
      PROVE  ResetInv'
  <2>1. /\ UNCHANGED <<writes, reset>>
        /\ \A q \in Procs : q # p => req'[q] = req[q]
        /\ req'[p].token = NoReset /\ req'[p].op # "reset"
    BY <1>0, <1>2 DEF LoginVerify, ChangeVerify, CliConfirm, ForgotSnapshot, Idle
  <2>2. QED
    BY <1>1, <2>1 DEF Unspent
<1>3. ASSUME NEW p \in Procs, NEW t \in Tokens, RefreshRevoke(p, t) \/ IssueTokenPair(p, t)
      PROVE  ResetInv'
  <2>1. /\ UNCHANGED <<writes, reset>>
        /\ \A q \in Procs : q # p => req'[q] = req[q]
        /\ req'[p].token = NoReset /\ req'[p].op # "reset"
    <3>1. CASE RefreshRevoke(p, t)
      BY <1>0, <3>1 DEF RefreshRevoke, Idle
    <3>2. CASE IssueTokenPair(p, t)
      BY <1>0, <3>2, IdleFacts DEF IssueTokenPair
    <3>3. QED
      BY <1>3, <3>1, <3>2
  <2>2. QED
    BY <1>1, <2>1 DEF Unspent
<1>4. ASSUME NEW p \in Procs, ChangeSweepFails(p) \/ Abandon(p)
      PROVE  ResetInv'
  <2>1. /\ UNCHANGED <<writes, reset>>
        /\ \A q \in Procs : q # p => req'[q] = req[q]
        /\ req'[p].token = NoReset /\ req'[p].op # "reset"
    BY <1>0, <1>4, IdleFacts DEF ChangeSweepFails, Abandon
  <2>2. QED
    BY <1>1, <2>1 DEF Unspent
<1>5. ASSUME NEW p \in Procs, NEW r \in ResetTokens, ForgotInsert(p, r)
      PROVE  ResetInv'
  <2>1. /\ UNCHANGED writes
        /\ \A q \in Procs : q # p => req'[q] = req[q]
        /\ req'[p].token = NoReset /\ req'[p].op # "reset"
    BY <1>0, <1>5, IdleFacts DEF ForgotInsert
  <2>2. \A s \in ResetTokens : Unspent(s)' => Unspent(s)
    BY <1>0, <1>5 DEF ForgotInsert, Unspent, ResetRow
  <2>3. QED
    BY <1>1, <2>1, <2>2
<1>6. ASSUME NEW p \in Procs, NEW r \in ResetTokens, ResetConsume(p, r)
      PROVE  ResetInv'
  <2>1. /\ UNCHANGED writes
        /\ Unspent(r) /\ ~Unspent(r)'
        /\ \A s \in ResetTokens : s # r => reset'[s] = reset[s]
        /\ \A q \in Procs : q # p => req'[q] = req[q]
        /\ req'[p].token = r
    BY <1>0, <1>6 DEF ResetConsume, Unspent, ResetRow, Idle
  <2>2. writes[r] = 0 /\ \A q \in Procs : req[q].token # r
    BY <2>1 DEF ResetInv, ResetTokensSpent, Unspent
  <2>3. QED
    BY <2>1, <2>2 DEF ResetInv, ResetTokensSpent, ResetWritesOnce, Unspent
<1>7. ASSUME NEW p \in Procs, UpdatePassword(p)
      PROVE  ResetInv'
  <2>1. /\ UNCHANGED reset
        /\ \A q \in Procs : q # p => req'[q] = req[q]
        /\ req'[p].token = req[p].token /\ req'[p].at = "sweep"
        /\ req[p].at = "update"
    BY <1>0, <1>7 DEF UpdatePassword, Request
  <2>2. CASE req[p].op # "reset"
    BY <1>7, <2>1, <2>2, TokensQuiet DEF UpdatePassword, Unspent, Writing
  <2>3. CASE req[p].op = "reset"
    <3> DEFINE mine == req[p].token
    <3>1. /\ mine \in ResetTokens /\ writes[mine] = 0
          /\ writes' = [writes EXCEPT ![mine] = 1]
      <4>1. mine \in ResetTokens /\ writes[mine] = 0
        BY <1>0, <2>1, <2>3 DEF ResetInv, ResetTokensSpent
      <4>2. writes' = [writes EXCEPT ![mine] = @ + 1]
        BY <1>7, <2>3 DEF UpdatePassword
      <4>3. QED
        BY <4>1, <4>2
    <3>2. ~Unspent(mine) /\ \A q \in Procs : q # p => req[q].token # mine
      BY <2>1, <3>1 DEF ResetInv, ResetTokensSpent, Unspent
    <3>3. \A s \in ResetTokens : s # mine => writes'[s] = writes[s]
      BY <1>0, <3>1
    <3>4. writes'[mine] = 1
      BY <1>0, <3>1
    <3>5. ResetWritesOnce'
      BY <3>3, <3>4 DEF ResetInv, ResetWritesOnce
    <3>6. \A s \in ResetTokens : Unspent(s) =>
            writes'[s] = 0 /\ \A q \in Procs : req'[q].token # s
      BY <2>1, <3>2, <3>3 DEF ResetInv, ResetTokensSpent, Unspent
    <3>7. \A q1, q2 \in Procs :
            req'[q1].token \in ResetTokens /\ req'[q1].token = req'[q2].token => q1 = q2
      BY <2>1 DEF ResetInv, ResetTokensSpent
    <3>8. \A q \in Procs : req'[q].at = "update" /\ req'[q].op = "reset" =>
            writes'[req'[q].token] = 0
      BY <1>0, <2>1, <3>2, <3>3 DEF ResetInv, ResetTokensSpent
    <3>9. QED
      BY <2>1, <3>5, <3>6, <3>7, <3>8 DEF ResetInv, ResetTokensSpent, Unspent
  <2>4. QED
    BY <2>2, <2>3
<1>8. ASSUME NEW p \in Procs, RevokeAllByUser(p)
      PROVE  ResetInv'
  <2>1. UNCHANGED <<writes, reset>>
    BY <1>8 DEF RevokeAllByUser
  <2>2. ASSUME NEW q \in Procs
        PROVE  \/ req'[q].token = NoReset /\ ~Writing(q)'
               \/ req'[q].token = req[q].token /\ (Writing(q)' => Writing(q))
    <3>1. CASE q = p
      BY <1>8, <3>1, IdleFacts DEF RevokeAllByUser, Writing
    <3>2. CASE q # p
      BY <1>0, <1>8, <3>2 DEF RevokeAllByUser, Request, Writing
    <3>3. QED
      BY <3>1, <3>2
  <2>3. QED
    BY <2>1, <2>2, TokensQuiet DEF Unspent
<1>9. ASSUME NEW r \in ResetTokens, ExpireReset(r)
      PROVE  ResetInv'
  <2>1. UNCHANGED <<writes, req>>
    BY <1>9 DEF ExpireReset
  <2>2. \A s \in ResetTokens : Unspent(s)' => Unspent(s)
    BY <1>0, <1>9 DEF ExpireReset, Unspent, ResetRow
  <2>3. QED
    BY <2>1, <2>2, TokensQuiet DEF Writing
<1>10. CASE UNCHANGED vars \/ \E t \in Tokens : LogoutRevoke(t) \/ ExpireRefresh(t)
  <2>1. UNCHANGED <<writes, reset, req>>
    BY <1>10 DEF vars, LogoutRevoke, ExpireRefresh
  <2>2. QED
    BY <2>1, TokensQuiet DEF Unspent, Writing
<1>11. QED
  BY <1>2, <1>3, <1>4, <1>5, <1>6, <1>7, <1>8, <1>9, <1>10 DEF Next

\* However many requests present a reset token together, it sets at most one
\* password.
THEOREM ResetTokenSetsOnePassword == Spec => []ResetWritesOnce
<1>1. Init => ResetInv
  BY IdleFacts, ConstantsAssumption DEF Init, ResetInv, ResetTokensSpent, ResetWritesOnce
<1>2. TypeOK /\ ResetInv /\ [Next]_vars => ResetInv'
  BY NextReset
<1>3. ResetInv => ResetWritesOnce
  BY DEF ResetInv
<1>4. QED
  BY <1>1, <1>2, <1>3, TypeCorrect, PTL DEF Spec

-----------------------------------------------------------------------------
(* Success means the sessions are revoked, for Reset and cmd/resetpassword. *)

LEMMA NextAck == TypeOK /\ ResetAckMeansSwept /\ [Next]_vars => ResetAckMeansSwept'
<1> SUFFICES ASSUME TypeOK, ResetAckMeansSwept, [Next]_vars PROVE ResetAckMeansSwept'
  OBVIOUS
<1>0. /\ swept \in [Users -> Gens] /\ acked \in [Setters -> [Users -> Gens]]
      /\ \A p \in Procs : req[p].gen \in Gens
      /\ \A p \in Procs : req[p].at = "sweep" => req[p].user \in Users /\ req[p].op \in Setters
  BY DEF TypeOK, RequestsOK, HistoryOK, WellFormed, Request
<1>1. CASE UNCHANGED <<acked, swept>>
  BY <1>1 DEF ResetAckMeansSwept
<1>2. ASSUME NEW p \in Procs, ChangeSweepFails(p)
      PROVE  ResetAckMeansSwept'
  <2>1. \A op \in {"reset", "cli"} : acked'[op] = acked[op]
    BY <1>0, <1>2 DEF ChangeSweepFails, Report, Setters
  <2>2. QED
    BY <1>2, <2>1 DEF ChangeSweepFails, ResetAckMeansSwept
<1>3. ASSUME NEW p \in Procs, RevokeAllByUser(p)
      PROVE  ResetAckMeansSwept'
  <2> DEFINE u == req[p].user
             g == req[p].gen
  <2>1. /\ u \in Users /\ req[p].op \in Setters /\ g \in Nat
        /\ swept' = [swept EXCEPT ![u] = IF @ < g THEN g ELSE @]
        /\ \/ acked' = acked
           \/ acked' = [acked EXCEPT ![req[p].op][u] = g]
    BY <1>0, <1>3, GensFacts DEF RevokeAllByUser, Report
  <2>2. ASSUME NEW v \in Users
        PROVE  /\ swept[v] \in Nat /\ swept[v] <= swept'[v]
               /\ v = u => g <= swept'[v]
    <3>1. swept[v] \in Nat
      BY <1>0, GensFacts
    <3>2. swept'[v] = IF v = u /\ swept[v] < g THEN g ELSE swept[v]
      BY <1>0, <2>1
    <3>3. QED
      BY <2>1, <3>1, <3>2
  <2>3. g <= swept'[u]
    BY <2>1, <2>2
  <2>4. ASSUME NEW op \in {"reset", "cli"}, NEW v \in Users
        PROVE  acked'[op][v] <= swept'[v]
    <3>1. acked[op][v] <= swept[v] /\ acked[op][v] \in Nat /\ swept'[v] \in Nat
      BY <1>0, <2>1, GensFacts DEF ResetAckMeansSwept, Setters
    <3>2. acked'[op][v] = acked[op][v] \/ (v = u /\ acked'[op][v] = g)
      BY <1>0, <2>1 DEF Setters
    <3>3. QED
      BY <2>2, <2>3, <3>1, <3>2
  <2>5. QED
    BY <2>4 DEF ResetAckMeansSwept
<1>4. QED
  BY <1>1, <1>2, <1>3 DEF Next, vars, LoginVerify, ChangeVerify, CliConfirm,
     ForgotSnapshot, RefreshRevoke, IssueTokenPair, ResetConsume, ForgotInsert,
     UpdatePassword, Abandon, LogoutRevoke, ExpireRefresh, ExpireReset

\* When Reset or the command reports success, the sessions of the account have
\* been revoked for the password it wrote or a newer one.
THEOREM ResetAcknowledged == Spec => []ResetAckMeansSwept
<1>1. Init => ResetAckMeansSwept
  BY DEF Init, ResetAckMeansSwept, Setters
<1>2. QED
  BY <1>1, NextAck, TypeCorrect, PTL DEF Spec

\* What a reset promises by its link and by its answer, together
\* (internal/auth/password_reset.go:167-208).
THEOREM ResetsAreSound == Spec => []ResetsSound
<1>1. ResetWritesOnce /\ ResetAckMeansSwept => ResetsSound
  BY DEF ResetsSound
<1>2. QED
  BY <1>1, ResetTokenSetsOnePassword, ResetAcknowledged, PTL

-----------------------------------------------------------------------------
(* Sessions implements SessionChains, for any number of accounts, requests *)
(* and tokens.                                                             *)

\* The first token of a session carries the session's own name, and is there
\* as long as any token or rotation of the session is.
RootsOwn ==
  /\ \A t \in Tokens : refresh[t].status # "none" =>
       refresh[refresh[t].root].root = refresh[t].root
  /\ \A p \in Procs, c \in Tokens : Rotating(p, c) => refresh[c].root = c

LEMMA HeldRooted ==
  ASSUME TypeOK, RootsOwn, NEW c \in Tokens, Held(c)
  PROVE  refresh[c].root = c
  BY DEF RootsOwn, Held, Active

LEMMA FreshRow ==
  ASSUME TypeOK, NEW t \in Tokens
  PROVE  /\ refresh[t].status = "none" => refresh[t] = NoRow
         /\ refresh[t] = NoRow => refresh[t].root # t
         /\ refresh[t].status # "none" =>
              refresh[t].user \in Users /\ refresh[t].root \in Tokens
  BY ConstantsAssumption DEF TypeOK, TablesOK, NoRow

\* A step that keeps every session as it was changes no chain.
LEMMA SameChains ==
  ASSUME \A c \in Tokens : /\ Held(c)' <=> Held(c)
                           /\ (refresh'[c].root = c) <=> (refresh[c].root = c)
                           /\ refresh[c].root = c => refresh'[c].user = refresh[c].user
  PROVE  UNCHANGED Chains!vars
<1>1. ChainOf' = ChainOf
  BY DEF ChainOf
<1>2. OwnerOf' = OwnerOf
  BY DEF OwnerOf
<1>3. QED
  BY <1>1, <1>2 DEF Chains!vars

\* A step that opens no token and starts no rotation closes some chains.
LEMMA QuietChains ==
  ASSUME TypeOK, RootsOwn,
         \A t \in Tokens : /\ Active(t)' => Active(t)
                           /\ refresh'[t].root = refresh[t].root
                           /\ refresh'[t].user = refresh[t].user,
         \A p \in Procs, c \in Tokens : Rotating(p, c)' => Rotating(p, c)
  PROVE  [Chains!Next]_(Chains!vars)
<1> DEFINE S == {c \in Tokens : Held(c) /\ ~Held(c)'}
<1>1. \A c \in Tokens : Held(c)' => Held(c)
  BY DEF Held
<1>2. CASE S = {}
  <2>1. \A c \in Tokens : Held(c)' <=> Held(c)
    BY <1>1, <1>2
  <2>2. QED
    BY <2>1, SameChains
<1>3. CASE S # {}
  <2>1. \A c \in S : ChainOf[c] = "open"
    BY DEF ChainOf
  <2>2. ChainOf' = [c \in Tokens |-> IF c \in S THEN "closed" ELSE ChainOf[c]]
    <3>1. \A c \in S : refresh[c].root = c
      BY HeldRooted
    <3>2. ASSUME NEW c \in Tokens
          PROVE  ChainOf'[c] = IF c \in S THEN "closed" ELSE ChainOf[c]
      BY <1>1, <3>1 DEF ChainOf
    <3>3. QED
      BY <3>2 DEF ChainOf
  <2>3. OwnerOf' = OwnerOf
    BY DEF OwnerOf
  <2>4. Chains!Close(S)
    BY <1>3, <2>1, <2>2, <2>3 DEF Chains!Close
  <2>5. QED
    BY <2>4 DEF Chains!Next
<1>4. QED
  BY <1>2, <1>3

LEMMA RefreshChains ==
  ASSUME TypeOK, RootsOwn, NEW p \in Procs, NEW t \in Tokens, RefreshRevoke(p, t)
  PROVE  RootsOwn' /\ UNCHANGED Chains!vars
<1> DEFINE c == refresh[t].root
<1>1. /\ c \in Tokens /\ Active(t) /\ req[p].at = "idle"
      /\ req \in [Procs -> Request] /\ refresh \in [Tokens -> RefreshRow]
  BY FreshRow, IdleFacts DEF RefreshRevoke, Active, TypeOK, TablesOK, RequestsOK
<1>2. \A s \in Tokens : /\ Active(s)' <=> Active(s) /\ s # t
                        /\ refresh'[s].root = refresh[s].root
                        /\ refresh'[s].user = refresh[s].user
                        /\ refresh'[s].status # "none" => refresh[s].status # "none"
  BY <1>1 DEF RefreshRevoke, Active, RefreshRow
<1>3. \A q \in Procs, d \in Tokens :
        Rotating(q, d)' <=> Rotating(q, d) \/ (q = p /\ d = c)
  <2>1. \A q \in Procs : q # p => req'[q] = req[q]
    BY <1>1 DEF RefreshRevoke
  <2>2. /\ req'[p].at = "issue" /\ req'[p].op = "refresh" /\ req'[p].root = c
    BY <1>1 DEF RefreshRevoke, Idle
  <2>3. QED
    BY <1>1, <2>1, <2>2 DEF Rotating
<1>4. \A d \in Tokens : Held(d)' <=> Held(d)
  BY <1>1, <1>2, <1>3 DEF Held
<1>5. UNCHANGED Chains!vars
  BY <1>2, <1>4, SameChains
<1>6. refresh[c].root = c
  BY <1>1 DEF RootsOwn, Active
<1>7. RootsOwn'
  <2>1. \A s \in Tokens : refresh'[s].status # "none" =>
          refresh'[refresh'[s].root].root = refresh'[s].root
    <3> SUFFICES ASSUME NEW s \in Tokens, refresh[s].status # "none"
                 PROVE  refresh'[refresh'[s].root].root = refresh'[s].root
      BY <1>2
    <3>1. refresh[s].root \in Tokens
      BY FreshRow
    <3>2. QED
      BY <1>2, <3>1 DEF RootsOwn
  <2>2. \A q \in Procs, d \in Tokens : Rotating(q, d)' => refresh'[d].root = d
    BY <1>2, <1>3, <1>6 DEF RootsOwn
  <2>3. QED
    BY <2>1, <2>2 DEF RootsOwn, Rotating
<1>8. QED
  BY <1>5, <1>7

\* issueTokenPair opens a chain (Login) or hands one over (Refresh).
LEMMA IssueChains ==
  ASSUME TypeOK, RootsOwn, NEW p \in Procs, NEW t \in Tokens, IssueTokenPair(p, t)
  PROVE  RootsOwn' /\ [Chains!Next]_(Chains!vars)
<1>0. PICK c \in Tokens : c = IF req[p].op = "login" THEN t ELSE req[p].root
  BY DEF IssueTokenPair, TypeOK, RequestsOK, WellFormed
<1>1. /\ req[p].user \in Users /\ req[p].at = "issue"
      /\ req[p].op \in {"login", "refresh"}
      /\ refresh[t].status = "none" /\ refresh[t].root # t
      /\ refresh \in [Tokens -> RefreshRow] /\ req \in [Procs -> Request]
  BY FreshRow DEF IssueTokenPair, TypeOK, TablesOK, RequestsOK, WellFormed
<1>2. /\ refresh'[t].status = "active" /\ refresh'[t].root = c
      /\ refresh'[t].user = req[p].user
      /\ \A s \in Tokens : s # t => refresh'[s] = refresh[s]
  BY <1>0, <1>1 DEF IssueTokenPair
<1>3. \A q \in Procs, d \in Tokens : Rotating(q, d)' <=> Rotating(q, d) /\ q # p
  BY <1>1, IdleFacts DEF IssueTokenPair, Rotating
<1>4. \A s \in Tokens : refresh[s].status # "none" => refresh[s].root # t
  BY <1>1 DEF RootsOwn
<1>5. \A q \in Procs : ~Rotating(q, t)
  BY <1>1 DEF RootsOwn
<1>6. ~Held(t)
  BY <1>4, <1>5 DEF Held, Active
<1>7. \A d \in Tokens : d # c => (Held(d)' <=> Held(d))
  <2>1. ASSUME NEW d \in Tokens, d # c
        PROVE  \A s \in Tokens : Active(s)' /\ refresh'[s].root = d
                                   <=> Active(s) /\ refresh[s].root = d
    BY <1>1, <1>2, <2>1 DEF Active
  <2>2. ASSUME NEW d \in Tokens, d # c
        PROVE  \A q \in Procs : Rotating(q, d)' <=> Rotating(q, d)
    BY <1>0, <1>1, <1>3, <2>2 DEF Rotating
  <2>3. QED
    BY <2>1, <2>2 DEF Held
<1>8. Held(c)'
  BY <1>1, <1>2 DEF Held, Active
<1>9. CASE req[p].op = "login"
  <2>1. c = t /\ ChainOf[t] = "unopened"
    BY <1>0, <1>6, <1>9, <1>1 DEF ChainOf
  <2>2. ASSUME NEW d \in Tokens, d # t
        PROVE  ChainOf'[d] = ChainOf[d] /\ OwnerOf'[d] = OwnerOf[d]
    BY <1>2, <1>7, <2>1, <2>2 DEF ChainOf, OwnerOf
  <2>3. ChainOf'[t] = "open" /\ OwnerOf'[t] = req[p].user
    BY <1>2, <1>8, <2>1 DEF ChainOf, OwnerOf
  <2>4. ChainOf' = [ChainOf EXCEPT ![t] = "open"]
    BY <2>2, <2>3 DEF ChainOf
  <2>5. OwnerOf' = [OwnerOf EXCEPT ![t] = req[p].user]
    <3>1. /\ OwnerOf' = [d \in Tokens |-> OwnerOf'[d]]
          /\ OwnerOf = [d \in Tokens |-> OwnerOf[d]]
      BY DEF OwnerOf
    <3>2. QED
      BY <2>2, <2>3, <3>1
  <2>6. Chains!Open(t, req[p].user)
    BY <2>1, <2>4, <2>5 DEF Chains!Open
  <2>7. Chains!Next
    BY <1>1, <2>6 DEF Chains!Next
  <2>8. RootsOwn'
    <3>1. ASSUME NEW s \in Tokens, refresh'[s].status # "none"
          PROVE  refresh'[refresh'[s].root].root = refresh'[s].root
      <4>1. CASE s = t
        BY <1>2, <2>1, <4>1
      <4>2. CASE s # t
        BY <1>2, <1>4, <3>1, <4>2, FreshRow DEF RootsOwn
      <4>3. QED
        BY <4>1, <4>2
    <3>2. \A q \in Procs, d \in Tokens : Rotating(q, d)' => refresh'[d].root = d
      BY <1>2, <1>3, <1>5 DEF RootsOwn
    <3>3. QED
      BY <3>1, <3>2 DEF RootsOwn, Rotating
  <2>9. QED
    BY <2>7, <2>8
<1>10. CASE req[p].op = "refresh"
  <2>1. c = req[p].root /\ Rotating(p, c)
    BY <1>0, <1>1, <1>10 DEF Rotating
  <2>2. refresh[c].root = c /\ c # t /\ Held(c)
    BY <1>1, <2>1 DEF RootsOwn, Held
  <2>3. \A d \in Tokens : Held(d)' <=> Held(d)
    BY <1>7, <1>8, <2>2
  <2>4. UNCHANGED Chains!vars
    BY <1>1, <1>2, <2>2, <2>3, SameChains
  <2>5. RootsOwn'
    <3>1. ASSUME NEW s \in Tokens, refresh'[s].status # "none"
          PROVE  refresh'[refresh'[s].root].root = refresh'[s].root
      <4>1. CASE s = t
        BY <1>2, <2>2, <4>1
      <4>2. CASE s # t
        BY <1>2, <1>4, <3>1, <4>2, FreshRow DEF RootsOwn
      <4>3. QED
        BY <4>1, <4>2
    <3>2. \A q \in Procs, d \in Tokens : Rotating(q, d)' => refresh'[d].root = d
      BY <1>2, <1>3, <1>5 DEF RootsOwn
    <3>3. QED
      BY <3>1, <3>2 DEF RootsOwn, Rotating
  <2>6. QED
    BY <2>4, <2>5
<1>11. QED
  BY <1>1, <1>9, <1>10

\* A step of any other kind keeps RootsOwn and closes chains at most.
LEMMA QuietRefines ==
  ASSUME TypeOK, RootsOwn,
         \A t \in Tokens : /\ Active(t)' => Active(t)
                           /\ refresh'[t].root = refresh[t].root
                           /\ refresh'[t].user = refresh[t].user
                           /\ refresh'[t].status # "none" => refresh[t].status # "none",
         \A p \in Procs, c \in Tokens : Rotating(p, c)' => Rotating(p, c)
  PROVE  RootsOwn' /\ [Chains!Next]_(Chains!vars)
<1>1. [Chains!Next]_(Chains!vars)
  BY QuietChains
<1>2. ASSUME NEW s \in Tokens, refresh'[s].status # "none"
      PROVE  refresh'[refresh'[s].root].root = refresh'[s].root
  <2>1. refresh[s].root \in Tokens /\ refresh[s].status # "none"
    BY <1>2, FreshRow
  <2>2. QED
    BY <2>1 DEF RootsOwn
<1>3. \A q \in Procs, d \in Tokens : Rotating(q, d)' => refresh'[d].root = d
  BY DEF RootsOwn
<1>4. QED
  BY <1>1, <1>2, <1>3 DEF RootsOwn, Rotating

LEMMA NextRefines ==
  TypeOK /\ RootsOwn /\ [Next]_vars => RootsOwn' /\ [Chains!Next]_(Chains!vars)
<1> DEFINE Refined == RootsOwn' /\ [Chains!Next]_(Chains!vars)
<1> SUFFICES ASSUME TypeOK, RootsOwn, [Next]_vars PROVE Refined
  OBVIOUS
<1>0. /\ req \in [Procs -> Request] /\ refresh \in [Tokens -> RefreshRow]
      /\ Idle.at = "idle"
  BY IdleFacts DEF TypeOK, TablesOK, RequestsOK
<1>1. ASSUME NEW p \in Procs, UNCHANGED refresh,
             \A q \in Procs : q # p => req'[q] = req[q],
             req'[p].op # "refresh" \/ req'[p].at # "issue"
      PROVE  Refined
  <2>1. \A q \in Procs, c \in Tokens : Rotating(q, c)' => Rotating(q, c)
    BY <1>1 DEF Rotating
  <2>2. QED
    BY <1>1, <2>1, QuietRefines DEF Active
<1>2. ASSUME NEW p \in Procs, NEW u \in Users,
             \/ LoginVerify(p, u) \/ ChangeVerify(p, u) \/ CliConfirm(p, u)
             \/ ForgotSnapshot(p, u)
      PROVE  Refined
  <2>1. /\ UNCHANGED refresh
        /\ \A q \in Procs : q # p => req'[q] = req[q]
        /\ req'[p].op # "refresh"
    BY <1>0, <1>2 DEF LoginVerify, ChangeVerify, CliConfirm, ForgotSnapshot, Idle
  <2>2. QED
    BY <1>1, <2>1
<1>3. ASSUME NEW p \in Procs, NEW r \in ResetTokens, ResetConsume(p, r) \/ ForgotInsert(p, r)
      PROVE  Refined
  <2>1. /\ UNCHANGED refresh
        /\ \A q \in Procs : q # p => req'[q] = req[q]
        /\ req'[p].at # "issue"
    BY <1>0, <1>3 DEF ResetConsume, ForgotInsert, Idle
  <2>2. QED
    BY <1>1, <2>1
<1>4. ASSUME NEW p \in Procs, UpdatePassword(p) \/ ChangeSweepFails(p) \/ Abandon(p)
      PROVE  Refined
  <2>1. /\ UNCHANGED refresh
        /\ \A q \in Procs : q # p => req'[q] = req[q]
        /\ req'[p].at # "issue"
    <3>1. CASE UpdatePassword(p)
      BY <1>0, <3>1 DEF UpdatePassword, Request
    <3>2. CASE ChangeSweepFails(p) \/ Abandon(p)
      BY <1>0, <3>2 DEF ChangeSweepFails, Abandon
    <3>3. QED
      BY <1>4, <3>1, <3>2
  <2>2. QED
    BY <1>1, <2>1
<1>5. ASSUME NEW p \in Procs, RevokeAllByUser(p)
      PROVE  Refined
  <2>1. req[p].user \in Users
    BY <1>5 DEF RevokeAllByUser, TypeOK, RequestsOK, WellFormed
  <2>2. ASSUME NEW t \in Tokens
        PROVE  /\ Active(t)' => Active(t)
               /\ refresh'[t].root = refresh[t].root
               /\ refresh'[t].user = refresh[t].user
               /\ refresh'[t].status # "none" => refresh[t].status # "none"
    <3>1. CASE refresh[t].user = req[p].user
      <4>1. refresh[t].status # "none"
        BY <2>1, <3>1, FreshRow, ConstantsAssumption DEF NoRow
      <4>2. QED
        BY <1>0, <1>5, <3>1, <4>1 DEF RevokeAllByUser, RefreshRow, Active
    <3>2. CASE refresh[t].user # req[p].user
      BY <1>5, <3>2 DEF RevokeAllByUser, Active
    <3>3. QED
      BY <3>1, <3>2
  <2>3. \A q \in Procs, c \in Tokens : Rotating(q, c)' => Rotating(q, c)
    BY <1>0, <1>5 DEF RevokeAllByUser, Request, Rotating
  <2>4. QED
    BY <2>2, <2>3, QuietRefines
<1>6. ASSUME NEW t \in Tokens, LogoutRevoke(t) \/ ExpireRefresh(t)
      PROVE  Refined
  <2>1. \A s \in Tokens : /\ Active(s)' => Active(s)
                          /\ refresh'[s].root = refresh[s].root
                          /\ refresh'[s].user = refresh[s].user
                          /\ refresh'[s].status # "none" => refresh[s].status # "none"
    BY <1>0, <1>6 DEF LogoutRevoke, ExpireRefresh, RefreshRow, Active
  <2>2. \A q \in Procs, c \in Tokens : Rotating(q, c)' => Rotating(q, c)
    BY <1>6 DEF LogoutRevoke, ExpireRefresh, Rotating
  <2>3. QED
    BY <2>1, <2>2, QuietRefines
<1>7. CASE UNCHANGED vars \/ \E r \in ResetTokens : ExpireReset(r)
  <2>1. UNCHANGED <<refresh, req>>
    BY <1>7 DEF vars, ExpireReset
  <2>2. QED
    BY <2>1, QuietRefines DEF Active, Rotating
<1>8. ASSUME NEW p \in Procs, NEW t \in Tokens, RefreshRevoke(p, t) \/ IssueTokenPair(p, t)
      PROVE  Refined
  BY <1>8, RefreshChains, IssueChains
<1>9. QED
  BY <1>2, <1>3, <1>4, <1>5, <1>6, <1>7, <1>8 DEF Next

\* Every behaviour of the handlers is a behaviour of session chains: whatever
\* overlaps, fails or is abandoned, a session that has ended stays ended and
\* keeps its account.
THEOREM SessionsImplementChains == Spec => ImplementsChains
<1>1. Init => RootsOwn /\ Chains!Init
  <2> SUFFICES ASSUME Init PROVE RootsOwn /\ Chains!Init
    OBVIOUS
  <2>1. /\ \A t \in Tokens : refresh[t].status = "none" /\ refresh[t].root # t
        /\ \A p \in Procs : req[p].at = "idle"
    BY IdleFacts, ConstantsAssumption DEF Init, NoRow
  <2>2. \A c \in Tokens : ~Held(c)
    BY <2>1 DEF Held, Active, Rotating
  <2>3. Chains!Init
    BY <2>1, <2>2 DEF Chains!Init, ChainOf, OwnerOf
  <2>4. QED
    BY <2>1, <2>3 DEF RootsOwn, Rotating
<1>2. QED
  BY <1>1, NextRefines, TypeCorrect, PTL DEF Spec, ImplementsChains, Chains!Spec
=============================================================================
