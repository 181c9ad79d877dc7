------------------------- MODULE RegistrationProofs -------------------------
(***************************************************************************)
(* Proofs about Registration, for any number of requests, logins, invites  *)
(* and families; and, in the last section, that it implements InviteLives. *)
(***************************************************************************)
EXTENDS Registration, TLAPS

LEMMA IdleOK == Idle \in Request /\ WellFormed(Idle) /\ Idle.at = "idle"
  BY DEF Idle, Request, WellFormed

LEMMA StopForOK ==
  ASSUME TypeOK, NEW p \in Procs, NEW reason \in Reasons, StopFor(p, reason)
  PROVE  stopped' \in [Invites -> SUBSET Reasons]
  BY DEF StopFor, TypeOK

LEMMA GiveBackOK ==
  ASSUME TypeOK, NEW p \in Procs, GiveBack(p), req[p].at \in {"family", "user"}
  PROVE  /\ \A q \in Procs : q # p => req'[q] = req[q]
         /\ \/ HasInvite(p) /\ req' = [req EXCEPT ![p] = [req[p] EXCEPT !.at = "release"]]
            \/ ~HasInvite(p) /\ req' = [req EXCEPT ![p] = Idle]
         /\ req' \in [Procs -> Request] /\ \A q \in Procs : WellFormed(req'[q])
<1>1. req \in [Procs -> Request] /\ req[p] \in Request /\ WellFormed(req[p])
  BY DEF TypeOK
<1>2. CASE HasInvite(p)
  <2> DEFINE rq == [req[p] EXCEPT !.at = "release"]
  <2>1. req' = [req EXCEPT ![p] = rq]
    BY <1>2 DEF GiveBack
  <2>2. rq \in Request /\ WellFormed(rq)
    BY <1>1, <1>2 DEF HasInvite, Request, WellFormed
  <2>3. QED
    BY <1>1, <1>2, <2>1, <2>2 DEF TypeOK
<1>3. CASE ~HasInvite(p)
  BY <1>1, <1>3, IdleOK DEF GiveBack, Finish, TypeOK
<1>4. QED
  BY <1>2, <1>3

LEMMA InitTypeOK == Init => TypeOK
  BY IdleOK DEF Init, TypeOK, InviteRow, Reasons

\* The request of p moves on to rq, and the rest of the step is well typed.
LEMMA NextTypeOK == TypeOK /\ [Next]_vars => TypeOK'
<1> SUFFICES ASSUME TypeOK, [Next]_vars PROVE TypeOK'
  OBVIOUS
<1> DEFINE RequestsOK == /\ req \in [Procs -> Request]
                         /\ \A q \in Procs : WellFormed(req[q])
           TablesOK == /\ invite \in [Invites -> InviteRow]
                       /\ plan \in [Families -> {"none", "FREE", "LIFETIME_FREE"}]
                       /\ account \in [Logins -> Families \cup {NoFamily}]
                       /\ members \subseteq Families \X Logins
           HistoryOK == /\ granted \in [Invites -> SUBSET Logins]
                        /\ stopped \in [Invites -> SUBSET Reasons]
<1>a. ASSUME NEW p \in Procs, NEW rq \in Request, WellFormed(rq),
             req' = [req EXCEPT ![p] = rq]
      PROVE  RequestsOK'
  BY <1>a DEF TypeOK
<1>b. ASSUME RequestsOK', TablesOK', HistoryOK'
      PROVE  TypeOK'
  BY <1>b DEF TypeOK
<1>c. ASSUME NEW p \in Procs, Finish(p)
      PROVE  RequestsOK'
  BY <1>a, <1>c, IdleOK DEF Finish
<1> HIDE DEF RequestsOK
<1>1. ASSUME NEW p \in Procs, NEW l \in Logins, NEW i \in Invites \cup {NoInvite},
             Begin(p, l, i)
      PROVE  TypeOK'
  <2> DEFINE rq == [Idle EXCEPT !.at = IF i = NoInvite THEN "family" ELSE "claim",
                                !.login = l, !.invite = i]
  <2>1. rq \in Request /\ WellFormed(rq)
    BY DEF Idle, Request, WellFormed
  <2>2. RequestsOK'
    BY <1>1, <1>a, <2>1 DEF Begin
  <2>3. QED
    BY <1>1, <1>b, <2>2 DEF Begin, TypeOK
<1>2. ASSUME NEW p \in Procs, NEW f \in Families, CreateFamily(p, f)
      PROVE  TypeOK'
  <2> DEFINE rq == [req[p] EXCEPT !.at = "user", !.family = f]
  <2>1. rq \in Request /\ WellFormed(rq)
    BY <1>2 DEF CreateFamily, TypeOK, Request, WellFormed
  <2>2. req' = [req EXCEPT ![p] = rq]
    BY <1>2 DEF CreateFamily
  <2>3. RequestsOK'
    BY <1>a, <2>1, <2>2
  <2>4. QED
    BY <1>2, <1>b, <2>3 DEF CreateFamily, TypeOK
<1>3. ASSUME NEW p \in Procs, Claim(p)
      PROVE  TypeOK'
  <2> DEFINE rq == [req[p] EXCEPT !.at = "family"]
  <2>1. rq \in Request /\ WellFormed(rq)
    BY <1>3 DEF Claim, TypeOK, Request, WellFormed
  <2>2. req' = [req EXCEPT ![p] = rq]
    BY <1>3 DEF Claim
  <2>3. RequestsOK'
    BY <1>a, <2>1, <2>2
  <2>4. TablesOK'
    BY <1>3 DEF Claim, TypeOK, InviteRow
  <2>5. QED
    BY <1>3, <1>b, <2>3, <2>4 DEF Claim, TypeOK
<1>4. ASSUME NEW p \in Procs, ClaimRejected(p) \/ HashFails(p) \/ ReleaseFails(p) \/ Crash(p)
      PROVE  TypeOK'
  <2>1. RequestsOK'
    BY <1>4, <1>c DEF ClaimRejected, HashFails, ReleaseFails, Crash
  <2>2. HistoryOK'
    BY <1>4, StopForOK DEF ClaimRejected, HashFails, ReleaseFails, Crash, Reasons, TypeOK
  <2>3. TablesOK'
    BY <1>4 DEF ClaimRejected, HashFails, ReleaseFails, Crash, TypeOK
  <2>4. QED
    BY <1>b, <2>1, <2>2, <2>3
<1>5. ASSUME NEW p \in Procs, ClaimUnheard(p)
      PROVE  TypeOK'
  <2>1. RequestsOK'
    BY <1>5, <1>c DEF ClaimUnheard
  <2>2. HistoryOK'
    BY <1>5 DEF ClaimUnheard, TypeOK, Reasons
  <2>3. TablesOK'
    BY <1>5 DEF ClaimUnheard, TypeOK, InviteRow
  <2>4. QED
    BY <1>b, <2>1, <2>2, <2>3
<1>6. ASSUME NEW p \in Procs,
             CreateFamilyFails(p) \/ CreateUserFails(p) \/ CreateUserUnheard(p)
      PROVE  TypeOK'
  <2>1. GiveBack(p) /\ req[p].at \in {"family", "user"}
    BY <1>6 DEF CreateFamilyFails, CreateUserFails, CreateUserUnheard
  <2>2. RequestsOK'
    BY <2>1, GiveBackOK DEF RequestsOK
  <2>3. CASE CreateUserUnheard(p)
    <3>1. req[p].login \in Logins /\ req[p].family \in Families
      BY <2>3 DEF CreateUserUnheard, TypeOK, WellFormed
    <3>2. stopped' \in [Invites -> SUBSET Reasons]
      BY <2>3, StopForOK DEF CreateUserUnheard, Reasons
    <3>3. TablesOK' /\ HistoryOK'
      BY <2>3, <3>1, <3>2 DEF CreateUserUnheard, TypeOK
    <3>4. QED
      BY <1>b, <2>2, <3>3
  <2>4. CASE CreateFamilyFails(p) \/ CreateUserFails(p)
    BY <1>b, <2>2, <2>4 DEF CreateFamilyFails, CreateUserFails, TypeOK
  <2>5. QED
    BY <1>6, <2>3, <2>4
<1>7. ASSUME NEW p \in Procs, CreateUser(p)
      PROVE  TypeOK'
  <2> DEFINE rq == [req[p] EXCEPT !.at = "member"]
  <2>1. /\ rq \in Request /\ WellFormed(rq)
        /\ req[p].login \in Logins /\ req[p].family \in Families
    BY <1>7 DEF CreateUser, TypeOK, Request, WellFormed
  <2>2. req' = [req EXCEPT ![p] = rq]
    BY <1>7 DEF CreateUser
  <2>3. RequestsOK'
    BY <1>a, <2>1, <2>2
  <2>4. QED
    BY <1>7, <1>b, <2>1, <2>3 DEF CreateUser, TypeOK
<1>8. ASSUME NEW p \in Procs, ReleaseClaim(p)
      PROVE  TypeOK'
  <2>1. RequestsOK'
    BY <1>8, <1>c DEF ReleaseClaim
  <2>2. TablesOK'
    BY <1>8 DEF ReleaseClaim, TypeOK, InviteRow
  <2>3. QED
    BY <1>8, <1>b, <2>1, <2>2 DEF ReleaseClaim, TypeOK
<1>9. ASSUME NEW p \in Procs, AddMember(p)
      PROVE  TypeOK'
  <2>1. req[p].login \in Logins /\ req[p].family \in Families /\ req[p] \in Request
    BY <1>9 DEF AddMember, TypeOK, WellFormed
  <2>2. RequestsOK'
    <3>1. CASE HasInvite(p)
      <4> DEFINE rq == [req[p] EXCEPT !.at = "audit"]
      <4>1. rq \in Request /\ WellFormed(rq)
        BY <2>1, <3>1 DEF HasInvite, Request, WellFormed
      <4>2. req' = [req EXCEPT ![p] = rq]
        BY <1>9, <3>1 DEF AddMember
      <4>3. QED
        BY <1>a, <4>1, <4>2
    <3>2. CASE ~HasInvite(p)
      BY <1>9, <1>c, <3>2 DEF AddMember
    <3>3. QED
      BY <3>1, <3>2
  <2>3. TablesOK'
    BY <1>9, <2>1 DEF AddMember, TypeOK
  <2>4. QED
    BY <1>9, <1>b, <2>2, <2>3 DEF AddMember, TypeOK
<1>10. ASSUME NEW p \in Procs, SetUsedFamily(p)
       PROVE  TypeOK'
  <2>1. req[p].invite \in Invites /\ req[p].family \in Families
    BY <1>10 DEF SetUsedFamily, TypeOK, WellFormed
  <2>2. RequestsOK'
    BY <1>10, <1>c DEF SetUsedFamily
  <2>3. TablesOK'
    BY <1>10, <2>1 DEF SetUsedFamily, TypeOK, InviteRow
  <2>4. QED
    BY <1>10, <1>b, <2>2, <2>3 DEF SetUsedFamily, TypeOK
<1>11. ASSUME NEW i \in Invites, CreateInvite(i) \/ RevokeInvite(i) \/ Expire(i)
       PROVE  TypeOK'
  <2>1. \/ invite' = [invite EXCEPT ![i].status = "open"]
        \/ invite' = [invite EXCEPT ![i].status = "deleted"]
        \/ invite' = [invite EXCEPT ![i].expired = TRUE]
    BY <1>11 DEF CreateInvite, RevokeInvite, Expire
  <2>2. invite' \in [Invites -> InviteRow]
    <3>1. invite \in [Invites -> InviteRow] /\ invite[i] \in InviteRow
      BY DEF TypeOK
    <3>2. /\ [invite[i] EXCEPT !.status = "open"] \in InviteRow
          /\ [invite[i] EXCEPT !.status = "deleted"] \in InviteRow
          /\ [invite[i] EXCEPT !.expired = TRUE] \in InviteRow
      BY <3>1 DEF InviteRow
    <3>3. QED
      BY <2>1, <3>1, <3>2
  <2>3. UNCHANGED <<plan, account, members, req, granted, stopped>>
    BY <1>11 DEF CreateInvite, RevokeInvite, Expire
  <2>4. QED
    BY <2>2, <2>3 DEF TypeOK
<1>12. CASE UNCHANGED vars
  BY <1>12 DEF vars, TypeOK
<1>13. QED
  BY <1>1, <1>2, <1>3, <1>4, <1>5, <1>6, <1>7, <1>8, <1>9, <1>10, <1>11, <1>12 DEF Next

\* Registration is type correct, with and without lost replies.
THEOREM TypeCorrect == Spec => []TypeOK
  BY InitTypeOK, NextTypeOK, PTL DEF Spec

-----------------------------------------------------------------------------
(* An invite creates one account, unless a user was created unheard.       *)

\* p holds i and has not created its user.
Unspent(p, i) == Holds(p, i) /\ req[p].at \in {"family", "user", "release"}

\* What is heard is never heard again differently.
LEMMA HeardStays ==
  ASSUME TypeOK, [Next]_vars, NEW i \in Invites, Heard(i)'
  PROVE  Heard(i)
<1>1. ASSUME NEW p \in Procs, NEW reason \in Reasons, StopFor(p, reason)
      PROVE  Heard(i)
  BY <1>1 DEF StopFor, Heard, TypeOK
<1>2. CASE UNCHANGED stopped
  BY <1>2 DEF Heard
<1>3. ASSUME NEW p \in Procs, ClaimUnheard(p)
      PROVE  Heard(i)
  BY <1>3 DEF ClaimUnheard, Heard, TypeOK
<1>4. ASSUME NEW p \in Procs,
             HashFails(p) \/ ReleaseFails(p) \/ Crash(p) \/ CreateUserUnheard(p)
      PROVE  Heard(i)
  BY <1>1, <1>4 DEF HashFails, ReleaseFails, Crash, CreateUserUnheard, Reasons
<1>5. QED
  BY <1>2, <1>3, <1>4 DEF Next, vars, Begin, CreateFamily, Claim, ClaimRejected,
     CreateFamilyFails, CreateUser, CreateUserFails, ReleaseClaim, AddMember,
     SetUsedFamily, CreateInvite, RevokeInvite, Expire

\* A step that takes no claim, spends none and changes no invite's status.
LEMMA ClaimsQuiet ==
  ASSUME ClaimsExclusive, UNCHANGED granted,
         \A i \in Invites : Heard(i)' => Heard(i),
         \A i \in Invites : invite'[i].status = invite[i].status,
         \A p \in Procs, i \in Invites : /\ Holds(p, i)' => Holds(p, i)
                                         /\ Unspent(p, i)' => Unspent(p, i)
  PROVE  ClaimsExclusive'
<1>1. \A p \in Procs, i \in Invites : Holds(p, i)' => invite'[i].status = "claimed"
  BY DEF ClaimsExclusive
<1>2. \A p, q \in Procs, i \in Invites : Holds(p, i)' /\ Holds(q, i)' => p = q
  BY DEF ClaimsExclusive
<1>3. \A i \in Invites : Heard(i)' /\ invite'[i].status # "claimed" => granted'[i] = {}
  BY DEF ClaimsExclusive
<1>4. \A p \in Procs, i \in Invites : Heard(i)' /\ Unspent(p, i)' => granted'[i] = {}
  BY DEF ClaimsExclusive, Unspent
<1>5. QED
  BY <1>1, <1>2, <1>3, <1>4 DEF ClaimsExclusive, Unspent

LEMMA NextClaims ==
  TypeOK /\ ClaimsExclusive /\ OneGrantIfHeard /\ [Next]_vars
    => ClaimsExclusive' /\ OneGrantIfHeard'
<1> DEFINE Goal == ClaimsExclusive' /\ OneGrantIfHeard'
<1> SUFFICES ASSUME TypeOK, ClaimsExclusive, OneGrantIfHeard, [Next]_vars
             PROVE  Goal
  OBVIOUS
<1>0. /\ req \in [Procs -> Request] /\ invite \in [Invites -> InviteRow]
      /\ \A i \in Invites : Heard(i)' => Heard(i)
  BY HeardStays DEF TypeOK
\* Steps after which p holds no claim, or the one it held.
<1>1. ASSUME NEW p \in Procs, UNCHANGED granted,
             \A i \in Invites : invite'[i].status = invite[i].status,
             \A q \in Procs : q # p => req'[q] = req[q],
             \/ req'[p].at \in {"idle", "claim"} \/ req'[p].invite = NoInvite
             \/ /\ req'[p].invite = req[p].invite
                /\ req[p].at \in {"family", "user", "release"}
             \/ /\ req'[p].invite = req[p].invite
                /\ req[p].at \notin {"idle", "claim"} /\ req'[p].at = "audit"
      PROVE  Goal
  <2>1. ASSUME NEW q \in Procs, NEW i \in Invites
        PROVE  (Holds(q, i)' => Holds(q, i)) /\ (Unspent(q, i)' => Unspent(q, i))
    <3>1. CASE q = p
      BY <1>1, <3>1, ConstantsAssumption DEF Holds, Unspent
    <3>2. CASE q # p
      BY <1>1, <3>2 DEF Holds, Unspent
    <3>3. QED
      BY <3>1, <3>2
  <2>2. ClaimsExclusive'
    BY <1>0, <1>1, <2>1, ClaimsQuiet
  <2>3. QED
    BY <1>0, <1>1, <2>2 DEF OneGrantIfHeard
<1>2. ASSUME NEW p \in Procs, NEW l \in Logins, NEW i \in Invites \cup {NoInvite},
             Begin(p, l, i)
      PROVE  Goal
  <2>1. /\ \A q \in Procs : q # p => req'[q] = req[q]
        /\ req'[p].at = "claim" \/ req'[p].invite = NoInvite
    BY <1>0, <1>2 DEF Begin, Idle
  <2>2. QED
    BY <1>1, <1>2, <2>1 DEF Begin
<1>3. ASSUME NEW p \in Procs, Claim(p)
      PROVE  Goal
  <2> DEFINE i == req[p].invite
  <2>1. /\ i \in Invites /\ invite[i].status = "open"
        /\ invite'[i].status = "claimed"
        /\ \A j \in Invites : j # i => invite'[j] = invite[j]
        /\ req'[p].at = "family" /\ req'[p].invite = req[p].invite
        /\ \A q \in Procs : q # p => req'[q] = req[q]
        /\ UNCHANGED granted
    BY <1>0, <1>3 DEF Claim, TypeOK, WellFormed, InviteRow, Request
  <2>2. (Heard(i) => granted[i] = {}) /\ \A q \in Procs : ~Holds(q, i)
    BY <2>1 DEF ClaimsExclusive
  <2>3. \A q \in Procs, j \in Invites :
          Holds(q, j)' <=> IF q = p THEN j = i ELSE Holds(q, j)
    BY <2>1 DEF Holds
  <2>4. \A q \in Procs, j \in Invites : Unspent(q, j)' => q = p \/ Unspent(q, j)
    BY <2>1 DEF Unspent, Holds
  <2>5. \A q \in Procs, j \in Invites : Holds(q, j)' => invite'[j].status = "claimed"
    BY <2>1, <2>3 DEF ClaimsExclusive
  <2>6. \A q1, q2 \in Procs, j \in Invites : Holds(q1, j)' /\ Holds(q2, j)' => q1 = q2
    BY <2>2, <2>3 DEF ClaimsExclusive
  <2>7. \A j \in Invites : Heard(j)' /\ invite'[j].status # "claimed" => granted'[j] = {}
    BY <1>0, <2>1 DEF ClaimsExclusive
  <2>8. \A q \in Procs, j \in Invites : Heard(j)' /\ Unspent(q, j)' => granted'[j] = {}
    <3> SUFFICES ASSUME NEW q \in Procs, NEW j \in Invites, Heard(j)', Unspent(q, j)'
                 PROVE  granted[j] = {}
      BY <2>1
    <3>1. Holds(q, j)'
      BY DEF Unspent
    <3>2. CASE q = p
      BY <1>0, <2>2, <2>3, <3>1, <3>2
    <3>3. CASE q # p
      BY <1>0, <2>4, <3>3 DEF ClaimsExclusive, Unspent
    <3>4. QED
      BY <3>2, <3>3
  <2>9. QED
    BY <1>0, <2>1, <2>5, <2>6, <2>7, <2>8 DEF ClaimsExclusive, OneGrantIfHeard, Unspent
<1>4. ASSUME NEW p \in Procs,
             \/ ClaimRejected(p) \/ HashFails(p) \/ ReleaseFails(p) \/ Crash(p)
      PROVE  Goal
  <2>1. UNCHANGED <<granted, invite>> /\ req' = [req EXCEPT ![p] = Idle]
    BY <1>4 DEF ClaimRejected, HashFails, ReleaseFails, Crash, Finish
  <2>2. QED
    BY <1>0, <1>1, <2>1, IdleOK
<1>5. ASSUME NEW p \in Procs, NEW f \in Families, CreateFamily(p, f)
      PROVE  Goal
  <2>1. /\ UNCHANGED <<granted, invite>>
        /\ \A q \in Procs : q # p => req'[q] = req[q]
        /\ req'[p].invite = req[p].invite /\ req[p].at = "family"
    BY <1>0, <1>5 DEF CreateFamily, Request
  <2>2. QED
    BY <1>1, <2>1
<1>6. ASSUME NEW p \in Procs, CreateFamilyFails(p) \/ CreateUserFails(p)
      PROVE  Goal
  <2>1. /\ UNCHANGED <<granted, invite>> /\ GiveBack(p)
        /\ req[p].at \in {"family", "user"}
    BY <1>6 DEF CreateFamilyFails, CreateUserFails
  <2>2. /\ \A q \in Procs : q # p => req'[q] = req[q]
        /\ \/ req'[p].at = "idle"
           \/ req'[p].invite = req[p].invite
    BY <1>0, <2>1, GiveBackOK, IdleOK DEF Request
  <2>3. QED
    BY <1>1, <2>1, <2>2
<1>7. ASSUME NEW p \in Procs, CreateUser(p)
      PROVE  Goal
  <2> DEFINE l == req[p].login
  <2>1. /\ UNCHANGED invite /\ req[p].at = "user" /\ req'[p].at = "member"
        /\ req'[p].invite = req[p].invite
        /\ \A q \in Procs : q # p => req'[q] = req[q]
        /\ \A i \in Invites :
             granted'[i] = IF Holds(p, i) THEN granted[i] \cup {l} ELSE granted[i]
    BY <1>0, <1>7 DEF CreateUser, Request
  <2>2. \A i \in Invites : Holds(p, i) =>
          (Heard(i) => granted[i] = {}) /\ invite[i].status = "claimed"
    BY <2>1 DEF ClaimsExclusive
  <2>3. OneGrantIfHeard'
    BY <1>0, <2>1, <2>2 DEF OneGrantIfHeard
  <2>4. \A q \in Procs, i \in Invites : Holds(q, i)' <=> Holds(q, i)
    BY <2>1 DEF Holds
  <2>5. \A i \in Invites : Heard(i)' /\ invite'[i].status # "claimed" => granted'[i] = {}
    BY <1>0, <2>1, <2>2 DEF ClaimsExclusive
  <2>6. ASSUME NEW q \in Procs, NEW i \in Invites, Heard(i)', Unspent(q, i)'
        PROVE  granted'[i] = {}
    <3>1. q # p /\ Unspent(q, i)
      BY <2>1, <2>4, <2>6 DEF Unspent, Holds
    <3>2. ~Holds(p, i)
      BY <3>1 DEF ClaimsExclusive, Unspent
    <3>3. QED
      BY <1>0, <2>1, <2>6, <3>1, <3>2 DEF ClaimsExclusive, Unspent
  <2>7. ClaimsExclusive'
    BY <2>1, <2>4, <2>5, <2>6 DEF ClaimsExclusive, Unspent
  <2>8. QED
    BY <2>3, <2>7
<1>8. ASSUME NEW p \in Procs, ReleaseClaim(p)
      PROVE  Goal
  <2> DEFINE i == req[p].invite
  <2>1. /\ i \in Invites /\ Unspent(p, i) /\ UNCHANGED granted
        /\ \A j \in Invites : j # i => invite'[j] = invite[j]
        /\ req'[p].at = "idle" /\ \A q \in Procs : q # p => req'[q] = req[q]
    BY <1>0, <1>8, IdleOK DEF ReleaseClaim, Finish, TypeOK, WellFormed, Unspent, Holds
  <2>2. Heard(i) => granted[i] = {}
    BY <2>1 DEF ClaimsExclusive, Unspent
  <2>3. \A q \in Procs, j \in Invites : Holds(q, j)' => Holds(q, j) /\ q # p
    BY <2>1 DEF Holds
  <2>4. \A q \in Procs, j \in Invites : Holds(q, j)' => j # i
    BY <2>1, <2>3 DEF ClaimsExclusive, Unspent
  <2>5. \A q \in Procs, j \in Invites : Unspent(q, j)' => Unspent(q, j)
    BY <2>1 DEF Unspent, Holds
  <2>6. \A q \in Procs, j \in Invites : Holds(q, j)' => invite'[j].status = "claimed"
    BY <2>1, <2>3, <2>4 DEF ClaimsExclusive
  <2>7. \A j \in Invites : Heard(j)' /\ invite'[j].status # "claimed" => granted'[j] = {}
    BY <1>0, <2>1, <2>2 DEF ClaimsExclusive
  <2>8. QED
    BY <1>0, <2>1, <2>3, <2>5, <2>6, <2>7 DEF ClaimsExclusive, OneGrantIfHeard, Unspent
<1>9. ASSUME NEW p \in Procs, AddMember(p)
      PROVE  Goal
  <2>1. /\ UNCHANGED <<granted, invite>> /\ req[p].at = "member"
        /\ \A q \in Procs : q # p => req'[q] = req[q]
        /\ \/ req'[p].at = "idle"
           \/ req'[p].at = "audit" /\ req'[p].invite = req[p].invite
    BY <1>0, <1>9, IdleOK DEF AddMember, Finish, Request
  <2>2. QED
    BY <1>1, <2>1
<1>10. ASSUME NEW p \in Procs, SetUsedFamily(p)
       PROVE  Goal
  <2>1. /\ UNCHANGED granted /\ req' = [req EXCEPT ![p] = Idle]
        /\ \A i \in Invites : invite'[i].status = invite[i].status
    BY <1>0, <1>10 DEF SetUsedFamily, Finish, InviteRow
  <2>2. QED
    BY <1>0, <1>1, <2>1, IdleOK
<1>11. ASSUME NEW i \in Invites, CreateInvite(i) \/ RevokeInvite(i)
       PROVE  Goal
  <2>1. /\ UNCHANGED <<granted, req>> /\ invite[i].status # "claimed"
        /\ \A j \in Invites : j # i => invite'[j] = invite[j]
    BY <1>0, <1>11 DEF CreateInvite, RevokeInvite, InviteRow
  <2>2. \A q \in Procs, j \in Invites : Holds(q, j)' <=> Holds(q, j)
    BY <2>1 DEF Holds
  <2>3. \A q \in Procs : ~Holds(q, i)
    BY <2>1 DEF ClaimsExclusive
  <2>4. \A q \in Procs, j \in Invites : Holds(q, j)' => invite'[j].status = "claimed"
    BY <2>1, <2>2, <2>3 DEF ClaimsExclusive
  <2>5. \A j \in Invites : Heard(j)' /\ invite'[j].status # "claimed" => granted'[j] = {}
    BY <1>0, <2>1 DEF ClaimsExclusive
  <2>6. QED
    BY <1>0, <2>1, <2>2, <2>4, <2>5 DEF ClaimsExclusive, OneGrantIfHeard
<1>12. CASE UNCHANGED vars \/ \E i \in Invites : Expire(i)
  <2>1. /\ UNCHANGED <<granted, req>>
        /\ \A j \in Invites : invite'[j].status = invite[j].status
    BY <1>0, <1>12 DEF vars, Expire, InviteRow
  <2>2. QED
    BY <1>0, <2>1, ClaimsQuiet DEF OneGrantIfHeard, Holds, Unspent
\* The claim stays with nobody.
<1>13. ASSUME NEW p \in Procs, ClaimUnheard(p)
       PROVE  Goal
  <2> DEFINE i == req[p].invite
  <2>1. /\ i \in Invites /\ invite[i].status = "open"
        /\ invite'[i].status = "claimed"
        /\ \A j \in Invites : j # i => invite'[j] = invite[j]
        /\ req'[p].at = "idle"
        /\ \A q \in Procs : q # p => req'[q] = req[q]
        /\ UNCHANGED granted
    BY <1>0, <1>13, IdleOK
       DEF ClaimUnheard, Finish, TypeOK, WellFormed, InviteRow, Request
  <2>2. \A q \in Procs, j \in Invites :
          (Holds(q, j)' => Holds(q, j)) /\ (Unspent(q, j)' => Unspent(q, j))
    BY <2>1 DEF Holds, Unspent
  <2>3. \A q \in Procs, j \in Invites : Holds(q, j)' => invite'[j].status = "claimed"
    BY <2>1, <2>2 DEF ClaimsExclusive
  <2>4. \A j \in Invites : Heard(j)' /\ invite'[j].status # "claimed" => granted'[j] = {}
    BY <1>0, <2>1 DEF ClaimsExclusive
  <2>5. QED
    BY <1>0, <2>1, <2>2, <2>3, <2>4 DEF ClaimsExclusive, OneGrantIfHeard, Unspent
\* The invite p held is not heard of any more.
<1>14. ASSUME NEW p \in Procs, CreateUserUnheard(p)
       PROVE  Goal
  <2>1. /\ UNCHANGED invite /\ req[p].at = "user" /\ GiveBack(p)
        /\ \A i \in Invites : Holds(p, i) => ~Heard(i)'
        /\ \A i \in Invites : ~Holds(p, i) => granted'[i] = granted[i]
    BY <1>14 DEF CreateUserUnheard, StopFor, Heard, TypeOK
  <2>2. /\ \A q \in Procs : q # p => req'[q] = req[q]
        /\ req'[p].at = "idle" \/ req'[p].invite = req[p].invite
    BY <1>0, <2>1, GiveBackOK, IdleOK DEF Request
  <2>3. \A q \in Procs, i \in Invites :
          (Holds(q, i)' => Holds(q, i)) /\ (Unspent(q, i)' => Unspent(q, i))
    BY <2>1, <2>2 DEF Holds, Unspent
  <2>4. \A i \in Invites : Heard(i)' => Heard(i) /\ granted'[i] = granted[i]
    BY <1>0, <2>1
  <2>5. QED
    BY <2>1, <2>3, <2>4 DEF ClaimsExclusive, OneGrantIfHeard, Unspent
<1>15. QED
  BY <1>2, <1>3, <1>4, <1>5, <1>6, <1>7, <1>8, <1>9, <1>10, <1>11, <1>12, <1>13, <1>14
     DEF Next

LEMMA ClaimsInvariant == Spec => [](ClaimsExclusive /\ OneGrantIfHeard)
<1>1. Init => ClaimsExclusive /\ OneGrantIfHeard
  BY IdleOK DEF Init, ClaimsExclusive, OneGrantIfHeard, Holds
<1>2. TypeOK /\ (ClaimsExclusive /\ OneGrantIfHeard) /\ [Next]_vars
        => (ClaimsExclusive /\ OneGrantIfHeard)'
  BY NextClaims
<1>3. QED
  BY <1>1, <1>2, TypeCorrect, PTL DEF Spec

\* However many Register requests present an invite, and whichever of them
\* fail and give it back, it creates one account at most: the claim-first order
\* of Register does what its comment says, if the failure of the user's INSERT
\* is a failure.  Revoking an invite is final: no account came from it, and none
\* will (internal/auth/handler.go:158-172, internal/handlers/admin.go:318-330).
THEOREM InviteGrantsOnce == Spec => []GrantsOnce
<1>1. ClaimsExclusive => RevokedGrantsNothing
  BY DEF ClaimsExclusive, RevokedGrantsNothing, Held
<1>2. QED
  BY <1>1, ClaimsInvariant, PTL DEF GrantsOnce

-----------------------------------------------------------------------------
(* Invites, plans and the audit agree.                                     *)

\* The plan of a family founded by the request of p.
PlanFor(p) == IF HasInvite(p) THEN "LIFETIME_FREE" ELSE "FREE"

\* The families under way: one nobody lives in yet belongs to one request, and
\* one that has its user is the user's, with the plan the invite pays for.
Foundings ==
  /\ \A p \in Procs : req[p].at \in {"user", "member", "audit"} =>
       plan[req[p].family] = PlanFor(p)
  /\ \A p \in Procs, l \in Logins :
       req[p].at = "user" => account[l] # req[p].family
  /\ \A p, q \in Procs : p # q /\ req[p].at = "user" /\ req[q].at = "user" =>
       req[p].family # req[q].family
  /\ \A p \in Procs : req[p].at \in {"member", "audit"} =>
       account[req[p].login] = req[p].family
  /\ \A p \in Procs : req[p].at \in {"member", "audit"} /\ HasInvite(p) =>
       req[p].login \in granted[req[p].invite]
  /\ \A l \in Logins : account[l] # NoFamily => plan[account[l]] # "none"
  /\ \A i \in Invites : \A l \in granted[i] : account[l] # NoFamily

\* q was in its founding already, and knows what it knew.
GoesOn(q) ==
  /\ \/ req'[q].at = req[q].at
     \/ req[q].at = "member" /\ req'[q].at = "audit"
  /\ req'[q].login = req[q].login /\ req'[q].invite = req[q].invite
  /\ req'[q].family = req[q].family

\* A step that founds no family and creates no user.
Quiet ==
  /\ UNCHANGED <<plan, account, granted>>
  /\ \A q \in Procs : req'[q].at \in {"user", "member", "audit"} => GoesOn(q)

LEMMA QuietStep ==
  ASSUME Foundings, LifetimeEarned, Quiet
  PROVE  Foundings' /\ LifetimeEarned'
<1>1. \A q \in Procs : req'[q].at \in {"user", "member", "audit"} =>
        /\ req[q].at \in {"user", "member", "audit"}
        /\ (req'[q].at = "user") => req[q].at = "user"
        /\ req'[q].at \in {"member", "audit"} => req[q].at \in {"member", "audit"}
        /\ GoesOn(q)
  BY DEF Quiet, GoesOn
<1>2. Foundings'
  BY <1>1 DEF Foundings, Quiet, GoesOn, PlanFor, HasInvite
<1>3. QED
  BY <1>2 DEF Quiet, LifetimeEarned

\* All but three of the actions are of that kind.
LEMMA QuietActions ==
  ASSUME TypeOK, [Next]_vars,
         ~\E p \in Procs : \/ \E f \in Families : CreateFamily(p, f)
                           \/ CreateUser(p) \/ CreateUserUnheard(p)
  PROVE  Quiet
<1>0. req \in [Procs -> Request]
  BY DEF TypeOK
<1>1. ASSUME NEW p \in Procs, UNCHANGED <<plan, account, granted>>,
             \A q \in Procs : q # p => req'[q] = req[q],
             req'[p].at \notin {"user", "member", "audit"} \/ GoesOn(p)
      PROVE  Quiet
  BY <1>1 DEF Quiet, GoesOn
<1>2. ASSUME NEW p \in Procs, NEW l \in Logins, NEW i \in Invites \cup {NoInvite},
             Begin(p, l, i)
      PROVE  Quiet
  BY <1>0, <1>1, <1>2 DEF Begin, Idle
<1>3. ASSUME NEW p \in Procs, Claim(p)
      PROVE  Quiet
  BY <1>0, <1>1, <1>3 DEF Claim, Request
<1>4. ASSUME NEW p \in Procs, Finish(p), UNCHANGED <<plan, account, granted>>
      PROVE  Quiet
  BY <1>0, <1>1, <1>4, IdleOK DEF Finish
<1>5. ASSUME NEW p \in Procs, CreateFamilyFails(p) \/ CreateUserFails(p)
      PROVE  Quiet
  <2>1. /\ \A q \in Procs : q # p => req'[q] = req[q]
        /\ req'[p].at \in {"release", "idle"} /\ UNCHANGED <<plan, account, granted>>
    BY <1>0, <1>5, GiveBackOK, IdleOK DEF CreateFamilyFails, CreateUserFails, Request
  <2>2. QED
    BY <1>1, <2>1
<1>6. ASSUME NEW p \in Procs, AddMember(p)
      PROVE  Quiet
  <2>1. CASE HasInvite(p)
    BY <1>0, <1>1, <1>6, <2>1 DEF AddMember, Request, GoesOn
  <2>2. CASE ~HasInvite(p)
    BY <1>4, <1>6, <2>2 DEF AddMember
  <2>3. QED
    BY <2>1, <2>2
<1>7. CASE UNCHANGED vars \/ \E i \in Invites : CreateInvite(i) \/ RevokeInvite(i) \/ Expire(i)
  BY <1>7 DEF vars, CreateInvite, RevokeInvite, Expire, Quiet, GoesOn
<1>8. QED
  BY <1>2, <1>3, <1>4, <1>5, <1>6, <1>7 DEF Next, ClaimRejected, ClaimUnheard, HashFails,
     ReleaseClaim, ReleaseFails, SetUsedFamily, Crash

LEMMA FoundingsStep ==
  ASSUME TypeOK, Foundings, LifetimeEarned, [Next]_vars
  PROVE  Foundings' /\ LifetimeEarned'
<1>0. req \in [Procs -> Request] /\ \A p \in Procs : WellFormed(req[p])
  BY DEF TypeOK
\* A family nobody had yet, for p alone.
<1>1. ASSUME NEW p \in Procs, NEW f \in Families, CreateFamily(p, f)
      PROVE  Foundings' /\ LifetimeEarned'
  <2>1. /\ req[p].at = "family" /\ plan[f] = "none" /\ UNCHANGED <<account, granted>>
        /\ plan'[f] = PlanFor(p) /\ \A g \in Families : g # f => plan'[g] = plan[g]
        /\ req'[p].at = "user" /\ req'[p].family = f /\ req'[p].invite = req[p].invite
        /\ \A q \in Procs : q # p => req'[q] = req[q]
    BY <1>0, <1>1 DEF CreateFamily, TypeOK, Request, PlanFor
  <2>2. \A l \in Logins : account[l] # f
    BY <2>1, ConstantsAssumption DEF Foundings
  <2>3. \A q \in Procs : req[q].at \in {"user", "member", "audit"} =>
          req[q].family # f /\ req[q].family \in Families
    BY <1>0, <2>1 DEF Foundings, WellFormed, PlanFor
  <2>4. \A q \in Procs : PlanFor(q)' = PlanFor(q)
    BY <2>1 DEF PlanFor, HasInvite
  <2>5. \A l \in Logins : account[l] # NoFamily => plan'[account[l]] = plan[account[l]]
    BY <2>1, <2>2 DEF TypeOK
  <2>6. \A q \in Procs : req'[q].at \in {"user", "member", "audit"} =>
          plan'[req'[q].family] = PlanFor(q)'
    BY <2>1, <2>3, <2>4 DEF Foundings
  <2>7. \A q \in Procs, l \in Logins : req'[q].at = "user" => account'[l] # req'[q].family
    BY <2>1, <2>2 DEF Foundings
  <2>8. \A q, r \in Procs : q # r /\ req'[q].at = "user" /\ req'[r].at = "user" =>
          req'[q].family # req'[r].family
    BY <2>1, <2>3 DEF Foundings
  <2>9. \A q \in Procs : req'[q].at \in {"member", "audit"} =>
          q # p /\ req'[q] = req[q]
    BY <2>1
  <2>10. Foundings'
    BY <2>1, <2>5, <2>6, <2>7, <2>8, <2>9 DEF Foundings, HasInvite
  <2>11. QED
    BY <2>1, <2>5, <2>10 DEF LifetimeEarned
\* The family of p gets its user, and the invite its account.
<1>2. ASSUME NEW p \in Procs, CreateUser(p) \/ CreateUserUnheard(p)
      PROVE  Foundings' /\ LifetimeEarned'
  <2> DEFINE l == req[p].login
             f == req[p].family
  <2>1. /\ req[p].at = "user" /\ l \in Logins /\ f \in Families /\ f # NoFamily
        /\ account[l] = NoFamily /\ UNCHANGED plan
        /\ account'[l] = f /\ \A k \in Logins : k # l => account'[k] = account[k]
        /\ \A i \in Invites :
             granted'[i] = IF Holds(p, i) THEN granted[i] \cup {l} ELSE granted[i]
    BY <1>0, <1>2, ConstantsAssumption
       DEF CreateUser, CreateUserUnheard, TypeOK, WellFormed
  <2>2. /\ \A q \in Procs : q # p => req'[q] = req[q]
        /\ \/ req'[p].at \in {"idle", "release"}
           \/ /\ req'[p].at = "member" /\ req'[p].login = l /\ req'[p].family = f
              /\ req'[p].invite = req[p].invite
    <3>1. CASE CreateUser(p)
      BY <1>0, <3>1 DEF CreateUser, Request
    <3>2. CASE CreateUserUnheard(p)
      <4>1. GiveBack(p) /\ req[p].at \in {"family", "user"}
        BY <2>1, <3>2 DEF CreateUserUnheard
      <4>2. /\ \A q \in Procs : q # p => req'[q] = req[q]
            /\ \/ req' = [req EXCEPT ![p] = [req[p] EXCEPT !.at = "release"]]
               \/ req' = [req EXCEPT ![p] = Idle]
        BY <4>1, GiveBackOK
      <4>3. QED
        BY <1>0, <4>2, IdleOK DEF Request
    <3>3. QED
      BY <1>2, <3>1, <3>2
  <2>3. plan[f] = PlanFor(p) /\ plan[f] # "none"
    BY <2>1 DEF Foundings, PlanFor
  <2>4. \A i \in Invites : Holds(p, i) <=> HasInvite(p) /\ i = req[p].invite
    BY <2>1, ConstantsAssumption DEF Holds, HasInvite
  <2>5. HasInvite(p) => req[p].invite \in Invites
    BY <1>0 DEF Request, HasInvite
  <2>6. \A i \in Invites : l \notin granted[i]
    BY <2>1 DEF Foundings
  <2>7. \A q \in Procs : q # p => PlanFor(q)' = PlanFor(q)
    BY <2>2 DEF PlanFor, HasInvite
  <2>8. \A q \in Procs : req'[q].at \in {"user", "member", "audit"} =>
          plan'[req'[q].family] = PlanFor(q)'
    BY <2>1, <2>2, <2>3, <2>7 DEF Foundings, PlanFor, HasInvite
  <2>9. \A q \in Procs : req'[q].at = "user" => q # p /\ req[q].at = "user" /\ req[q].family # f
    BY <2>1, <2>2 DEF Foundings
  <2>10. \A q \in Procs, k \in Logins : req'[q].at = "user" => account'[k] # req'[q].family
    BY <2>1, <2>2, <2>9 DEF Foundings
  <2>11. \A q, r \in Procs : q # r /\ req'[q].at = "user" /\ req'[r].at = "user" =>
          req'[q].family # req'[r].family
    BY <2>2, <2>9 DEF Foundings
  <2>12. \A q \in Procs : q # p /\ req[q].at \in {"member", "audit"} =>
           req[q].login # l /\ req[q].login \in Logins
    <3> SUFFICES ASSUME NEW q \in Procs, q # p, req[q].at \in {"member", "audit"}
                 PROVE  req[q].login # l /\ req[q].login \in Logins
      OBVIOUS
    <3>1. /\ req[q].login \in Logins /\ req[q].family \in Families
          /\ account[req[q].login] = req[q].family
      BY <1>0 DEF Foundings, WellFormed
    <3>2. QED
      BY <2>1, <3>1, ConstantsAssumption
  <2>13. \A q \in Procs : req'[q].at \in {"member", "audit"} =>
           account'[req'[q].login] = req'[q].family
    BY <2>1, <2>2, <2>12 DEF Foundings
  <2>14. \A q \in Procs : req'[q].at \in {"member", "audit"} /\ HasInvite(q)' =>
           req'[q].login \in granted'[req'[q].invite]
    <3> SUFFICES ASSUME NEW q \in Procs, req'[q].at \in {"member", "audit"}, HasInvite(q)'
                 PROVE  req'[q].login \in granted'[req'[q].invite]
      OBVIOUS
    <3>1. CASE q = p
      BY <2>1, <2>2, <2>4, <2>5, <3>1 DEF HasInvite
    <3>2. CASE q # p
      <4>1. /\ req'[q] = req[q] /\ req[q].login \in granted[req[q].invite]
            /\ req[q].invite \in Invites
        BY <1>0, <2>2, <3>2 DEF Foundings, HasInvite, Request
      <4>2. QED
        BY <2>1, <4>1
    <3>3. QED
      BY <3>1, <3>2
  <2>15. \A k \in Logins : account'[k] # NoFamily => plan'[account'[k]] # "none"
    BY <2>1, <2>3 DEF Foundings
  <2>16. \A i \in Invites : \A k \in granted'[i] : account'[k] # NoFamily
    <3> SUFFICES ASSUME NEW i \in Invites, NEW k \in granted'[i]
                 PROVE  account'[k] # NoFamily
      OBVIOUS
    <3>1. granted[i] \subseteq Logins /\ (k = l \/ k \in granted[i])
      BY <2>1 DEF TypeOK
    <3>2. QED
      BY <2>1, <3>1 DEF Foundings
  <2>17. Foundings'
    BY <2>8, <2>10, <2>11, <2>13, <2>14, <2>15, <2>16 DEF Foundings
  <2>18. ASSUME NEW k \in Logins, account'[k] # NoFamily
         PROVE  plan'[account'[k]] = "LIFETIME_FREE" <=> \E i \in Invites : k \in granted'[i]
    <3>1. CASE k = l
      <4>1. plan'[account'[k]] = PlanFor(p)
        BY <2>1, <2>3, <3>1
      <4>2. (\E i \in Invites : k \in granted'[i]) <=> HasInvite(p)
        BY <2>1, <2>4, <2>5, <2>6, <3>1
      <4>3. QED
        BY <4>1, <4>2 DEF PlanFor
    <3>2. CASE k # l
      <4>1. account[k] # NoFamily /\ plan'[account'[k]] = plan[account[k]]
        BY <2>1, <2>18, <3>2
      <4>2. \A i \in Invites : k \in granted'[i] <=> k \in granted[i]
        BY <2>1, <3>2
      <4>3. QED
        BY <4>1, <4>2 DEF LifetimeEarned
    <3>3. QED
      BY <3>1, <3>2
  <2>19. QED
    BY <2>17, <2>18 DEF LifetimeEarned
<1>3. QED
  BY <1>1, <1>2, QuietActions, QuietStep

\* Accounts keep their family, and invites their accounts.
LEMMA GrantsStay ==
  ASSUME TypeOK, [Next]_vars
  PROVE  /\ \A i \in Invites : granted[i] \subseteq granted'[i]
         /\ \A i \in Invites : stopped[i] \subseteq stopped'[i]
         /\ \A l \in Logins : account[l] # NoFamily => account'[l] = account[l]
<1>1. ASSUME NEW p \in Procs, CreateUser(p) \/ CreateUserUnheard(p)
      PROVE  /\ \A i \in Invites : granted[i] \subseteq granted'[i]
             /\ \A l \in Logins : account[l] # NoFamily => account'[l] = account[l]
  <2>1. \A i \in Invites :
          granted'[i] = granted[i] \/ granted'[i] = granted[i] \cup {req[p].login}
    BY <1>1 DEF CreateUser, CreateUserUnheard
  <2>2. /\ account[req[p].login] = NoFamily
        /\ \A l \in Logins : l # req[p].login => account'[l] = account[l]
    BY <1>1 DEF CreateUser, CreateUserUnheard, TypeOK
  <2>3. QED
    BY <2>1, <2>2
<1>2. ASSUME NEW p \in Procs, NEW reason, StopFor(p, reason)
      PROVE  \A i \in Invites : stopped[i] \subseteq stopped'[i]
  BY <1>2 DEF StopFor
<1>3. ASSUME NEW p \in Procs, ClaimUnheard(p)
      PROVE  \A i \in Invites : stopped[i] \subseteq stopped'[i]
  BY <1>3 DEF ClaimUnheard, TypeOK
<1>4. \/ UNCHANGED <<granted, account>>
      \/ \E p \in Procs : CreateUser(p) \/ CreateUserUnheard(p)
  BY DEF Next, vars, Begin, CreateFamily, Claim, ClaimRejected, ClaimUnheard, HashFails,
     CreateFamilyFails, CreateUserFails, ReleaseClaim, ReleaseFails, AddMember,
     SetUsedFamily, Crash, CreateInvite, RevokeInvite, Expire
<1>5. \/ UNCHANGED stopped
      \/ \E p \in Procs : ClaimUnheard(p)
      \/ \E p \in Procs, reason \in Reasons : StopFor(p, reason)
  BY DEF Next, vars, Begin, CreateFamily, Claim, ClaimRejected, HashFails,
     CreateFamilyFails, CreateUser, CreateUserFails, CreateUserUnheard, ReleaseClaim,
     ReleaseFails, AddMember, SetUsedFamily, Crash, CreateInvite, RevokeInvite, Expire,
     Reasons
<1>6. QED
  BY <1>1, <1>2, <1>3, <1>4, <1>5

\* A request lets go of a claim by giving it back, or leaves its account, or a
\* mishap, behind.
LEMMA LetsGo ==
  ASSUME TypeOK, Foundings, [Next]_vars, NEW p \in Procs, NEW i \in Invites,
         Holds(p, i), ~Holds(p, i)'
  PROVE  invite'[i].status = "open" \/ granted'[i] # {} \/ stopped'[i] # {}
<1>0. req \in [Procs -> Request] /\ \A q \in Procs : WellFormed(req[q])
  BY DEF TypeOK
<1>1. ASSUME NEW q \in Procs, ReleaseClaim(q)
      PROVE  q = p /\ invite'[i].status = "open"
  BY <1>0, <1>1 DEF ReleaseClaim, Finish, Holds, TypeOK, InviteRow
<1>2. ASSUME NEW q \in Procs, HashFails(q) \/ ReleaseFails(q) \/ Crash(q)
      PROVE  stopped'[i] # {}
  BY <1>0, <1>2 DEF HashFails, ReleaseFails, Crash, Finish, StopFor, Holds
<1>3. ASSUME NEW q \in Procs, SetUsedFamily(q)
      PROVE  granted'[i] # {}
  BY <1>0, <1>3, ConstantsAssumption DEF SetUsedFamily, Finish, Holds, HasInvite, Foundings
<1>4. ASSUME NEW q \in Procs, CreateUserUnheard(q)
      PROVE  granted'[i] # {}
  <2>1. q = p
    BY <1>0, <1>4, GiveBackOK DEF CreateUserUnheard, Holds
  <2>2. QED
    BY <1>4, <2>1 DEF CreateUserUnheard
<1>5. ASSUME NEW q \in Procs, \A r \in Procs : r # q => req'[r] = req[r],
             \/ req[q].at \in {"idle", "claim"} \/ req[q].invite = NoInvite
             \/ /\ req'[q].invite = req[q].invite
                /\ req'[q].at \notin {"idle", "claim"}
      PROVE  FALSE
  BY <1>0, <1>5, ConstantsAssumption DEF Holds
<1>6. ASSUME NEW q \in Procs, Claim(q) \/ ClaimRejected(q) \/ ClaimUnheard(q)
      PROVE  FALSE
  BY <1>0, <1>5, <1>6 DEF Claim, ClaimRejected, ClaimUnheard, Finish
<1>7. ASSUME NEW q \in Procs, CreateUser(q) \/ \E f \in Families : CreateFamily(q, f)
      PROVE  FALSE
  BY <1>0, <1>5, <1>7 DEF CreateUser, CreateFamily, Request
<1>8. ASSUME NEW q \in Procs, CreateFamilyFails(q) \/ CreateUserFails(q)
      PROVE  FALSE
  <2>1. /\ \A r \in Procs : r # q => req'[r] = req[r]
        /\ \/ req[q].invite = NoInvite
           \/ req'[q].invite = req[q].invite /\ req'[q].at = "release"
    BY <1>0, <1>8, GiveBackOK DEF CreateFamilyFails, CreateUserFails, Request, HasInvite
  <2>2. QED
    BY <1>5, <2>1
<1>9. ASSUME NEW q \in Procs, AddMember(q)
      PROVE  FALSE
  BY <1>0, <1>5, <1>9 DEF AddMember, Finish, Request, HasInvite
<1>10. ASSUME NEW q \in Procs, \E l \in Logins, j \in Invites \cup {NoInvite} : Begin(q, l, j)
       PROVE  FALSE
  BY <1>0, <1>5, <1>10, IdleOK DEF Begin
<1>11. CASE UNCHANGED req
  BY <1>11 DEF Holds
<1>12. QED
  BY <1>1, <1>2, <1>3, <1>4, <1>6, <1>7, <1>8, <1>9, <1>10, <1>11 DEF Next, vars,
     CreateInvite, RevokeInvite, Expire

LEMMA AccountedStep ==
  ASSUME TypeOK, Foundings, InvitesAccounted, [Next]_vars
  PROVE  ClaimAccounted' /\ AuditNamesFamily'
<1>0. /\ req \in [Procs -> Request] /\ invite \in [Invites -> InviteRow]
      /\ \A p \in Procs : WellFormed(req[p])
  BY DEF TypeOK
\* What a step does to an invite.
<1>1. ASSUME NEW i \in Invites, invite'[i].status = "claimed", invite[i].status # "claimed"
      PROVE  Held(i)' \/ stopped'[i] # {}
  <2>1. ASSUME NEW p \in Procs, Claim(p)
        PROVE  Held(i)'
    <3>1. i = req[p].invite /\ req' = [req EXCEPT ![p].at = "family"]
      BY <1>0, <1>1, <2>1 DEF Claim, InviteRow
    <3>2. QED
      BY <1>0, <3>1 DEF Held, Holds, Request
  <2>2. ASSUME NEW p \in Procs, ClaimUnheard(p)
        PROVE  stopped'[i] # {}
    BY <1>0, <1>1, <2>2 DEF ClaimUnheard, InviteRow, TypeOK
  <2>3. ASSUME NEW p \in Procs, ReleaseClaim(p) \/ SetUsedFamily(p)
        PROVE  FALSE
    BY <1>0, <1>1, <2>3 DEF ReleaseClaim, SetUsedFamily, InviteRow
  <2>4. ASSUME NEW j \in Invites, CreateInvite(j) \/ RevokeInvite(j) \/ Expire(j)
        PROVE  FALSE
    BY <1>0, <1>1, <2>4 DEF CreateInvite, RevokeInvite, Expire, InviteRow
  <2>5. QED
    BY <1>1, <2>1, <2>2, <2>3, <2>4 DEF Next, vars, Begin, CreateFamily, ClaimRejected,
       HashFails, CreateFamilyFails, CreateUser, CreateUserFails, CreateUserUnheard,
       ReleaseFails, AddMember, Crash
<1>2. ASSUME NEW i \in Invites, invite'[i].status = "claimed"
      PROVE  Held(i)' \/ granted'[i] # {} \/ stopped'[i] # {}
  <2>1. CASE invite[i].status = "claimed" /\ Held(i)
    BY <1>2, <2>1, LetsGo DEF Held
  <2>2. CASE invite[i].status = "claimed" /\ ~Held(i)
    BY <2>2, GrantsStay DEF InvitesAccounted, ClaimAccounted
  <2>3. QED
    BY <1>1, <1>2, <2>1, <2>2
<1>3. ASSUME NEW i \in Invites, invite'[i].family # NoFamily
      PROVE  \/ invite'[i].family = invite[i].family
             \/ \E p \in Procs : /\ SetUsedFamily(p) /\ i = req[p].invite
                                 /\ invite'[i].family = req[p].family
  <2>1. ASSUME NEW p \in Procs, Claim(p) \/ ClaimUnheard(p)
        PROVE  invite'[i].family = invite[i].family
    <3>1. invite' = [invite EXCEPT ![req[p].invite].status = "claimed"]
      BY <2>1 DEF Claim, ClaimUnheard
    <3>2. QED
      BY <1>0, <3>1 DEF InviteRow
  <2>2. ASSUME NEW p \in Procs, ReleaseClaim(p)
        PROVE  invite'[i].family = invite[i].family
    BY <1>0, <1>3, <2>2 DEF ReleaseClaim, InviteRow
  <2>3. ASSUME NEW p \in Procs, SetUsedFamily(p)
        PROVE  \/ invite'[i].family = invite[i].family
               \/ i = req[p].invite /\ invite'[i].family = req[p].family
    BY <1>0, <2>3 DEF SetUsedFamily, InviteRow
  <2>4. ASSUME NEW j \in Invites, CreateInvite(j) \/ RevokeInvite(j) \/ Expire(j)
        PROVE  invite'[i].family = invite[i].family
    BY <1>0, <2>4 DEF CreateInvite, RevokeInvite, Expire, InviteRow
  <2>5. QED
    BY <2>1, <2>2, <2>3, <2>4 DEF Next, vars, Begin, CreateFamily, ClaimRejected,
       HashFails, CreateFamilyFails, CreateUser, CreateUserFails, CreateUserUnheard,
       ReleaseFails, AddMember, Crash
<1>4. ASSUME NEW i \in Invites, invite'[i].family # NoFamily
      PROVE  \E l \in granted'[i] : account'[l] = invite'[i].family
  <2>1. CASE invite'[i].family = invite[i].family
    <3>1. PICK l \in granted[i] : account[l] = invite[i].family
      BY <1>4, <2>1 DEF InvitesAccounted, AuditNamesFamily
    <3>2. l \in Logins /\ l \in granted'[i] /\ account'[l] = account[l]
      BY <1>4, <2>1, <3>1, GrantsStay DEF TypeOK
    <3>3. QED
      BY <2>1, <3>1, <3>2
  <2>2. ASSUME NEW p \in Procs, SetUsedFamily(p), i = req[p].invite,
               invite'[i].family = req[p].family
        PROVE  \E l \in granted'[i] : account'[l] = invite'[i].family
    <3>1. /\ req[p].at = "audit" /\ HasInvite(p) /\ UNCHANGED <<account, granted>>
      BY <2>2, ConstantsAssumption DEF SetUsedFamily, HasInvite
    <3>2. QED
      BY <2>2, <3>1 DEF Foundings
  <2>3. QED
    BY <1>3, <1>4, <2>1, <2>2
<1>5. QED
  BY <1>2, <1>4 DEF ClaimAccounted, AuditNamesFamily

\* Whatever fails or stops between the statements of Register, every claimed
\* invite is accounted for, a lifetime plan belongs to a family whose account
\* spent an invite, and the audit of an invite names that family.
THEOREM InvitesAddUp == Spec => []InvitesAccounted
<1> DEFINE IInv == Foundings /\ InvitesAccounted
<1>1. Init => IInv
  BY ConstantsAssumption DEF Init, Idle, Foundings, InvitesAccounted, ClaimAccounted,
     LifetimeEarned, AuditNamesFamily
<1>2. TypeOK /\ IInv /\ [Next]_vars => IInv'
  BY FoundingsStep, AccountedStep DEF InvitesAccounted
<1>3. QED
  BY <1>1, <1>2, TypeCorrect, PTL DEF Spec

-----------------------------------------------------------------------------
(* The refinement: Registration implements InviteLives.                    *)

\* What the life of an invite is read from stays, up to its holder once it
\* does not matter any more.
Same(i) ==
  /\ Heard(i)' <=> Heard(i)
  /\ invite'[i].status = invite[i].status /\ granted'[i] = granted[i]
  /\ \/ Held(i)' <=> Held(i)
     \/ ~Heard(i) \/ granted[i] # {}

LEMMA SameLife ==
  ASSUME NEW i \in Invites, Same(i)
  PROVE  LifeOf'[i] = LifeOf[i] /\ HeirsOf'[i] = HeirsOf[i]
  BY DEF Same, LifeOf, HeirsOf

LEMMA AllSame ==
  ASSUME \A i \in Invites : Same(i)
  PROVE  LifeOf' = LifeOf /\ HeirsOf' = HeirsOf
<1>1. \A i \in Invites : LifeOf'[i] = LifeOf[i] /\ HeirsOf'[i] = HeirsOf[i]
  BY SameLife
<1>2. /\ LifeOf = [i \in Invites |-> LifeOf[i]] /\ LifeOf' = [i \in Invites |-> LifeOf'[i]]
      /\ HeirsOf = [i \in Invites |-> HeirsOf[i]] /\ HeirsOf' = [i \in Invites |-> HeirsOf'[i]]
  BY DEF LifeOf, HeirsOf
<1>3. QED
  BY <1>1, <1>2

\* One invite goes on in its life.
LEMMA OneLife ==
  ASSUME NEW j \in Invites, \A i \in Invites : i # j => Same(i)
  PROVE  /\ LifeOf' = [LifeOf EXCEPT ![j] = LifeOf'[j]]
         /\ HeirsOf' = [HeirsOf EXCEPT ![j] = HeirsOf'[j]]
<1>1. \A i \in Invites : i # j => LifeOf'[i] = LifeOf[i] /\ HeirsOf'[i] = HeirsOf[i]
  BY SameLife
<1>2. /\ LifeOf = [i \in Invites |-> LifeOf[i]] /\ LifeOf' = [i \in Invites |-> LifeOf'[i]]
      /\ HeirsOf = [i \in Invites |-> HeirsOf[i]] /\ HeirsOf' = [i \in Invites |-> HeirsOf'[i]]
  BY DEF LifeOf, HeirsOf
<1>3. QED
  BY <1>1, <1>2

\* Only the request of p moves.
LEMMA HeldByOthers ==
  ASSUME NEW p \in Procs, \A q \in Procs : q # p => req'[q] = req[q],
         NEW i \in Invites, Holds(p, i)' <=> Holds(p, i)
  PROVE  Held(i)' <=> Held(i)
  BY DEF Held, Holds

LEMMA HeardSame ==
  ASSUME TypeOK, NEW p \in Procs, NEW reason \in Reasons \ {"lost user"},
         StopFor(p, reason) \/ UNCHANGED stopped, NEW i \in Invites
  PROVE  Heard(i)' <=> Heard(i)
  BY DEF StopFor, Heard, TypeOK

LEMMA HeldIs ==
  ASSUME TypeOK, NEW p \in Procs, NEW i \in Invites
  PROVE  Holds(p, i) <=> /\ HasInvite(p) /\ i = req[p].invite
                         /\ req[p].at \notin {"idle", "claim"}
  BY ConstantsAssumption DEF Holds, HasInvite

\* An invite that is held and not spent is claimed, has no account and one holder.
LEMMA Unspents ==
  ASSUME TypeOK, ClaimsExclusive, NEW p \in Procs, NEW i \in Invites, Unspent(p, i)
  PROVE  /\ Holds(p, i) /\ Held(i) /\ invite[i].status = "claimed"
         /\ Heard(i) => granted[i] = {} /\ LifeOf[i] = "held"
         /\ ~Heard(i) => LifeOf[i] = "void"
         /\ \A q \in Procs : Holds(q, i) => q = p
<1>1. /\ Holds(p, i) /\ Held(i) /\ invite[i].status = "claimed"
      /\ Heard(i) => granted[i] = {}
      /\ \A q \in Procs : Holds(q, i) => q = p
  BY DEF ClaimsExclusive, Unspent, Held
<1>2. QED
  BY <1>1 DEF LifeOf

\* A request that ends without giving back what it holds loses it, unless it has
\* spent it.
LEMMA Drops ==
  ASSUME TypeOK, ClaimsExclusive, Foundings, NEW p \in Procs,
         req' = [req EXCEPT ![p] = Idle], \A i \in Invites : invite'[i].status = invite[i].status,
         UNCHANGED granted, \A i \in Invites : Heard(i)' <=> Heard(i)
  PROVE  [Lives!Next]_Lives!vars
<1>1. /\ req'[p].at = "idle" /\ \A q \in Procs : q # p => req'[q] = req[q]
      /\ req[p] \in Request
  BY IdleOK DEF TypeOK
<1>2. \A i \in Invites : ~Holds(p, i) => Same(i)
  <2>1. \A i \in Invites : ~Holds(p, i)'
    BY <1>1 DEF Holds
  <2>2. \A i \in Invites : ~Holds(p, i) => (Held(i)' <=> Held(i))
    BY <1>1, <2>1, HeldByOthers
  <2>3. QED
    BY <2>2 DEF Same
<1>3. CASE \E i \in Invites : Unspent(p, i) /\ Heard(i)
  <2>1. PICK j \in Invites : Unspent(p, j) /\ Heard(j)
    BY <1>3
  <2>2. \A i \in Invites : i # j => ~Holds(p, i)
    BY <2>1 DEF Unspent, Holds
  <2>3. /\ LifeOf' = [LifeOf EXCEPT ![j] = LifeOf'[j]]
        /\ HeirsOf' = [HeirsOf EXCEPT ![j] = HeirsOf'[j]]
    BY <1>2, <2>2, OneLife
  <2>4. /\ invite[j].status = "claimed" /\ granted[j] = {} /\ LifeOf[j] = "held"
        /\ \A q \in Procs : Holds(q, j) => q = p
    BY <2>1, Unspents
  <2>5. ~Held(j)'
    BY <1>1, <2>4 DEF Held, Holds
  <2>6. invite'[j].status = "claimed" /\ granted'[j] = {} /\ Heard(j)'
    BY <2>1, <2>4
  <2>7. LifeOf'[j] = "lost"
    BY <2>5, <2>6 DEF LifeOf
  <2>8. HeirsOf'[j] = {} /\ HeirsOf[j] = {}
    BY <2>4, <2>6 DEF HeirsOf
  <2>9. HeirsOf' = HeirsOf
    BY <2>3, <2>8 DEF HeirsOf
  <2>10. QED
    BY <2>3, <2>4, <2>7, <2>9 DEF Lives!Next, Lives!Lose, Lives!Goes
<1>4. CASE \A i \in Invites : Unspent(p, i) => ~Heard(i)
  <2>1. ASSUME NEW i \in Invites, Holds(p, i) PROVE Same(i)
    <3>1. CASE Unspent(p, i)
      BY <1>4, <3>1 DEF Same
    <3>2. CASE ~Unspent(p, i)
      <4>1. req[p].at \in {"member", "audit"} /\ HasInvite(p) /\ req[p].invite = i
        BY <1>1, <2>1, <3>2, HeldIs DEF Unspent, Holds, Request
      <4>2. granted[i] # {}
        BY <4>1 DEF Foundings
      <4>3. QED
        BY <4>2 DEF Same
    <3>3. QED
      BY <3>1, <3>2
  <2>2. QED
    BY <1>2, <2>1, AllSame DEF Lives!vars
<1>5. QED
  BY <1>3, <1>4

\* A request goes on with what it holds, and creates no user.
LEMMA Keeping ==
  ASSUME TypeOK, NEW p \in Procs, UNCHANGED <<invite, granted, stopped>>,
         \A q \in Procs : q # p => req'[q] = req[q],
         \/ req[p].at \in {"idle", "claim"} /\ req'[p].at \in {"idle", "claim"}
         \/ req[p].invite = NoInvite /\ (req'[p].at = "idle" \/ req'[p].invite = NoInvite)
         \/ req[p].at = "idle" /\ req'[p].invite = NoInvite
         \/ /\ req'[p].invite = req[p].invite
            /\ req[p].at \notin {"idle", "claim"} /\ req'[p].at \notin {"idle", "claim"}
  PROVE  [Lives!Next]_Lives!vars
<1>1. \A i \in Invites : Holds(p, i)' <=> Holds(p, i)
  BY ConstantsAssumption DEF Holds
<1>2. \A i \in Invites : Held(i)' <=> Held(i)
  BY <1>1, HeldByOthers
<1>3. \A i \in Invites : Heard(i)' <=> Heard(i)
  BY DEF Heard
<1>4. \A i \in Invites : Same(i)
  BY <1>2, <1>3 DEF Same
<1>5. QED
  BY <1>4, AllSame DEF Lives!vars

\* Someone takes an open invite: a holder, or nobody if the answer does not arrive.
LEMMA Claims ==
  ASSUME TypeOK, ClaimsExclusive, NEW p \in Procs, Claim(p) \/ ClaimUnheard(p)
  PROVE  [Lives!Next]_Lives!vars
<1>0. PICK j \in Invites : j = req[p].invite
  BY DEF Claim, ClaimUnheard, TypeOK, WellFormed
<1>1. /\ invite[j].status = "open" /\ invite'[j].status = "claimed"
      /\ \A i \in Invites : i # j => invite'[i].status = invite[i].status
      /\ \A q \in Procs : q # p => req'[q] = req[q]
      /\ req[p].at = "claim" /\ UNCHANGED granted
      /\ \/ req'[p].at = "family" /\ req'[p].invite = j
         \/ req'[p].at = "idle"
  <2>1. /\ req \in [Procs -> Request] /\ req[p] \in Request
        /\ invite \in [Invites -> InviteRow]
    BY DEF TypeOK
  <2>2. CASE Claim(p)
    BY <1>0, <2>1, <2>2 DEF Claim, InviteRow, Request
  <2>3. CASE ClaimUnheard(p)
    BY <1>0, <2>1, <2>3, IdleOK DEF ClaimUnheard, Finish, InviteRow
  <2>4. QED
    BY <2>2, <2>3
<1>2. \A i \in Invites : Heard(i)' <=> Heard(i)
  <2>1. CASE Claim(p)
    BY <2>1 DEF Claim, Heard
  <2>2. CASE ClaimUnheard(p)
    <3>1. \A i \in Invites : "lost user" \in stopped'[i] <=> "lost user" \in stopped[i]
      BY <2>2 DEF ClaimUnheard, TypeOK
    <3>2. QED
      BY <3>1 DEF Heard
  <2>3. QED
    BY <2>1, <2>2
<1>3. \A i \in Invites : i # j => (Held(i)' <=> Held(i))
  <2>1. \A i \in Invites : i # j => (Holds(p, i)' <=> Holds(p, i))
    BY <1>0, <1>1 DEF Holds
  <2>2. QED
    BY <1>1, <2>1, HeldByOthers
<1>4. \A i \in Invites : i # j => Same(i)
  BY <1>1, <1>2, <1>3 DEF Same
<1>5. /\ LifeOf' = [LifeOf EXCEPT ![j] = LifeOf'[j]]
      /\ HeirsOf' = [HeirsOf EXCEPT ![j] = HeirsOf'[j]]
  BY <1>1, <1>4, OneLife
<1>6. HeirsOf'[j] = HeirsOf[j]
  BY <1>1, <1>2 DEF HeirsOf
<1>7. HeirsOf' = HeirsOf
  BY <1>5, <1>6 DEF HeirsOf
<1>8. CASE Heard(j)
  <2>1. LifeOf[j] = "open" /\ granted'[j] = {}
    BY <1>1, <1>8 DEF LifeOf, ClaimsExclusive
  <2>2. LifeOf'[j] = "held" \/ LifeOf'[j] = "lost"
    BY <1>1, <1>2, <1>8, <2>1 DEF LifeOf
  <2>3. QED
    BY <1>1, <1>5, <1>7, <2>1, <2>2 DEF Lives!Next, Lives!Take, Lives!Lose, Lives!Goes
<1>9. CASE ~Heard(j)
  <2>1. LifeOf'[j] = LifeOf[j]
    BY <1>1, <1>2, <1>9 DEF LifeOf
  <2>2. LifeOf' = LifeOf
    BY <1>5, <2>1 DEF LifeOf
  <2>3. QED
    BY <1>7, <2>2 DEF Lives!vars
<1>10. QED
  BY <1>8, <1>9

\* The user of a request is created, heard or not.
LEMMA Creates ==
  ASSUME TypeOK, ClaimsExclusive, NEW p \in Procs, CreateUser(p) \/ CreateUserUnheard(p)
  PROVE  [Lives!Next]_Lives!vars
<1> DEFINE l == req[p].login
<1>1. /\ req[p].at = "user" /\ UNCHANGED invite /\ l \in Logins
      /\ \A i \in Invites : granted'[i] = IF Holds(p, i) THEN granted[i] \cup {l} ELSE granted[i]
  BY DEF CreateUser, CreateUserUnheard, TypeOK, WellFormed
<1>2. /\ \A q \in Procs : q # p => req'[q] = req[q]
      /\ \/ req'[p].at \in {"member", "release"} /\ req'[p].invite = req[p].invite
         \/ req'[p].at = "idle" /\ ~HasInvite(p)
  <2>1. CASE CreateUser(p)
    BY <2>1 DEF CreateUser, TypeOK, Request
  <2>2. CASE CreateUserUnheard(p)
    <3>1. GiveBack(p) /\ req[p] \in Request
      BY <2>2 DEF CreateUserUnheard, TypeOK
    <3>2. QED
      BY <1>1, <3>1, GiveBackOK, IdleOK DEF Request
  <2>3. QED
    BY <2>1, <2>2
<1>3. \A i \in Invites : Holds(p, i) <=> HasInvite(p) /\ i = req[p].invite
  BY <1>1, HeldIs
<1>4. \A i \in Invites : Holds(p, i)' <=> Holds(p, i)
  BY <1>1, <1>2, <1>3 DEF Holds
<1>5. \A i \in Invites : Held(i)' <=> Held(i)
  BY <1>2, <1>4, HeldByOthers
<1>6. \A i \in Invites : ~Holds(p, i) => (Heard(i)' <=> Heard(i))
  BY DEF CreateUser, CreateUserUnheard, StopFor, Heard
<1>7. \A i \in Invites : ~Holds(p, i) => Same(i)
  BY <1>1, <1>5, <1>6 DEF Same
<1>8. CASE ~HasInvite(p)
  BY <1>3, <1>7, <1>8, AllSame DEF Lives!vars
<1>9. CASE HasInvite(p)
  <2>0. PICK j \in Invites : j = req[p].invite
    BY <1>9 DEF TypeOK, Request, HasInvite
  <2>1. j \in Invites /\ Unspent(p, j)
    BY <1>1, <1>3, <1>9, <2>0 DEF Unspent
  <2>2. \A i \in Invites : i # j => Same(i)
    BY <1>3, <1>7, <2>0
  <2>3. /\ LifeOf' = [LifeOf EXCEPT ![j] = LifeOf'[j]]
        /\ HeirsOf' = [HeirsOf EXCEPT ![j] = HeirsOf'[j]]
    BY <2>1, <2>2, OneLife
  <2>4. /\ Held(j) /\ invite[j].status = "claimed" /\ Holds(p, j)
        /\ Heard(j) => granted[j] = {} /\ LifeOf[j] = "held"
        /\ ~Heard(j) => LifeOf[j] = "void"
    BY <2>1, Unspents
  <2>5. CASE ~Heard(j)
    <3>1. ~Heard(j)'
      BY <2>5, HeardStays DEF Next
    <3>2. LifeOf'[j] = LifeOf[j] /\ HeirsOf'[j] = HeirsOf[j]
      BY <2>1, <2>5, <3>1 DEF LifeOf, HeirsOf
    <3>3. LifeOf' = LifeOf
      BY <2>3, <3>2 DEF LifeOf
    <3>4. HeirsOf' = HeirsOf
      BY <2>3, <3>2 DEF HeirsOf
    <3>5. QED
      BY <3>3, <3>4 DEF Lives!vars
  <2>6. CASE Heard(j) /\ CreateUser(p)
    <3>1. Heard(j)'
      BY <2>6 DEF CreateUser, Heard
    <3>2. granted'[j] = {l}
      BY <1>1, <2>1, <2>4, <2>6
    <3>3. LifeOf'[j] = "spent" /\ HeirsOf'[j] = {l}
      BY <1>1, <2>1, <2>4, <3>1, <3>2 DEF LifeOf, HeirsOf
    <3>4. QED
      BY <1>1, <2>1, <2>3, <2>4, <2>6, <3>3 DEF Lives!Next, Lives!Spend, Lives!Goes
  <2>7. CASE Heard(j) /\ CreateUserUnheard(p)
    <3>1. ~Heard(j)'
      BY <2>1, <2>4, <2>7 DEF CreateUserUnheard, StopFor, Heard, TypeOK
    <3>2. LifeOf'[j] = "void" /\ HeirsOf'[j] = {} /\ HeirsOf[j] = {}
      BY <2>1, <2>4, <2>7, <3>1 DEF LifeOf, HeirsOf
    <3>3. HeirsOf' = HeirsOf
      BY <2>3, <3>2 DEF HeirsOf
    <3>4. QED
      BY <2>1, <2>3, <2>4, <2>7, <3>2, <3>3 DEF Lives!Next, Lives!Misfire, Lives!Goes
  <2>8. QED
    BY <2>5, <2>6, <2>7
<1>10. QED
  BY <1>8, <1>9

LEMMA Releases ==
  ASSUME TypeOK, ClaimsExclusive, NEW p \in Procs, ReleaseClaim(p)
  PROVE  [Lives!Next]_Lives!vars
<1>0. PICK j \in Invites : j = req[p].invite
  BY DEF ReleaseClaim, TypeOK, WellFormed
<1>1. /\ Unspent(p, j) /\ UNCHANGED <<granted, stopped>>
      /\ invite'[j].status = "open"
      /\ \A i \in Invites : i # j => invite'[i] = invite[i]
      /\ req'[p].at = "idle" /\ \A q \in Procs : q # p => req'[q] = req[q]
  BY <1>0, IdleOK DEF ReleaseClaim, Finish, TypeOK, InviteRow, Unspent, Holds
<1>2. \A i \in Invites : Heard(i)' <=> Heard(i)
  BY <1>1 DEF Heard
<1>3. \A i \in Invites : i # j => (Held(i)' <=> Held(i))
  <2>1. \A i \in Invites : i # j => (Holds(p, i)' <=> Holds(p, i))
    BY <1>0, <1>1 DEF Holds
  <2>2. QED
    BY <1>1, <2>1, HeldByOthers
<1>4. \A i \in Invites : i # j => Same(i)
  BY <1>1, <1>2, <1>3 DEF Same
<1>5. /\ LifeOf' = [LifeOf EXCEPT ![j] = LifeOf'[j]]
      /\ HeirsOf' = [HeirsOf EXCEPT ![j] = HeirsOf'[j]]
  BY <1>1, <1>4, OneLife
<1>6. HeirsOf'[j] = HeirsOf[j]
  BY <1>1, <1>2 DEF HeirsOf
<1>7. HeirsOf' = HeirsOf
  BY <1>5, <1>6 DEF HeirsOf
<1>8. (Heard(j) => LifeOf[j] = "held") /\ (~Heard(j) => LifeOf[j] = "void")
  BY <1>1, Unspents
<1>9. LifeOf'[j] = IF Heard(j) THEN "open" ELSE "void"
  BY <1>1, <1>2 DEF LifeOf
<1>10. CASE Heard(j)
  BY <1>1, <1>5, <1>7, <1>8, <1>9, <1>10 DEF Lives!Next, Lives!GiveBack, Lives!Goes
<1>11. CASE ~Heard(j)
  <2>1. LifeOf' = LifeOf
    BY <1>5, <1>8, <1>9, <1>11 DEF LifeOf
  <2>2. QED
    BY <1>7, <2>1 DEF Lives!vars
<1>12. QED
  BY <1>10, <1>11

\* The administrator, and time.
LEMMA Administers ==
  ASSUME TypeOK, ClaimsExclusive, NEW j \in Invites, CreateInvite(j) \/ RevokeInvite(j) \/ Expire(j)
  PROVE  [Lives!Next]_Lives!vars
<1>1. /\ UNCHANGED <<granted, stopped, req>>
      /\ \A i \in Invites : i # j => invite'[i] = invite[i]
      /\ \/ invite[j].status = "none" /\ invite'[j].status = "open"
         \/ invite[j].status = "open" /\ invite'[j].status = "deleted"
         \/ invite'[j].status = invite[j].status
  BY DEF CreateInvite, RevokeInvite, Expire, TypeOK, InviteRow
<1>2. \A i \in Invites : (Heard(i)' <=> Heard(i)) /\ (Held(i)' <=> Held(i))
  BY <1>1 DEF Heard, Held, Holds
<1>3. \A i \in Invites : i # j => Same(i)
  BY <1>1, <1>2 DEF Same
<1>4. /\ LifeOf' = [LifeOf EXCEPT ![j] = LifeOf'[j]]
      /\ HeirsOf' = [HeirsOf EXCEPT ![j] = HeirsOf'[j]]
  BY <1>3, OneLife
<1>5. HeirsOf'[j] = HeirsOf[j]
  BY <1>1, <1>2 DEF HeirsOf
<1>6. HeirsOf' = HeirsOf
  BY <1>4, <1>5 DEF HeirsOf
<1>7. \/ LifeOf[j] = "unissued" /\ LifeOf'[j] = "open"
      \/ LifeOf[j] = "open" /\ LifeOf'[j] = "revoked"
      \/ LifeOf'[j] = LifeOf[j]
  BY <1>1, <1>2 DEF LifeOf
<1>8. CASE LifeOf'[j] = LifeOf[j]
  <2>1. LifeOf' = LifeOf
    BY <1>4, <1>8 DEF LifeOf
  <2>2. QED
    BY <1>6, <2>1 DEF Lives!vars
<1>9. QED
  BY <1>4, <1>6, <1>7, <1>8 DEF Lives!Next, Lives!Issue, Lives!Revoke, Lives!Goes

LEMMA NextLives ==
  ASSUME TypeOK, ClaimsExclusive, Foundings, [Next]_vars
  PROVE  [Lives!Next]_Lives!vars
<1>0. /\ req \in [Procs -> Request] /\ invite \in [Invites -> InviteRow]
      /\ \A p \in Procs : req[p] \in Request
  BY DEF TypeOK
<1>1. ASSUME NEW p \in Procs, NEW l \in Logins, NEW i \in Invites \cup {NoInvite}, Begin(p, l, i)
      PROVE  [Lives!Next]_Lives!vars
  <2>1. /\ \A q \in Procs : q # p => req'[q] = req[q]
        /\ req[p].at = "idle" /\ (req'[p].at = "claim" \/ req'[p].invite = NoInvite)
    BY <1>0, <1>1, IdleOK DEF Begin, Idle
  <2>2. QED
    BY <1>1, <2>1, Keeping DEF Begin
<1>2. ASSUME NEW p \in Procs, ClaimRejected(p)
      PROVE  [Lives!Next]_Lives!vars
  <2>1. /\ \A q \in Procs : q # p => req'[q] = req[q]
        /\ req[p].at = "claim" /\ req'[p].at = "idle"
    BY <1>0, <1>2, IdleOK DEF ClaimRejected, Finish
  <2>2. QED
    BY <1>2, <2>1, Keeping DEF ClaimRejected
<1>3. ASSUME NEW p \in Procs, NEW f \in Families, CreateFamily(p, f)
      PROVE  [Lives!Next]_Lives!vars
  <2>1. /\ \A q \in Procs : q # p => req'[q] = req[q]
        /\ req[p].at = "family" /\ req'[p].at = "user" /\ req'[p].invite = req[p].invite
    BY <1>0, <1>3 DEF CreateFamily, Request
  <2>2. QED
    BY <1>3, <2>1, Keeping DEF CreateFamily
<1>4. ASSUME NEW p \in Procs, CreateFamilyFails(p) \/ CreateUserFails(p)
      PROVE  [Lives!Next]_Lives!vars
  <2>1. GiveBack(p) /\ req[p].at \in {"family", "user"} /\ UNCHANGED <<invite, granted, stopped>>
    BY <1>4 DEF CreateFamilyFails, CreateUserFails
  <2>2. /\ \A q \in Procs : q # p => req'[q] = req[q]
        /\ \/ req'[p].at = "release" /\ req'[p].invite = req[p].invite
           \/ req[p].invite = NoInvite /\ req'[p].at = "idle"
    BY <1>0, <2>1, GiveBackOK, IdleOK DEF Request, HasInvite
  <2>3. QED
    BY <2>1, <2>2, Keeping
<1>5. ASSUME NEW p \in Procs, AddMember(p)
      PROVE  [Lives!Next]_Lives!vars
  <2>1. /\ \A q \in Procs : q # p => req'[q] = req[q]
        /\ req[p].at = "member"
        /\ \/ req'[p].at = "audit" /\ req'[p].invite = req[p].invite
           \/ req[p].invite = NoInvite /\ req'[p].at = "idle"
    BY <1>0, <1>5, IdleOK DEF AddMember, Finish, Request, HasInvite
  <2>2. QED
    BY <1>5, <2>1, Keeping DEF AddMember
<1>6. ASSUME NEW p \in Procs, HashFails(p) \/ ReleaseFails(p) \/ Crash(p) \/ SetUsedFamily(p)
      PROVE  [Lives!Next]_Lives!vars
  <2>1. /\ req' = [req EXCEPT ![p] = Idle] /\ UNCHANGED granted
        /\ \A i \in Invites : invite'[i].status = invite[i].status
    BY <1>0, <1>6 DEF HashFails, ReleaseFails, Crash, SetUsedFamily, Finish, InviteRow
  <2>2. \A i \in Invites : Heard(i)' <=> Heard(i)
    <3>1. \/ UNCHANGED stopped
          \/ \E reason \in Reasons \ {"lost user"} : StopFor(p, reason)
      BY <1>6 DEF HashFails, ReleaseFails, Crash, SetUsedFamily, Reasons
    <3>2. QED
      BY <3>1, HeardSame DEF Heard
  <2>3. QED
    BY <2>1, <2>2, Drops
<1>7. CASE UNCHANGED vars
  <2>1. \A i \in Invites : Same(i)
    BY <1>7 DEF vars, Same, Heard, Held, Holds
  <2>2. QED
    BY <2>1, AllSame DEF Lives!vars
<1>8. QED
  BY <1>1, <1>2, <1>3, <1>4, <1>5, <1>6, <1>7, Claims, Creates, Releases, Administers DEF Next

\* Statement by statement, and whatever fails or stops in between, Register and the
\* administrator's requests implement the lives of InviteLives: one account is spent
\* on an invite, and what is spent, lost or revoked stays so
\* (internal/auth/handler.go:158-301, internal/repository/signup_invite.go:62-164).
THEOREM RegistrationImplementsLives == Spec => ImplementsLives
<1>1. Init => Lives!Init
  <2> SUFFICES ASSUME Init PROVE Lives!Init
    OBVIOUS
  <2>1. \A i \in Invites : Heard(i) /\ invite[i].status = "none" /\ granted[i] = {}
    BY DEF Init, Heard
  <2>2. LifeOf = [i \in Invites |-> "unissued"] /\ HeirsOf = [i \in Invites |-> {}]
    BY <2>1 DEF LifeOf, HeirsOf
  <2>3. QED
    BY <2>2 DEF Lives!Init
<1>2. Spec => []Foundings
  <2>1. Init => Foundings /\ LifetimeEarned
    BY ConstantsAssumption DEF Init, Idle, Foundings, LifetimeEarned
  <2>2. TypeOK /\ (Foundings /\ LifetimeEarned) /\ [Next]_vars => (Foundings /\ LifetimeEarned)'
    BY FoundingsStep
  <2>3. QED
    BY <2>1, <2>2, TypeCorrect, PTL DEF Spec
<1>3. TypeOK /\ (ClaimsExclusive /\ OneGrantIfHeard) /\ Foundings /\ [Next]_vars => [Lives!Next]_Lives!vars
  BY NextLives
<1>4. QED
  BY <1>1, <1>2, <1>3, TypeCorrect, ClaimsInvariant, PTL DEF Spec, ImplementsLives, Lives!Spec
=============================================================================
