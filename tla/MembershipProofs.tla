-------------------------- MODULE MembershipProofs --------------------------
(***************************************************************************)
(* Proofs about Membership, for any number of users, families, invites and *)
(* requests.                                                               *)
(***************************************************************************)
EXTENDS Membership, TLAPS

\* The half of TypeOK about requests, and the half about the tables.
RequestsTyped ==
  /\ req \in [Procs -> Request]
  /\ \A p \in Procs : WellFormed(req[p])

TablesTyped ==
  /\ family \in [Families -> {"none", "live", "deleted"}]
  /\ home \in [Users -> Families \cup {NoFamily}]
  /\ members \subseteq Families \X Users
  /\ invite \in [Invites -> InviteRow]
  /\ authored \subseteq Families \X Users \X Families
  /\ granted \subseteq Families
  /\ claims \subseteq Users \X Families
  /\ erased \subseteq Users
  /\ joined \in [Invites -> SUBSET Users]

LEMMA TypeOKParts == TypeOK <=> RequestsTyped /\ TablesTyped /\ RowsNameRows
  BY DEF TypeOK, RequestsTyped, TablesTyped

LEMMA IdleOK == Idle \in Request /\ WellFormed(Idle) /\ Idle.at = "idle"
  BY DEF Idle, Request, WellFormed

LEMMA OneRequest ==
  ASSUME RequestsTyped, NEW p \in Procs, NEW rq \in Request, WellFormed(rq),
         req' = [req EXCEPT ![p] = rq]
  PROVE  RequestsTyped'
  BY DEF RequestsTyped, WellFormed

LEMMA FinishOK ==
  ASSUME RequestsTyped, NEW p \in Procs, Finish(p)
  PROVE  RequestsTyped'
  BY IdleOK, OneRequest DEF Finish

\* The statements a request can go on to without new data.
LEMMA GoOK ==
  ASSUME RequestsTyped, NEW p \in Procs, NEW stmt, Go(p, stmt),
         \/ stmt = "home" /\ req[p].at = "join"
         \/ stmt = "mark" /\ req[p].at \in {"home", "enroll"} /\ req[p].invite # NoInvite
         \/ stmt = "audit" /\ req[p].at = "enroll"
         \/ stmt \in {"last", "elect"} /\ req[p].at = "count"
  PROVE  RequestsTyped'
<1> DEFINE rq == [req[p] EXCEPT !.at = stmt]
<1>1. rq \in Request
  BY DEF RequestsTyped, Request
<1>2. WellFormed(rq)
  BY DEF RequestsTyped, Request, WellFormed
<1>3. req' = [req EXCEPT ![p] = rq]
  BY DEF Go
<1>4. QED
  BY <1>1, <1>2, <1>3, OneRequest

\* Arrive changes only the history of the other requests.
LEMMA ArriveOK ==
  ASSUME RequestsTyped, NEW p \in Procs, NEW u \in Users, NEW f \in Families, NEW stmt,
         Arrive(p, stmt, u, f),
         \/ stmt = "enroll" /\ req[p].at = "create"
         \/ stmt = "mark" /\ req[p].at = "home"
  PROVE  /\ RequestsTyped'
         /\ req'[p] = [req[p] EXCEPT !.at = stmt]
         /\ \A q \in Procs : q # p =>
              \/ req'[q] = req[q]
              \/ req'[q] = [req[q] EXCEPT !.late = @ \cup {u}]
         /\ \A q \in Procs : q # p /\ req[q].at = "last" /\ req[q].family = f
              => req'[q] = [req[q] EXCEPT !.late = @ \cup {u}]
<1>1. req[p] \in Request /\ WellFormed(req[p])
  BY DEF RequestsTyped
<1>2. req'[p] = [req[p] EXCEPT !.at = stmt] /\ req'[p] \in Request /\ WellFormed(req'[p])
  BY <1>1 DEF Arrive, Request, WellFormed
<1>3. ASSUME NEW q \in Procs, q # p
      PROVE  /\ \/ req'[q] = req[q]
                \/ req'[q] = [req[q] EXCEPT !.late = @ \cup {u}]
             /\ req[q].at = "last" /\ req[q].family = f
                  => req'[q] = [req[q] EXCEPT !.late = @ \cup {u}]
             /\ req'[q] \in Request /\ WellFormed(req'[q])
  <2>1. req[q] \in Request /\ WellFormed(req[q])
    BY DEF RequestsTyped
  <2>2. [req[q] EXCEPT !.late = @ \cup {u}] \in Request
    BY <2>1 DEF Request
  <2>3. WellFormed([req[q] EXCEPT !.late = @ \cup {u}])
    BY <2>1 DEF Request, WellFormed
  <2>4. QED
    BY <1>3, <2>1, <2>2, <2>3 DEF Arrive, RequestsTyped
<1>4. req' \in [Procs -> Request]
  BY <1>2, <1>3 DEF Arrive
<1>5. QED
  BY <1>2, <1>3, <1>4 DEF RequestsTyped

-----------------------------------------------------------------------------
(* Type correctness.                                                       *)

LEMMA InitTypeOK == Init => TypeOK
  BY IdleOK, ConstantsAssumption DEF Init, TypeOK, InviteRow, RowsNameRows, HasRow,
     UsersNameFamilies, MembersNameRows, ContentNamesRows, Accounted,
     SignupsNameFamilies, InvitesNameRows

\* Steps that leave every table and the history of the tables alone.
Quiet == UNCHANGED <<family, home, members, invite, authored, granted, claims,
                     erased, joined>>

LEMMA QuietRows ==
  ASSUME TablesTyped, RowsNameRows, Quiet
  PROVE  TablesTyped' /\ RowsNameRows'
  BY DEF Quiet, TablesTyped, RowsNameRows, HasRow, Live, UsersNameFamilies,
     MembersNameRows, ContentNamesRows, Accounted, SignupsNameFamilies, InvitesNameRows

\* The requests stay typed in every step.
LEMMA NextRequestsTyped == TypeOK /\ [Next]_vars => RequestsTyped'
<1> SUFFICES ASSUME TypeOK, [Next]_vars PROVE RequestsTyped'
  OBVIOUS
<1>0. RequestsTyped /\ TablesTyped
  BY TypeOKParts
<1>1. ASSUME NEW p \in Procs, NEW u \in Users, NEW f \in Families,
             Found(p, u, f) \/ CreateInvite(p, u, f)
      PROVE  RequestsTyped'
  <2>1. PICK stmt \in {"enroll", "insert"} :
          req' = [req EXCEPT ![p] = [Idle EXCEPT !.at = stmt, !.user = u, !.family = f]]
    BY <1>1 DEF Found, CreateInvite
  <2> DEFINE rq == [Idle EXCEPT !.at = stmt, !.user = u, !.family = f]
  <2>2. rq \in Request /\ WellFormed(rq)
    BY DEF Idle, Request, WellFormed
  <2>3. QED
    BY <1>0, <2>1, <2>2, OneRequest
<1>2. ASSUME NEW p \in Procs, NEW u \in Users, NEW i \in Invites,
             RegisterRead(p, u, i) \/ JoinRead(p, u, i)
      PROVE  RequestsTyped'
  <2>1. PICK stmt \in {"create", "join"} :
          req' = [req EXCEPT ![p] = [Idle EXCEPT !.at = stmt, !.user = u,
                                       !.invite = i, !.family = invite[i].family]]
    BY <1>2 DEF RegisterRead, JoinRead
  <2> DEFINE rq == [Idle EXCEPT !.at = stmt, !.user = u, !.invite = i,
                                !.family = invite[i].family]
  <2>2. invite[i].family \in Families
    BY <1>2 DEF RegisterRead, JoinRead, TypeOK, RowsNameRows, InvitesNameRows, Live
  <2>3. rq \in Request /\ WellFormed(rq)
    BY <2>2 DEF Idle, Request, WellFormed
  <2>4. QED
    BY <1>0, <2>1, <2>3, OneRequest
<1>3. ASSUME NEW p \in Procs, CreateUser(p)
      PROVE  RequestsTyped'
  <2>1. req[p].user \in Users /\ req[p].family \in Families
    BY <1>3 DEF CreateUser, TypeOK, WellFormed
  <2>2. QED
    BY <1>0, <1>3, <2>1, ArriveOK DEF CreateUser
<1>4. ASSUME NEW p \in Procs, Enroll(p)
      PROVE  RequestsTyped'
  BY <1>0, <1>4, GoOK DEF Enroll
<1>5. ASSUME NEW p \in Procs,
             \/ SetUsedFamily(p) \/ MarkAsUsed(p) \/ EraseLeave(p) \/ EraseLast(p)
             \/ Rollback(p) \/ \E i \in Invites : InsertInvite(p, i)
      PROVE  RequestsTyped'
  BY <1>0, <1>5, FinishOK
     DEF SetUsedFamily, InsertInvite, MarkAsUsed, EraseLeave, EraseLast, Rollback
<1>6. ASSUME NEW p \in Procs, AddMember(p)
      PROVE  RequestsTyped'
  BY <1>0, <1>6, GoOK DEF AddMember
<1>7. ASSUME NEW p \in Procs, UpdateFamilyID(p)
      PROVE  RequestsTyped'
  <2>1. req[p].user \in Users /\ req[p].family \in Families /\ req[p].invite # NoInvite
    BY <1>7, ConstantsAssumption DEF UpdateFamilyID, TypeOK, WellFormed
  <2>2. QED
    BY <1>0, <1>7, <2>1, ArriveOK, GoOK DEF UpdateFamilyID
<1>8. ASSUME NEW p \in Procs, NEW u \in Users, EraseBegin(p, u)
      PROVE  RequestsTyped'
  <2> DEFINE rq == [Idle EXCEPT !.at = "count", !.user = u, !.family = home[u]]
  <2>1. home[u] \in Families
    BY <1>8 DEF EraseBegin, HasRow, TypeOK
  <2>2. rq \in Request /\ WellFormed(rq)
    BY <2>1 DEF Idle, Request, WellFormed
  <2>3. QED
    BY <1>0, <1>8, <2>2, OneRequest DEF EraseBegin
<1>9. ASSUME NEW p \in Procs, EraseCount(p)
      PROVE  RequestsTyped'
  BY <1>0, <1>9, GoOK DEF EraseCount
<1>10. ASSUME NEW p \in Procs, NEW s \in Users, EraseElect(p, s)
       PROVE  RequestsTyped'
  <2> DEFINE rq == [req[p] EXCEPT !.at = "leave", !.successor = s]
  <2>1. rq \in Request /\ WellFormed(rq)
    BY <1>10 DEF EraseElect, Others, TypeOK, Request, WellFormed
  <2>2. req' = [req EXCEPT ![p] = rq]
    BY <1>10 DEF EraseElect
  <2>3. QED
    BY <1>0, <2>1, <2>2, OneRequest
<1>11. ASSUME UNCHANGED req
       PROVE  RequestsTyped'
  BY <1>0, <1>11 DEF RequestsTyped, WellFormed
<1>12. CASE Next
  <2>1. ASSUME NEW i \in Invites, Expire(i)
        PROVE  UNCHANGED req
    BY <2>1 DEF Expire
  <2>2. ASSUME NEW u \in Users, NEW v \in Users, NEW f \in Families, NEW h \in Families,
               RemoveMember(u, f, v) \/ CreateContent(u, f, h) \/ DeleteContent(u, f)
        PROVE  UNCHANGED req
    BY <2>2 DEF RemoveMember, CreateContent, DeleteContent
  <2>3. QED
    BY <1>1, <1>2, <1>3, <1>4, <1>5, <1>6, <1>7, <1>8, <1>9, <1>10, <1>11, <1>12,
       <2>1, <2>2 DEF Next
<1>13. QED
  BY <1>11, <1>12 DEF vars

\* The tables stay typed in every step.
LEMMA NextTablesTyped == TypeOK /\ [Next]_vars => TablesTyped'
<1> SUFFICES ASSUME TypeOK, [Next]_vars PROVE TablesTyped'
  OBVIOUS
<1>0. TablesTyped /\ RowsNameRows
  BY TypeOKParts
<1>r. ASSUME NEW p \in Procs, req[p].at # "idle"
      PROVE  req[p].user \in Users /\ req[p].family \in Families
  BY <1>r DEF TypeOK, WellFormed
<1>i. ASSUME NEW p \in Procs, req[p].at \in {"create", "join", "home", "mark"}
      PROVE  req[p].invite \in Invites
  BY <1>i DEF TypeOK, WellFormed
<1>1. ASSUME NEW p \in Procs, NEW u \in Users, NEW f \in Families, Found(p, u, f)
      PROVE  TablesTyped'
  BY <1>0, <1>1 DEF Found, TablesTyped
<1>2. ASSUME NEW p \in Procs, CreateUser(p)
      PROVE  TablesTyped'
  BY <1>0, <1>2, <1>r, <1>i DEF CreateUser, TablesTyped
<1>3. ASSUME NEW p \in Procs, Enroll(p) \/ AddMember(p)
      PROVE  TablesTyped'
  BY <1>0, <1>3, <1>r DEF Enroll, AddMember, TablesTyped
<1>4. ASSUME NEW p \in Procs, SetUsedFamily(p)
      PROVE  TablesTyped'
  BY <1>0, <1>4, <1>r DEF SetUsedFamily, TablesTyped
<1>5. ASSUME NEW p \in Procs, NEW i \in Invites, InsertInvite(p, i)
      PROVE  TablesTyped'
  BY <1>0, <1>5, <1>r DEF InsertInvite, TablesTyped, InviteRow
<1>6. ASSUME NEW p \in Procs, MarkAsUsed(p)
      PROVE  TablesTyped'
  <2>1. PICK i \in Invites : i = req[p].invite
    BY <1>6, <1>i DEF MarkAsUsed
  <2>2. invite' \in [Invites -> InviteRow]
    BY <1>0, <1>6, <2>1 DEF MarkAsUsed, TablesTyped, InviteRow
  <2>3. QED
    BY <1>0, <1>6, <2>2 DEF MarkAsUsed, TablesTyped
<1>7. ASSUME NEW p \in Procs, UpdateFamilyID(p)
      PROVE  TablesTyped'
  BY <1>0, <1>7, <1>r, <1>i DEF UpdateFamilyID, TablesTyped
<1>8. ASSUME NEW p \in Procs, EraseLeave(p)
      PROVE  TablesTyped'
  <2>1. req[p].user \in Users /\ req[p].family \in Families /\ req[p].successor \in Users
    BY <1>8 DEF EraseLeave, TypeOK, WellFormed
  <2>2. authored' \subseteq Families \X Users \X Families
    BY <1>0, <1>8, <2>1 DEF EraseLeave, HandOver, TablesTyped
  <2>3. QED
    BY <1>0, <1>8, <2>1, <2>2 DEF EraseLeave, RowsGo, TablesTyped, InviteRow
<1>9. ASSUME NEW p \in Procs, EraseLast(p)
      PROVE  TablesTyped'
  BY <1>0, <1>9, <1>r DEF EraseLast, RowsGo, TablesTyped, InviteRow, Residents, Unrelated
<1>10. ASSUME NEW i \in Invites, Expire(i)
       PROVE  TablesTyped'
  BY <1>0, <1>10 DEF Expire, TablesTyped, InviteRow
<1>11. ASSUME NEW u \in Users, NEW v \in Users, NEW f \in Families, NEW h \in Families,
              RemoveMember(u, f, v) \/ CreateContent(u, f, h) \/ DeleteContent(u, f)
       PROVE  TablesTyped'
  <2>1. CASE CreateContent(u, f, h)
    <3>1. <<f, u, h>> \in Families \X Users \X Families
      OBVIOUS
    <3>2. QED
      BY <1>0, <2>1, <3>1 DEF CreateContent, TablesTyped
  <2>2. CASE RemoveMember(u, f, v) \/ DeleteContent(u, f)
    BY <1>0, <2>2 DEF RemoveMember, DeleteContent, TablesTyped
  <2>3. QED
    BY <1>11, <2>1, <2>2
<1>12. ASSUME Quiet
       PROVE  TablesTyped'
  BY <1>0, <1>12, QuietRows
<1>13. CASE Next
  <2>1. ASSUME NEW p \in Procs,
               \/ \E u \in Users, f \in Families : CreateInvite(p, u, f)
               \/ \E u \in Users, i \in Invites : RegisterRead(p, u, i) \/ JoinRead(p, u, i)
               \/ \E u \in Users : EraseBegin(p, u) \/ EraseElect(p, u)
               \/ EraseCount(p) \/ Rollback(p)
        PROVE  Quiet
    BY <2>1 DEF CreateInvite, RegisterRead, JoinRead, EraseBegin, EraseElect,
                EraseCount, Rollback, Quiet
  <2>2. QED
    BY <1>1, <1>2, <1>3, <1>4, <1>5, <1>6, <1>7, <1>8, <1>9, <1>10, <1>11, <1>12,
       <1>13, <2>1 DEF Next
<1>14. QED
  BY <1>12, <1>13 DEF vars, Quiet

\* In a step that leaves users, families and invites alone, and adds at most
\* rows that name users and families that exist, rows name rows again.
LEMMA RowsStay ==
  ASSUME RowsNameRows, family' = family, home' = home, erased' = erased, invite' = invite,
         NEW f \in Families, NEW u \in Users,
         \/ members' \subseteq members
         \/ Live(f) /\ HasRow(u) /\ members' = members \cup {<<f, u>>},
         Accounted(authored'),
         \A c \in authored' :
           c \in authored \/ (Live(f) /\ HasRow(u) /\ c[1] = f /\ c[2] = u),
         \/ granted' = granted
         \/ Live(f) /\ granted' = granted \cup {f}
  PROVE  RowsNameRows'
<1>1. UsersNameFamilies'
  BY DEF RowsNameRows, UsersNameFamilies, HasRow, Live
<1>2. MembersNameRows'
  BY DEF RowsNameRows, MembersNameRows, HasRow, Live
<1>3. ContentNamesRows'
  BY DEF RowsNameRows, ContentNamesRows, HasRow, Live
<1>4. SignupsNameFamilies'
  BY DEF RowsNameRows, SignupsNameFamilies, Live
<1>5. InvitesNameRows'
  BY DEF RowsNameRows, InvitesNameRows, HasRow, Live
<1>6. QED
  BY <1>1, <1>2, <1>3, <1>4, <1>5 DEF RowsNameRows

\* In a step that changes only invites, and keeps what they name or names a
\* user and a family that exist, rows name rows again.
LEMMA RowsOfInvites ==
  ASSUME RowsNameRows,
         UNCHANGED <<family, home, erased, members, authored, granted>>,
         \A i \in Invites :
           \/ invite'[i] = invite[i]
           \/ /\ invite[i].status \in {"open", "expired", "used"}
              /\ invite'[i].family = invite[i].family
              /\ invite'[i].creator = invite[i].creator
           \/ \E f \in Families, u \in Users :
                /\ Live(f) /\ HasRow(u)
                /\ invite'[i].family = f /\ invite'[i].creator = u
  PROVE  RowsNameRows'
<1>1. UsersNameFamilies' /\ MembersNameRows' /\ ContentNamesRows' /\ SignupsNameFamilies'
  BY DEF RowsNameRows, UsersNameFamilies, MembersNameRows, ContentNamesRows,
         Accounted, SignupsNameFamilies, HasRow, Live
<1>2. InvitesNameRows'
  BY DEF RowsNameRows, InvitesNameRows, HasRow, Live
<1>3. QED
  BY <1>1, <1>2 DEF RowsNameRows

\* A step in which no user and no family goes, and no other row changes.
LEMMA RowsArrive ==
  ASSUME RowsNameRows, UNCHANGED <<members, authored, granted, invite>>,
         \A u \in Users : HasRow(u) => home'[u] # NoFamily,
         \A f \in Families : family[f] = "live" => family'[f] = "live",
         \A u \in Users : home'[u] # NoFamily => Live(home[u])' /\ u \notin erased'
  PROVE  RowsNameRows'
<1>1. UsersNameFamilies'
  BY DEF UsersNameFamilies, HasRow
<1>2. MembersNameRows'
  BY DEF RowsNameRows, MembersNameRows, HasRow, Live
<1>3. ContentNamesRows'
  BY DEF RowsNameRows, ContentNamesRows, Accounted, HasRow, Live
<1>4. SignupsNameFamilies'
  BY DEF RowsNameRows, SignupsNameFamilies, Live
<1>5. InvitesNameRows'
  BY DEF RowsNameRows, InvitesNameRows, HasRow, Live
<1>6. QED
  BY <1>1, <1>2, <1>3, <1>4, <1>5 DEF RowsNameRows

\* Every row is still there after a hand-over, under one author or the other.
LEMMA HandedOver ==
  ASSUME NEW u, NEW f, NEW s, NEW c \in authored
  PROVE  \E d \in HandOver(u, f, s) : d[1] = c[1] /\ d[3] = c[3]
<1> DEFINE d == IF c[1] = f /\ c[2] = u THEN <<f, s, c[3]>> ELSE c
<1>1. d \in HandOver(u, f, s)
  BY DEF HandOver
<1>2. d[1] = c[1] /\ d[3] = c[3]
  OBVIOUS
<1>3. QED
  BY <1>1, <1>2

LEMMA EraseLeaveRows ==
  ASSUME TypeOK, NEW p \in Procs, EraseLeave(p)
  PROVE  RowsNameRows'
<1> DEFINE u == req[p].user  f == req[p].family  s == req[p].successor
<1>0. TablesTyped /\ RowsNameRows
  BY TypeOKParts
<1>1. u \in Users /\ f \in Families /\ s \in Users /\ s # u
  BY DEF EraseLeave, TypeOK, WellFormed
<1>2. home' = [v \in Users |-> IF v \in {u} THEN NoFamily ELSE home[v]]
  BY DEF EraseLeave, RowsGo
<1>3. UsersNameFamilies'
  BY <1>0, <1>1, <1>2 DEF EraseLeave, RowsGo, RowsNameRows, UsersNameFamilies, HasRow, Live
<1>4. MembersNameRows'
  BY <1>0, <1>1, <1>2
     DEF EraseLeave, RowsGo, RowsNameRows, MembersNameRows, HasRow, Live, TablesTyped
<1>5. ContentNamesRows'
  <2>0. /\ Accounted(authored)
        /\ \A c \in authored : /\ c[1] \in Families /\ c[2] \in Users
                               /\ c = <<c[1], c[2], c[3]>>
                               /\ family[c[1]] = "live" /\ home[c[2]] # NoFamily
    BY <1>0 DEF TablesTyped, RowsNameRows, ContentNamesRows, HasRow, Live
  <2>1. authored' = HandOver(u, f, s)
    BY DEF EraseLeave
  <2>2. \A c \in authored : c[2] = u => c[1] = f /\ home[s] # NoFamily
    BY <2>0 DEF EraseLeave, NamesNoneOf, Elsewhere, HasRow
  <2>3. ASSUME NEW d \in authored'
        PROVE  /\ d[1] \in Families /\ d[2] \in Users /\ d[2] # u
               /\ family[d[1]] = "live" /\ home[d[2]] # NoFamily
               /\ \E e \in authored' : e[1] = d[3] /\ e[3] = d[3]
    <3>1. PICK c \in authored :
            d = IF c[1] = f /\ c[2] = u THEN <<f, s, c[3]>> ELSE c
      BY <2>1, <2>3 DEF HandOver
    <3>2. /\ d[1] = c[1] /\ d[3] = c[3]
          /\ (d[2] = c[2] /\ c[2] # u) \/ (d[2] = s /\ c[2] = u)
      BY <2>0, <2>2, <3>1
    <3>3. PICK e \in authored : e[1] = c[3] /\ e[3] = c[3]
      BY <2>0 DEF Accounted
    <3>4. \E g \in authored' : g[1] = e[1] /\ g[3] = e[3]
      BY <2>1, HandedOver
    <3>5. QED
      BY <1>1, <2>0, <2>2, <3>2, <3>3, <3>4
  <2>4. QED
    BY <1>2, <2>3 DEF EraseLeave, ContentNamesRows, Accounted, HasRow, Live
<1>6. SignupsNameFamilies'
  BY <1>0 DEF EraseLeave, RowsNameRows, SignupsNameFamilies, Live
<1>7. InvitesNameRows'
  <2>1. SUFFICES ASSUME NEW i \in Invites,
                        invite'[i].status \in {"open", "expired", "used"}
                 PROVE  Live(invite[i].family)' /\ HasRow(invite[i].creator)'
    BY DEF InvitesNameRows
  <2>2. invite'[i] = invite[i] /\ invite[i].creator # u
    BY <1>0, <2>1 DEF EraseLeave, RowsGo, TablesTyped, InviteRow
  <2>3. Live(invite[i].family) /\ HasRow(invite[i].creator)
    BY <1>0, <2>1, <2>2 DEF RowsNameRows, InvitesNameRows
  <2>4. QED
    BY <1>2, <2>2, <2>3 DEF EraseLeave, HasRow, Live
<1>8. QED
  BY <1>3, <1>4, <1>5, <1>6, <1>7 DEF RowsNameRows

LEMMA EraseLastRows ==
  ASSUME TypeOK, NEW p \in Procs, EraseLast(p)
  PROVE  RowsNameRows'
<1> DEFINE u == req[p].user  f == req[p].family
<1>0. TablesTyped /\ RowsNameRows
  BY TypeOKParts
<1>1. u \in Users /\ f \in Families
  BY DEF EraseLast, TypeOK, WellFormed
<1>2. PICK gone \in SUBSET Users : gone = {u} \cup Residents(f)
  BY <1>1 DEF Residents
<1>3. /\ home' = [v \in Users |-> IF v \in gone THEN NoFamily ELSE home[v]]
      /\ erased' = erased \cup gone
      /\ members' = {m \in members : m[1] \notin {f} /\ m[2] \notin gone}
      /\ invite' = [i \in Invites |->
           IF invite[i].family \in {f} \/ invite[i].creator \in gone
           THEN [invite[i] EXCEPT !.status = "gone"] ELSE invite[i]]
      /\ authored' = {c \in authored : f \notin {c[1], c[3]}}
      /\ family' = [family EXCEPT ![f] = "deleted"]
      /\ granted' = granted /\ f \notin granted
      /\ \A c \in authored' : c[2] \notin gone
  BY <1>2 DEF EraseLast, RowsGo, NamesNoneOf, Unrelated, NotAudited
<1>4. \A v \in Users : home[v] = f => v \in gone
  BY <1>2 DEF Residents
<1>5. UsersNameFamilies'
  BY <1>0, <1>1, <1>3, <1>4 DEF RowsNameRows, UsersNameFamilies, HasRow, Live, TablesTyped
<1>6. MembersNameRows'
  BY <1>0, <1>1, <1>3 DEF RowsNameRows, MembersNameRows, HasRow, Live, TablesTyped
<1>7. ContentNamesRows'
  <2>1. Accounted(authored')
    BY <1>0, <1>3 DEF RowsNameRows, ContentNamesRows, Accounted
  <2>2. QED
    BY <1>0, <1>1, <1>3, <2>1 DEF RowsNameRows, ContentNamesRows, HasRow, Live, TablesTyped
<1>8. SignupsNameFamilies'
  BY <1>0, <1>1, <1>3 DEF RowsNameRows, SignupsNameFamilies, Live, TablesTyped
<1>9. InvitesNameRows'
  <2>1. SUFFICES ASSUME NEW i \in Invites,
                        invite'[i].status \in {"open", "expired", "used"}
                 PROVE  Live(invite[i].family)' /\ HasRow(invite[i].creator)'
    BY DEF InvitesNameRows
  <2>2. invite'[i] = invite[i] /\ invite[i].family # f /\ invite[i].creator \notin gone
    BY <1>0, <1>3, <2>1 DEF TablesTyped, InviteRow
  <2>3. Live(invite[i].family) /\ HasRow(invite[i].creator)
    BY <1>0, <2>1, <2>2 DEF RowsNameRows, InvitesNameRows
  <2>4. QED
    BY <1>0, <1>1, <1>3, <2>2, <2>3 DEF HasRow, Live, TablesTyped
<1>10. QED
  BY <1>5, <1>6, <1>7, <1>8, <1>9 DEF RowsNameRows

\* Rows name rows in every step.
LEMMA NextRowsNameRows == TypeOK /\ [Next]_vars => RowsNameRows'
<1> SUFFICES ASSUME TypeOK, [Next]_vars PROVE RowsNameRows'
  OBVIOUS
<1>0. TablesTyped /\ RowsNameRows
  BY TypeOKParts
<1>r. ASSUME NEW p \in Procs, req[p].at # "idle"
      PROVE  req[p].user \in Users /\ req[p].family \in Families
  BY <1>r DEF TypeOK, WellFormed
<1>h. \A u \in Users : home[u] # NoFamily => Live(home[u]) /\ u \notin erased
  BY <1>0 DEF RowsNameRows, UsersNameFamilies, HasRow
<1>1. ASSUME NEW p \in Procs, NEW u \in Users, NEW f \in Families, Found(p, u, f)
      PROVE  RowsNameRows'
  <2>1. /\ UNCHANGED <<members, authored, granted, invite, erased>>
        /\ u \notin erased /\ f # NoFamily
        /\ home' = [home EXCEPT ![u] = f] /\ family' = [family EXCEPT ![f] = "live"]
    BY <1>1, ConstantsAssumption DEF Found, Free
  <2>2. \A v \in Users : HasRow(v) => home'[v] # NoFamily
    BY <1>0, <2>1 DEF HasRow, TablesTyped
  <2>3. \A g \in Families : family[g] = "live" => family'[g] = "live"
    BY <1>0, <2>1 DEF TablesTyped
  <2>4. \A v \in Users : home'[v] # NoFamily => Live(home[v])' /\ v \notin erased'
    BY <1>0, <1>h, <2>1 DEF Live, TablesTyped
  <2>5. QED
    BY <1>0, <2>1, <2>2, <2>3, <2>4, RowsArrive
<1>2. ASSUME NEW p \in Procs, CreateUser(p) \/ (UpdateFamilyID(p) /\ HasRow(req[p].user))
      PROVE  RowsNameRows'
  <2>1. PICK u \in Users, f \in Families : u = req[p].user /\ f = req[p].family
    BY <1>2, <1>r DEF CreateUser, UpdateFamilyID
  <2>2. /\ UNCHANGED <<family, members, authored, granted, invite, erased>>
        /\ Live(f) /\ f # NoFamily /\ home' = [home EXCEPT ![u] = f]
        /\ u \notin erased
    BY <1>2, <1>h, <2>1, ConstantsAssumption DEF CreateUser, UpdateFamilyID, Free, HasRow
  <2>3. \A v \in Users : HasRow(v) => home'[v] # NoFamily
    BY <1>0, <2>2 DEF HasRow, TablesTyped
  <2>4. \A v \in Users : home'[v] # NoFamily => Live(home[v])' /\ v \notin erased'
    BY <1>0, <1>h, <2>2 DEF Live, TablesTyped
  <2>5. QED
    BY <1>0, <2>2, <2>3, <2>4, RowsArrive
<1>3. ASSUME NEW p \in Procs, Enroll(p) \/ AddMember(p) \/ SetUsedFamily(p)
      PROVE  RowsNameRows'
  <2>1. /\ family' = family /\ home' = home /\ erased' = erased /\ invite' = invite
        /\ authored' = authored
    BY <1>3 DEF Enroll, AddMember, SetUsedFamily
  <2>2. PICK f \in Families, u \in Users : f = req[p].family /\ u = req[p].user
    BY <1>3, <1>r DEF Enroll, AddMember, SetUsedFamily
  <2>3. \/ members' \subseteq members
        \/ Live(f) /\ HasRow(u) /\ members' = members \cup {<<f, u>>}
    BY <1>3, <2>2 DEF Enroll, AddMember, SetUsedFamily
  <2>4. \/ granted' = granted
        \/ Live(f) /\ granted' = granted \cup {f}
    <3>1. CASE Enroll(p) \/ AddMember(p)
      BY <3>1 DEF Enroll, AddMember
    <3>2. CASE SetUsedFamily(p)
      BY <2>2, <3>2 DEF SetUsedFamily
    <3>3. QED
      BY <1>3, <3>1, <3>2
  <2>5. Accounted(authored')
    BY <1>0, <2>1 DEF RowsNameRows, ContentNamesRows
  <2>6. QED
    BY <1>0, <2>1, <2>3, <2>4, <2>5, RowsStay
<1>4. ASSUME NEW p \in Procs, NEW i \in Invites, InsertInvite(p, i)
      PROVE  RowsNameRows'
  <2>1. /\ UNCHANGED <<family, home, erased, members, authored, granted>>
        /\ \A j \in Invites :
             \/ invite'[j] = invite[j]
             \/ \E f \in Families, u \in Users :
                  /\ Live(f) /\ HasRow(u)
                  /\ invite'[j].family = f /\ invite'[j].creator = u
    BY <1>0, <1>4, <1>r DEF InsertInvite, TablesTyped
  <2>2. QED
    BY <1>0, <2>1, RowsOfInvites
<1>5. (\E i \in Invites : Expire(i)) \/ (\E p \in Procs : MarkAsUsed(p)) => RowsNameRows'
  <2> SUFFICES ASSUME (\E i \in Invites : Expire(i)) \/ (\E p \in Procs : MarkAsUsed(p))
               PROVE  RowsNameRows'
    OBVIOUS
  <2>1. UNCHANGED <<family, home, erased, members, authored, granted>>
    BY DEF Expire, MarkAsUsed
  <2>2. \A j \in Invites :
          \/ invite'[j] = invite[j]
          \/ /\ invite[j].status \in {"open", "expired", "used"}
             /\ invite'[j].family = invite[j].family
             /\ invite'[j].creator = invite[j].creator
    <3>1. CASE \E i \in Invites : Expire(i)
      BY <1>0, <3>1 DEF Expire, TablesTyped, InviteRow
    <3>2. CASE \E p \in Procs : MarkAsUsed(p)
      BY <1>0, <3>2 DEF MarkAsUsed, TablesTyped, InviteRow
    <3>3. QED
      BY <3>1, <3>2
  <2>3. QED
    BY <1>0, <2>1, <2>2, RowsOfInvites
<1>6. ASSUME NEW u \in Users, NEW v \in Users, NEW f \in Families, NEW h \in Families,
             RemoveMember(u, f, v) \/ CreateContent(u, f, h) \/ DeleteContent(u, f)
      PROVE  RowsNameRows'
  <2>1. /\ family' = family /\ home' = home /\ erased' = erased /\ invite' = invite
        /\ granted' = granted
    BY <1>6 DEF RemoveMember, CreateContent, DeleteContent
  <2>2. members' \subseteq members
    BY <1>6 DEF RemoveMember, CreateContent, DeleteContent
  <2>3. /\ Accounted(authored')
        /\ \A c \in authored' :
             c \in authored \/ (Live(f) /\ HasRow(u) /\ c[1] = f /\ c[2] = u)
    <3>1. Accounted(authored)
      BY <1>0 DEF RowsNameRows, ContentNamesRows
    <3>2. CASE CreateContent(u, f, h)
      BY <3>2 DEF CreateContent
    <3>3. CASE RemoveMember(u, f, v) \/ DeleteContent(u, f)
      BY <3>1, <3>3 DEF RemoveMember, DeleteContent
    <3>4. QED
      BY <1>6, <3>2, <3>3
  <2>4. QED
    BY <1>0, <2>1, <2>2, <2>3, RowsStay
<1>7. ASSUME Quiet
      PROVE  RowsNameRows'
  BY <1>0, <1>7, QuietRows
<1>8. ASSUME NEW p \in Procs, EraseLeave(p) \/ EraseLast(p)
      PROVE  RowsNameRows'
  BY <1>8, EraseLeaveRows, EraseLastRows
<1>9. CASE Next
  <2>1. ASSUME NEW p \in Procs,
               \/ \E u \in Users, f \in Families : CreateInvite(p, u, f)
               \/ \E u \in Users, i \in Invites : RegisterRead(p, u, i) \/ JoinRead(p, u, i)
               \/ \E u \in Users : EraseBegin(p, u) \/ EraseElect(p, u)
               \/ EraseCount(p) \/ Rollback(p)
        PROVE  Quiet
    BY <2>1 DEF CreateInvite, RegisterRead, JoinRead, EraseBegin, EraseElect,
                EraseCount, Rollback, Quiet
  <2>2. ASSUME NEW p \in Procs, UpdateFamilyID(p)
        PROVE  RowsNameRows'
    <3>1. ~HasRow(req[p].user) => Quiet
      BY <2>2 DEF UpdateFamilyID, Quiet
    <3>2. QED
      BY <1>2, <1>7, <2>2, <3>1
  <2>3. ASSUME NEW p \in Procs,
               \/ CreateUser(p) \/ Enroll(p) \/ AddMember(p) \/ SetUsedFamily(p)
               \/ MarkAsUsed(p) \/ EraseLeave(p) \/ EraseLast(p)
        PROVE  RowsNameRows'
    <3>1. CASE CreateUser(p)
      BY <1>2, <3>1
    <3>2. CASE Enroll(p) \/ AddMember(p) \/ SetUsedFamily(p)
      BY <1>3, <3>2
    <3>3. CASE MarkAsUsed(p)
      BY <1>5, <3>3
    <3>4. CASE EraseLeave(p) \/ EraseLast(p)
      BY <1>8, <3>4
    <3>5. QED
      BY <2>3, <3>1, <3>2, <3>3, <3>4
  <2>4. ASSUME NEW i \in Invites, Expire(i)
        PROVE  RowsNameRows'
    BY <1>5, <2>4
  <2>5. QED
    BY <1>1, <1>4, <1>6, <1>7, <1>9, <2>1, <2>2, <2>3, <2>4 DEF Next
<1>10. QED
  BY <1>7, <1>9 DEF vars, Quiet

LEMMA NextTypeOK == TypeOK /\ [Next]_vars => TypeOK'
<1> SUFFICES ASSUME TypeOK, [Next]_vars PROVE TypeOK'
  OBVIOUS
<1>1. RequestsTyped' /\ TablesTyped' /\ RowsNameRows'
  BY NextRequestsTyped, NextTablesTyped, NextRowsNameRows
<1>2. QED
  BY <1>1 DEF TypeOK, RequestsTyped, TablesTyped

\* The tables, foreign keys included, the requests and the history are well
\* typed in every reachable state.
THEOREM TypeCorrect == Spec => []TypeOK
<1>1. Init => TypeOK
  BY InitTypeOK
<1>2. TypeOK /\ [Next]_vars => TypeOK'
  BY NextTypeOK
<1>3. QED
  BY <1>1, <1>2, PTL DEF Spec

-----------------------------------------------------------------------------
(* Content stays with people of the family.                                *)

\* A step that adds no content, moves nobody, and elects nobody.
LEMMA BelongQuiet ==
  ASSUME BelongInv, claims \subseteq claims', authored' \subseteq authored,
         \A u \in Users : home'[u] # NoFamily => home'[u] = home[u],
         \A p \in Procs : req'[p].at = "leave" =>
           /\ req[p].at = "leave" /\ req'[p].successor = req[p].successor
           /\ req'[p].family = req[p].family
  PROVE  BelongInv'
  BY DEF BelongInv, AuthorsBelonged, HasRow

LEMMA NextBelongInv == TypeOK /\ BelongInv /\ [Next]_vars => BelongInv'
<1> SUFFICES ASSUME TypeOK, BelongInv, [Next]_vars PROVE BelongInv'
  OBVIOUS
<1>0. RequestsTyped /\ TablesTyped /\ RowsNameRows /\ req \in [Procs -> Request]
  BY TypeOKParts DEF RequestsTyped
<1>r. ASSUME NEW p \in Procs, req[p].at # "idle"
      PROVE  req[p].user \in Users /\ req[p].family \in Families
  BY <1>r DEF TypeOK, WellFormed
<1>1. ASSUME NEW p \in Procs, NEW rq \in Request, rq.at # "leave",
             req' = [req EXCEPT ![p] = rq]
      PROVE  \A q \in Procs : req'[q].at = "leave" => req'[q] = req[q]
  BY <1>0, <1>1
<1>2. ASSUME NEW p \in Procs, NEW u \in Users, NEW f \in Families,
             home' = [home EXCEPT ![u] = f], claims' = claims \cup {<<u, f>>},
             UNCHANGED authored,
             \A q \in Procs : req'[q].at = "leave" =>
               /\ req[q].at = "leave" /\ req'[q].successor = req[q].successor
               /\ req'[q].family = req[q].family
      PROVE  BelongInv'
  BY <1>0, <1>2 DEF BelongInv, AuthorsBelonged, HasRow, TablesTyped
<1>3. ASSUME NEW p \in Procs, NEW u \in Users, NEW f \in Families, Found(p, u, f)
      PROVE  BelongInv'
  <2> DEFINE rq == [Idle EXCEPT !.at = "enroll", !.user = u, !.family = f]
  <2>1. rq \in Request /\ rq.at # "leave"
    BY DEF Idle, Request
  <2>2. \A q \in Procs : req'[q].at = "leave" => req'[q] = req[q]
    BY <1>1, <1>3, <2>1 DEF Found
  <2>3. QED
    BY <1>2, <1>3, <2>2 DEF Found
<1>4. ASSUME NEW p \in Procs, CreateUser(p) \/ (UpdateFamilyID(p) /\ HasRow(req[p].user))
      PROVE  BelongInv'
  <2>1. PICK u \in Users, f \in Families : u = req[p].user /\ f = req[p].family
    BY <1>4, <1>r DEF CreateUser, UpdateFamilyID
  <2>2. PICK stmt \in {"enroll", "mark"} :
          /\ Arrive(p, stmt, u, f)
          /\ \/ stmt = "enroll" /\ req[p].at = "create"
             \/ stmt = "mark" /\ req[p].at = "home"
    BY <1>4, <2>1 DEF CreateUser, UpdateFamilyID
  <2>3. ASSUME NEW q \in Procs, req'[q].at = "leave"
        PROVE  /\ req[q].at = "leave" /\ req'[q].successor = req[q].successor
               /\ req'[q].family = req[q].family
    <3>1. req[p] \in Request /\ req[q] \in Request
      BY <1>0
    <3>2. \/ req'[q] = [req[p] EXCEPT !.at = stmt]
          \/ req'[q] = req[q]
          \/ req'[q] = [req[q] EXCEPT !.late = @ \cup {u}]
      BY <1>0, <2>2, ArriveOK
    <3>3. QED
      BY <2>3, <3>1, <3>2 DEF Request
  <2>4. home' = [home EXCEPT ![u] = f] /\ claims' = claims \cup {<<u, f>>}
        /\ UNCHANGED authored
    BY <1>4, <2>1 DEF CreateUser, UpdateFamilyID
  <2>5. QED
    BY <1>2, <2>3, <2>4
<1>5. ASSUME NEW u \in Users, NEW f \in Families, NEW h \in Families,
             CreateContent(u, f, h)
      PROVE  BelongInv'
  BY <1>5 DEF CreateContent, BelongInv, AuthorsBelonged, HasRow
<1>6. ASSUME NEW p \in Procs, NEW s \in Users, EraseElect(p, s)
      PROVE  BelongInv'
  <2>1. home[s] = req[p].family /\ <<s, req[p].family>> \in claims
    BY <1>6, <1>r, ConstantsAssumption
       DEF EraseElect, Others, Residents, BelongInv, HasRow
  <2>2. \A q \in Procs : q # p => req'[q] = req[q]
    BY <1>0, <1>6 DEF EraseElect
  <2>3. req'[p].successor = s /\ req'[p].family = req[p].family
    BY <1>0, <1>6 DEF EraseElect, Request
  <2>4. claims' = claims /\ home' = home /\ authored' = authored
    BY <1>6 DEF EraseElect
  <2>5. \A q \in Procs : req'[q].at = "leave" =>
          <<req'[q].successor, req'[q].family>> \in claims'
    <3>1. SUFFICES ASSUME NEW q \in Procs, req'[q].at = "leave"
                   PROVE  <<req'[q].successor, req'[q].family>> \in claims
      BY <2>4
    <3>2. CASE q = p
      BY <2>1, <2>3, <3>2
    <3>3. CASE q # p
      BY <2>2, <3>1, <3>3 DEF BelongInv
    <3>4. QED
      BY <3>2, <3>3
  <2>6. QED
    BY <2>4, <2>5 DEF BelongInv, AuthorsBelonged, HasRow
<1>7. ASSUME NEW p \in Procs, EraseLeave(p)
      PROVE  BelongInv'
  <2> DEFINE u == req[p].user  f == req[p].family  s == req[p].successor
  <2>1. <<s, f>> \in claims
    BY <1>7 DEF EraseLeave, BelongInv
  <2>2. \A c \in authored' : c \in authored \/ (c[1] = f /\ c[2] = s)
    BY <1>7 DEF EraseLeave, HandOver
  <2>3. \A q \in Procs : req'[q].at = "leave" => req'[q] = req[q]
    BY <1>1, <1>7, IdleOK DEF EraseLeave, Finish
  <2>4. claims' = claims /\ \A v \in Users : home'[v] # NoFamily => home'[v] = home[v]
    BY <1>7 DEF EraseLeave, RowsGo
  <2>5. AuthorsBelonged'
    <3>1. ASSUME NEW c \in authored'
          PROVE  <<c[2], c[1]>> \in claims
      BY <2>1, <2>2 DEF BelongInv, AuthorsBelonged
    <3>2. QED
      BY <2>4, <3>1 DEF AuthorsBelonged
  <2>6. QED
    BY <2>3, <2>4, <2>5 DEF BelongInv, HasRow
<1>8. ASSUME NEW p \in Procs, EraseLast(p)
      PROVE  BelongInv'
  <2>1. \A q \in Procs : req'[q].at = "leave" => req'[q] = req[q]
    BY <1>1, <1>8, IdleOK DEF EraseLast, Finish
  <2>2. /\ claims' = claims /\ authored' \subseteq authored
        /\ \A v \in Users : home'[v] # NoFamily => home'[v] = home[v]
    BY <1>8 DEF EraseLast, RowsGo, Unrelated
  <2>3. QED
    BY <2>1, <2>2, BelongQuiet
<1>9. ASSUME claims' = claims, authored' \subseteq authored, home' = home,
             \A q \in Procs : req'[q].at = "leave" => req'[q] = req[q]
      PROVE  BelongInv'
  BY <1>9, BelongQuiet
<1>10. ASSUME NEW p \in Procs, NEW u \in Users, NEW f \in Families,
              CreateInvite(p, u, f) \/ EraseBegin(p, u)
       PROVE  BelongInv'
  <2>1. PICK stmt \in {"insert", "count"}, g \in Families :
          req' = [req EXCEPT ![p] = [Idle EXCEPT !.at = stmt, !.user = u, !.family = g]]
    BY <1>0, <1>10 DEF CreateInvite, EraseBegin, TablesTyped, HasRow
  <2>2. [Idle EXCEPT !.at = stmt, !.user = u, !.family = g] \in Request
    BY DEF Idle, Request
  <2>3. \A q \in Procs : req'[q].at = "leave" => req'[q] = req[q]
    BY <1>1, <2>1, <2>2 DEF Idle
  <2>4. QED
    BY <1>9, <1>10, <2>3 DEF CreateInvite, EraseBegin
<1>11. ASSUME NEW p \in Procs, NEW u \in Users, NEW i \in Invites,
              RegisterRead(p, u, i) \/ JoinRead(p, u, i)
       PROVE  BelongInv'
  <2>1. \A q \in Procs : req'[q].at = "leave" => req'[q] = req[q]
    BY <1>0, <1>11 DEF RegisterRead, JoinRead, Idle
  <2>2. QED
    BY <1>9, <1>11, <2>1 DEF RegisterRead, JoinRead
<1>12. ASSUME NEW p \in Procs, NEW stmt \in {"home", "mark", "audit", "last", "elect"},
              Go(p, stmt)
       PROVE  \A q \in Procs : req'[q].at = "leave" => req'[q] = req[q]
  BY <1>0, <1>12 DEF Go, Request
<1>13. ASSUME NEW p \in Procs,
              \/ Enroll(p) \/ AddMember(p) \/ EraseCount(p)
              \/ (UpdateFamilyID(p) /\ ~HasRow(req[p].user))
       PROVE  BelongInv'
  <2>1. \A q \in Procs : req'[q].at = "leave" => req'[q] = req[q]
    BY <1>12, <1>13 DEF Enroll, AddMember, EraseCount, UpdateFamilyID
  <2>2. QED
    BY <1>9, <1>13, <2>1 DEF Enroll, AddMember, EraseCount, UpdateFamilyID
<1>14. ASSUME NEW p \in Procs,
              \/ SetUsedFamily(p) \/ MarkAsUsed(p) \/ Rollback(p)
              \/ \E i \in Invites : InsertInvite(p, i)
       PROVE  BelongInv'
  <2>1. \A q \in Procs : req'[q].at = "leave" => req'[q] = req[q]
    BY <1>1, <1>14, IdleOK DEF SetUsedFamily, MarkAsUsed, Rollback, InsertInvite, Finish
  <2>2. QED
    BY <1>9, <1>14, <2>1 DEF SetUsedFamily, MarkAsUsed, Rollback, InsertInvite
<1>15. ASSUME \/ \E i \in Invites : Expire(i)
              \/ \E u, v \in Users, f \in Families : RemoveMember(u, f, v) \/ DeleteContent(u, f)
       PROVE  BelongInv'
  BY <1>9, <1>15 DEF Expire, RemoveMember, DeleteContent
<1>16. CASE Next
  <2>1. ASSUME NEW p \in Procs,
               \/ CreateUser(p) \/ UpdateFamilyID(p) \/ Enroll(p) \/ AddMember(p)
               \/ EraseCount(p) \/ SetUsedFamily(p) \/ MarkAsUsed(p) \/ Rollback(p)
        PROVE  BelongInv'
    <3>1. CASE CreateUser(p) \/ UpdateFamilyID(p)
      BY <1>4, <1>13, <3>1
    <3>2. CASE Enroll(p) \/ AddMember(p) \/ EraseCount(p)
      BY <1>13, <3>2
    <3>3. CASE SetUsedFamily(p) \/ MarkAsUsed(p) \/ Rollback(p)
      BY <1>14, <3>3
    <3>4. QED
      BY <2>1, <3>1, <3>2, <3>3
  <2>2. ASSUME NEW p \in Procs, NEW i \in Invites, InsertInvite(p, i)
        PROVE  BelongInv'
    BY <1>14, <2>2
  <2>3. ASSUME NEW p \in Procs, NEW u \in Users, EraseBegin(p, u)
        PROVE  BelongInv'
    <3>1. PICK f \in Families : f = home[u]
      BY <1>0, <2>3 DEF EraseBegin, HasRow, TablesTyped
    <3>2. QED
      BY <1>10, <2>3
  <2>4. ASSUME NEW u \in Users, NEW v \in Users, NEW f \in Families,
               RemoveMember(u, f, v) \/ DeleteContent(u, f)
        PROVE  BelongInv'
    BY <1>15, <2>4
  <2>5. ASSUME NEW i \in Invites, Expire(i)
        PROVE  BelongInv'
    BY <1>15, <2>5
  <2>6. QED
    BY <1>3, <1>5, <1>6, <1>7, <1>8, <1>10, <1>11, <1>16, <2>1, <2>2, <2>3, <2>4, <2>5
       DEF Next
<1>17. CASE UNCHANGED vars
  BY <1>9, <1>17 DEF vars
<1>18. QED
  BY <1>16, <1>17

\* Neither Join nor a deletion hands content of a family to a stranger.
THEOREM ContentBelongs == Spec => []AuthorsBelonged
<1>1. Init => TypeOK /\ BelongInv
  BY InitTypeOK, IdleOK DEF Init, BelongInv, AuthorsBelonged, HasRow
<1>2. TypeOK /\ BelongInv /\ [Next]_vars => TypeOK' /\ BelongInv'
  BY NextTypeOK, NextBelongInv
<1>3. BelongInv => AuthorsBelonged
  BY DEF BelongInv
<1>4. QED
  BY <1>1, <1>2, <1>3, PTL DEF Spec

-----------------------------------------------------------------------------
(* What a deletion takes along.                                            *)

LateInv == LateComplete /\ ErasesFounded

\* A step that moves nobody and decides no deletion to be the last one.
LEMMA LateQuiet ==
  ASSUME LateInv,
         \A u \in Users, f \in Families : home'[u] = f => home[u] = f,
         \A f \in Families : family[f] # "none" => family'[f] # "none",
         RequestsTyped,
         \A p \in Procs : req'[p].at \in {"count", "elect", "leave", "last"} =>
           /\ req[p].at \in {"count", "elect", "leave", "last"}
           /\ req'[p].at = "last" => req[p].at = "last"
           /\ req'[p].family = req[p].family /\ req'[p].user = req[p].user
           /\ req'[p].late = req[p].late
  PROVE  LateInv'
<1>1. \A p \in Procs : req[p].at # "idle" => req[p].family \in Families
  BY DEF RequestsTyped, WellFormed
<1>2. LateComplete'
  BY <1>1 DEF LateInv, LateComplete, Residents
<1>3. ErasesFounded'
  BY <1>1 DEF LateInv, ErasesFounded
<1>4. QED
  BY <1>2, <1>3 DEF LateInv

LEMMA NextLateInv == TypeOK /\ LateInv /\ [Next]_vars => LateInv'
<1> SUFFICES ASSUME TypeOK, LateInv, [Next]_vars PROVE LateInv'
  OBVIOUS
<1>0. RequestsTyped /\ TablesTyped /\ RowsNameRows /\ req \in [Procs -> Request]
  BY TypeOKParts DEF RequestsTyped
<1>r. ASSUME NEW p \in Procs, req[p].at # "idle"
      PROVE  req[p].user \in Users /\ req[p].family \in Families
  BY <1>r DEF TypeOK, WellFormed
<1>1. ASSUME \A u \in Users, f \in Families : home'[u] = f => home[u] = f,
             \A f \in Families : family[f] # "none" => family'[f] # "none",
             \A q \in Procs : req'[q].at \in {"count", "elect", "leave", "last"} =>
               req'[q] = req[q]
      PROVE  LateInv'
  BY <1>0, <1>1, LateQuiet
<1>2. ASSUME NEW p \in Procs, NEW rq \in Request, req' = [req EXCEPT ![p] = rq],
             rq.at \notin {"count", "elect", "leave", "last"}
      PROVE  \A q \in Procs : req'[q].at \in {"count", "elect", "leave", "last"} =>
               req'[q] = req[q]
  BY <1>0, <1>2
<1>3. ASSUME NEW p \in Procs, NEW u \in Users, NEW f \in Families, Found(p, u, f)
      PROVE  LateInv'
  <2> DEFINE rq == [Idle EXCEPT !.at = "enroll", !.user = u, !.family = f]
  <2>1. rq \in Request /\ rq.at \notin {"count", "elect", "leave", "last"}
    BY DEF Idle, Request
  <2>2. \A q \in Procs : req'[q].at \in {"count", "elect", "leave", "last"} =>
          req'[q] = req[q]
    BY <1>2, <1>3, <2>1 DEF Found
  <2>3. \A q \in Procs : req[q].at \in {"count", "elect", "leave", "last"} =>
          req[q].family # f
    BY <1>3 DEF Found, LateInv, ErasesFounded
  <2>4. home' = [home EXCEPT ![u] = f] /\ family' = [family EXCEPT ![f] = "live"]
    BY <1>3 DEF Found
  <2>5. LateComplete'
    BY <1>0, <2>2, <2>3, <2>4 DEF LateInv, LateComplete, Residents, TablesTyped
  <2>6. ErasesFounded'
    BY <1>0, <2>2, <2>4 DEF LateInv, ErasesFounded, TablesTyped
  <2>7. QED
    BY <2>5, <2>6 DEF LateInv
<1>4. ASSUME NEW p \in Procs, CreateUser(p) \/ (UpdateFamilyID(p) /\ HasRow(req[p].user))
      PROVE  LateInv'
  <2>1. PICK u \in Users, f \in Families : u = req[p].user /\ f = req[p].family
    BY <1>4, <1>r DEF CreateUser, UpdateFamilyID
  <2>2. PICK stmt \in {"enroll", "mark"} :
          /\ Arrive(p, stmt, u, f)
          /\ \/ stmt = "enroll" /\ req[p].at = "create"
             \/ stmt = "mark" /\ req[p].at = "home"
    BY <1>4, <2>1 DEF CreateUser, UpdateFamilyID
  <2>0. /\ req'[p] = [req[p] EXCEPT !.at = stmt]
        /\ \A q \in Procs : q # p =>
             \/ req'[q] = req[q]
             \/ req'[q] = [req[q] EXCEPT !.late = @ \cup {u}]
        /\ \A q \in Procs : q # p /\ req[q].at = "last" /\ req[q].family = f
             => req'[q] = [req[q] EXCEPT !.late = @ \cup {u}]
    BY <1>0, <2>2, ArriveOK
  <2>3. home' = [home EXCEPT ![u] = f] /\ family' = family
    BY <1>4, <2>1 DEF CreateUser, UpdateFamilyID
  <2>4. ASSUME NEW q \in Procs, req'[q].at \in {"count", "elect", "leave", "last"}
        PROVE  /\ req'[q].at = req[q].at /\ req'[q].family = req[q].family
               /\ req'[q].user = req[q].user
               /\ req[q].late \subseteq req'[q].late
               /\ req[q].at = "last" /\ req[q].family = f => u \in req'[q].late
    <3>1. req[p] \in Request /\ req[q] \in Request
      BY <1>0
    <3>2. q # p
      BY <2>0, <2>4, <3>1 DEF Request
    <3>3. /\ \/ req'[q] = req[q]
             \/ req'[q] = [req[q] EXCEPT !.late = @ \cup {u}]
          /\ req[q].at = "last" /\ req[q].family = f
               => req'[q] = [req[q] EXCEPT !.late = @ \cup {u}]
      BY <2>0, <3>2
    <3>4. QED
      BY <3>1, <3>3 DEF Request
  <2>5. LateComplete'
    <3>1. SUFFICES ASSUME NEW q \in Procs, req'[q].at = "last", NEW v \in Users,
                          home'[v] = req'[q].family
                   PROVE  v \in req'[q].late \cup {req'[q].user}
      BY DEF LateComplete, Residents
    <3>2. /\ req[q].at = "last" /\ req'[q].family = req[q].family
          /\ req'[q].user = req[q].user /\ req[q].late \subseteq req'[q].late
          /\ req[q].family = f => u \in req'[q].late
      BY <2>4, <3>1
    <3>3. CASE v = u
      BY <1>0, <2>3, <3>1, <3>2, <3>3 DEF TablesTyped
    <3>4. CASE v # u
      BY <1>0, <2>3, <3>1, <3>2, <3>4 DEF LateInv, LateComplete, Residents, TablesTyped
    <3>5. QED
      BY <3>3, <3>4
  <2>6. ErasesFounded'
    BY <2>3, <2>4 DEF LateInv, ErasesFounded
  <2>7. QED
    BY <2>5, <2>6 DEF LateInv
<1>5. ASSUME NEW p \in Procs, EraseCount(p)
      PROVE  LateInv'
  <2>1. PICK stmt \in {"last", "elect"} :
          /\ req' = [req EXCEPT ![p].at = stmt]
          /\ stmt = "last" => Others(p) = {}
    BY <1>5 DEF EraseCount, Go
  <2>2. home' = home /\ family' = family /\ req[p].at = "count"
    BY <1>5 DEF EraseCount
  <2>3. \A q \in Procs : q # p => req'[q] = req[q]
    BY <1>0, <2>1
  <2>4. /\ req'[p].at = stmt /\ req'[p].family = req[p].family
        /\ req'[p].user = req[p].user
    BY <1>0, <2>1 DEF Request
  <2>5. ASSUME NEW q \in Procs, req'[q].at = "last", NEW v \in Users,
               home'[v] = req'[q].family
        PROVE  v \in req'[q].late \cup {req'[q].user}
    <3>1. CASE q = p
      BY <2>1, <2>2, <2>4, <2>5, <3>1 DEF Others, Residents
    <3>2. CASE q # p
      BY <2>2, <2>3, <2>5, <3>2 DEF LateInv, LateComplete, Residents
    <3>3. QED
      BY <3>1, <3>2
  <2>6. ErasesFounded'
    BY <2>2, <2>3, <2>4 DEF LateInv, ErasesFounded
  <2>7. LateComplete'
    BY <2>5 DEF LateComplete, Residents
  <2>8. QED
    BY <2>6, <2>7 DEF LateInv
<1>6. ASSUME NEW p \in Procs, NEW s \in Users, EraseElect(p, s)
      PROVE  LateInv'
  <2>1. \A q \in Procs : q # p => req'[q] = req[q]
    BY <1>0, <1>6 DEF EraseElect
  <2>2. /\ req'[p].at = "leave" /\ req[p].at = "elect" /\ req'[p].late = req[p].late
        /\ req'[p].family = req[p].family /\ req'[p].user = req[p].user
    BY <1>0, <1>6 DEF EraseElect, Request
  <2>3. home' = home /\ family' = family
    BY <1>6 DEF EraseElect
  <2>4. \A q \in Procs : req'[q].at \in {"count", "elect", "leave", "last"} =>
           /\ req[q].at \in {"count", "elect", "leave", "last"}
           /\ req'[q].at = "last" => req[q].at = "last"
           /\ req'[q].family = req[q].family /\ req'[q].user = req[q].user
           /\ req'[q].late = req[q].late
    BY <2>1, <2>2
  <2>5. QED
    BY <1>0, <2>3, <2>4, LateQuiet
<1>7. ASSUME NEW p \in Procs, NEW u \in Users, EraseBegin(p, u)
      PROVE  LateInv'
  <2> DEFINE rq == [Idle EXCEPT !.at = "count", !.user = u, !.family = home[u]]
  <2>1. home' = home /\ family' = family /\ req' = [req EXCEPT ![p] = rq]
    BY <1>7 DEF EraseBegin
  <2>2. rq.at = "count" /\ rq.family = home[u]
    BY DEF Idle
  <2>3. family[home[u]] # "none"
    BY <1>0, <1>7 DEF EraseBegin, RowsNameRows, UsersNameFamilies, Live
  <2>4. QED
    BY <1>0, <2>1, <2>2, <2>3 DEF LateInv, LateComplete, ErasesFounded, Residents
<1>8. ASSUME NEW p \in Procs, EraseLeave(p) \/ EraseLast(p)
      PROVE  LateInv'
  <2>1. \A q \in Procs : req'[q].at \in {"count", "elect", "leave", "last"} =>
          req'[q] = req[q]
    BY <1>2, <1>8, IdleOK DEF EraseLeave, EraseLast, Finish
  <2>2. \A v \in Users, g \in Families : home'[v] = g => home[v] = g
    BY <1>8, ConstantsAssumption DEF EraseLeave, EraseLast, RowsGo
  <2>3. \A g \in Families : family[g] # "none" => family'[g] # "none"
    BY <1>0, <1>8 DEF EraseLeave, EraseLast, TablesTyped
  <2>4. QED
    BY <1>1, <2>1, <2>2, <2>3
<1>9. ASSUME NEW p \in Procs, NEW u \in Users, NEW f \in Families, CreateInvite(p, u, f)
      PROVE  LateInv'
  <2>1. \A q \in Procs : req'[q].at \in {"count", "elect", "leave", "last"} =>
          req'[q] = req[q]
    BY <1>0, <1>9 DEF CreateInvite, Idle
  <2>2. QED
    BY <1>1, <1>9, <2>1 DEF CreateInvite
<1>10. ASSUME NEW p \in Procs, NEW u \in Users, NEW i \in Invites,
              RegisterRead(p, u, i) \/ JoinRead(p, u, i)
       PROVE  LateInv'
  <2>1. \A q \in Procs : req'[q].at \in {"count", "elect", "leave", "last"} =>
          req'[q] = req[q]
    BY <1>0, <1>10 DEF RegisterRead, JoinRead, Idle
  <2>2. QED
    BY <1>1, <1>10, <2>1 DEF RegisterRead, JoinRead
<1>11. ASSUME NEW p \in Procs, NEW stmt \in {"home", "mark", "audit"}, Go(p, stmt)
       PROVE  \A q \in Procs : req'[q].at \in {"count", "elect", "leave", "last"} =>
                req'[q] = req[q]
  BY <1>0, <1>11 DEF Go, Request
<1>12. ASSUME NEW p \in Procs,
              Enroll(p) \/ AddMember(p) \/ (UpdateFamilyID(p) /\ ~HasRow(req[p].user))
       PROVE  LateInv'
  <2>1. \A q \in Procs : req'[q].at \in {"count", "elect", "leave", "last"} =>
          req'[q] = req[q]
    BY <1>11, <1>12 DEF Enroll, AddMember, UpdateFamilyID
  <2>2. QED
    BY <1>1, <1>12, <2>1 DEF Enroll, AddMember, UpdateFamilyID
<1>13. ASSUME NEW p \in Procs,
              \/ SetUsedFamily(p) \/ MarkAsUsed(p) \/ Rollback(p)
              \/ \E i \in Invites : InsertInvite(p, i)
       PROVE  LateInv'
  <2>1. \A q \in Procs : req'[q].at \in {"count", "elect", "leave", "last"} =>
          req'[q] = req[q]
    BY <1>2, <1>13, IdleOK DEF SetUsedFamily, MarkAsUsed, Rollback, InsertInvite, Finish
  <2>2. QED
    BY <1>1, <1>13, <2>1 DEF SetUsedFamily, MarkAsUsed, Rollback, InsertInvite
<1>14. ASSUME UNCHANGED <<family, home, req>>
       PROVE  LateInv'
  BY <1>1, <1>14
<1>15. CASE Next
  <2>1. ASSUME NEW p \in Procs,
               \/ CreateUser(p) \/ UpdateFamilyID(p) \/ Enroll(p) \/ AddMember(p)
               \/ SetUsedFamily(p) \/ MarkAsUsed(p) \/ Rollback(p)
               \/ EraseCount(p) \/ EraseLeave(p) \/ EraseLast(p)
        PROVE  LateInv'
    <3>1. CASE CreateUser(p) \/ UpdateFamilyID(p)
      BY <1>4, <1>12, <3>1
    <3>2. CASE Enroll(p) \/ AddMember(p)
      BY <1>12, <3>2
    <3>3. CASE SetUsedFamily(p) \/ MarkAsUsed(p) \/ Rollback(p)
      BY <1>13, <3>3
    <3>4. CASE EraseCount(p) \/ EraseLeave(p) \/ EraseLast(p)
      BY <1>5, <1>8, <3>4
    <3>5. QED
      BY <2>1, <3>1, <3>2, <3>3, <3>4
  <2>2. ASSUME NEW p \in Procs, NEW i \in Invites, InsertInvite(p, i)
        PROVE  LateInv'
    BY <1>13, <2>2
  <2>3. ASSUME NEW i \in Invites, Expire(i)
        PROVE  LateInv'
    BY <1>14, <2>3 DEF Expire
  <2>4. ASSUME NEW u \in Users, NEW v \in Users, NEW f \in Families, NEW h \in Families,
               RemoveMember(u, f, v) \/ CreateContent(u, f, h) \/ DeleteContent(u, f)
        PROVE  LateInv'
    BY <1>14, <2>4 DEF RemoveMember, CreateContent, DeleteContent
  <2>5. QED
    BY <1>3, <1>6, <1>7, <1>9, <1>10, <1>15, <2>1, <2>2, <2>3, <2>4 DEF Next
<1>16. CASE UNCHANGED vars
  BY <1>14, <1>16 DEF vars
<1>17. QED
  BY <1>15, <1>16

\* A user's row goes in the commit of a deletion, and in no other step.
LEMMA OnlyErasures ==
  ASSUME TypeOK, [Next]_vars, NEW u \in Users, Erases(u)
  PROVE  \E p \in Procs : EraseLeave(p) \/ EraseLast(p)
<1>0. TablesTyped
  BY TypeOKParts
<1>1. home[u] # NoFamily /\ home'[u] = NoFamily
  BY DEF Erases, HasRow
<1>2. ASSUME NEW p \in Procs, NEW v \in Users, NEW f \in Families, Found(p, v, f)
      PROVE  FALSE
  BY <1>0, <1>1, <1>2, ConstantsAssumption DEF Found, TablesTyped
<1>3. ASSUME NEW p \in Procs, CreateUser(p) \/ UpdateFamilyID(p)
      PROVE  FALSE
  <2>1. req[p].family \in Families
    BY <1>3 DEF CreateUser, UpdateFamilyID, TypeOK, WellFormed
  <2>2. QED
    BY <1>0, <1>1, <1>3, <2>1, ConstantsAssumption DEF CreateUser, UpdateFamilyID, TablesTyped
<1>4. home' # home
  BY <1>1
<1>5. ASSUME NEW p \in Procs,
             \/ \E v \in Users, f \in Families : CreateInvite(p, v, f)
             \/ \E v \in Users, i \in Invites : RegisterRead(p, v, i) \/ JoinRead(p, v, i)
             \/ \E i \in Invites : InsertInvite(p, i)
             \/ \E v \in Users : EraseBegin(p, v) \/ EraseElect(p, v)
             \/ Enroll(p) \/ SetUsedFamily(p) \/ AddMember(p) \/ MarkAsUsed(p)
             \/ EraseCount(p) \/ Rollback(p)
      PROVE  FALSE
  BY <1>4, <1>5 DEF CreateInvite, RegisterRead, JoinRead, InsertInvite, EraseBegin,
     EraseElect, Enroll, SetUsedFamily, AddMember, MarkAsUsed, EraseCount, Rollback
<1>6. ASSUME NEW v \in Users, NEW w \in Users, NEW f \in Families, NEW h \in Families,
             RemoveMember(v, f, w) \/ CreateContent(v, f, h) \/ DeleteContent(v, f)
      PROVE  FALSE
  BY <1>4, <1>6 DEF RemoveMember, CreateContent, DeleteContent
<1>7. ASSUME NEW i \in Invites, Expire(i)
      PROVE  FALSE
  BY <1>4, <1>7 DEF Expire
<1>8. Next
  BY <1>4 DEF vars
<1>9. QED
  BY <1>2, <1>3, <1>5, <1>6, <1>7, <1>8 DEF Next

\* The deletion that erases a user is the user's own, or one that found nobody
\* and knows the user came since.
LEMMA ErasureStep ==
  TypeOK /\ LateInv /\ [Next]_vars =>
    \A u \in Users : Erases(u) =>
      \E p \in Procs : ErasedBy(p) /\ (req[p].user = u \/ u \in req[p].late)
<1> SUFFICES ASSUME TypeOK, LateInv, [Next]_vars, NEW u \in Users, Erases(u)
             PROVE  \E p \in Procs : ErasedBy(p) /\ (req[p].user = u \/ u \in req[p].late)
  OBVIOUS
<1>0. TablesTyped /\ req \in [Procs -> Request]
  BY TypeOKParts DEF RequestsTyped
<1>1. home[u] # NoFamily /\ home'[u] = NoFamily
  BY DEF Erases, HasRow
<1>2. ASSUME NEW p \in Procs, EraseLeave(p)
      PROVE  ErasedBy(p) /\ req[p].user = u
  BY <1>0, <1>1, <1>2 DEF EraseLeave, RowsGo, ErasedBy, Finish
<1>3. ASSUME NEW p \in Procs, EraseLast(p)
      PROVE  ErasedBy(p) /\ (req[p].user = u \/ u \in req[p].late)
  <2>1. u = req[p].user \/ u \in Residents(req[p].family)
    BY <1>0, <1>1, <1>3 DEF EraseLast, RowsGo
  <2>2. Residents(req[p].family) \subseteq req[p].late \cup {req[p].user}
    BY <1>3 DEF EraseLast, LateInv, LateComplete
  <2>3. QED
    BY <1>0, <1>3, <2>1, <2>2 DEF EraseLast, ErasedBy, Finish
<1>4. QED
  BY <1>2, <1>3, OnlyErasures

\* A deletion takes along only users who came into the family after it had
\* counted the others.
THEOREM CascadesOnlyLate == Spec => CascadeOnlyLate
<1>1. Init => TypeOK /\ LateInv
  BY InitTypeOK, IdleOK DEF Init, LateInv, LateComplete, ErasesFounded
<1>2. TypeOK /\ LateInv /\ [Next]_vars => TypeOK' /\ LateInv'
  BY NextTypeOK, NextLateInv
<1>3. TypeOK /\ LateInv /\ [Next]_vars =>
        [\A u \in Users : Erases(u) =>
           \E p \in Procs : ErasedBy(p) /\ (req[p].user = u \/ u \in req[p].late)]_vars
  BY ErasureStep
<1>4. QED
  BY <1>1, <1>2, <1>3, PTL DEF Spec, CascadeOnlyLate

-----------------------------------------------------------------------------
(* What a deletion leaves behind.                                          *)

\* The successor gets what the user created, other families keep theirs, and
\* what goes with a family is its own or hangs on an account of it.
LEMMA ContentStep ==
  ASSUME TypeOK, [Next]_vars, NEW u \in Users, Erases(u),
         NEW c \in authored, Live(c[1])', Live(c[3])'
  PROVE  \E d \in authored' : d[1] = c[1] /\ d[3] = c[3]
<1>1. TablesTyped
  BY TypeOKParts
<1>2. ASSUME NEW p \in Procs, EraseLeave(p)
      PROVE  \E d \in authored' : d[1] = c[1] /\ d[3] = c[3]
  BY <1>2, HandedOver DEF EraseLeave
<1>3. ASSUME NEW p \in Procs, EraseLast(p)
      PROVE  \E d \in authored' : d[1] = c[1] /\ d[3] = c[3]
  <2>1. /\ family' = [family EXCEPT ![req[p].family] = "deleted"]
        /\ authored' = {d \in authored : req[p].family \notin {d[1], d[3]}}
    BY <1>3 DEF EraseLast, Unrelated
  <2>2. req[p].family \notin {c[1], c[3]}
    BY <1>1, <2>1 DEF TablesTyped, Live
  <2>3. QED
    BY <2>1, <2>2
<1>4. QED
  BY <1>2, <1>3, OnlyErasures

\* A deletion takes from a family that stays only what hangs on an account of
\* the family that goes: whoever is elected, and whatever happens between the
\* election and the commit.
THEOREM ErasureKeepsContent == Spec => ContentStays
<1>1. TypeOK /\ [Next]_vars =>
        [\A c \in authored :
           (\E u \in Users : Erases(u)) /\ Live(c[1])' /\ Live(c[3])'
             => \E d \in authored' : d[1] = c[1] /\ d[3] = c[3]]_vars
  BY ContentStep
<1>2. QED
  BY <1>1, TypeCorrect, PTL DEF Spec, ContentStays
=============================================================================
