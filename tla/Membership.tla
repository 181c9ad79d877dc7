----------------------------- MODULE Membership -----------------------------
(***************************************************************************)
(* Who belongs to a family: registering with and without an invite of a    *)
(* family, CreateInvite, Join and RemoveMember                             *)
(* (internal/handlers/family_handler.go, internal/auth/handler.go) and the *)
(* deletion of an account with all its data (Delete of                     *)
(* internal/handlers/me.go, DeleteAccount of internal/repository/user.go), *)
(* which has to fit the others at every interleaving.                      *)
(*                                                                         *)
(* The handlers commit statement by statement.  DeleteAccount runs in one  *)
(* transaction, at READ COMMITTED: its reads see what others have          *)
(* committed by then, its writes appear together at the commit, and the    *)
(* foreign keys of internal/database/schema.sql can refuse them.           *)
(*                                                                         *)
(* A row that was deleted never comes back under its id.  An invite that   *)
(* is addressed to one e-mail is, to every other user, one that cannot be  *)
(* presented: an answer that changes nothing.  The account under deletion  *)
(* is not that of an administrator who has created signup invites.         *)
(***************************************************************************)
EXTENDS Naturals, FiniteSets

CONSTANTS
  Users, Families, Invites,
  Procs,                      \* slots for requests in flight
  NoUser, NoFamily, NoInvite,
  MaxMembers,                 \* the limit of the plan of a family
  MaxContent                  \* bound on the rows in authored

ASSUME ConstantsAssumption ==
  /\ NoUser \notin Users /\ NoFamily \notin Families /\ NoInvite \notin Invites
  /\ MaxMembers \in Nat /\ MaxContent \in Nat

VARIABLES
  family,    \* the families table
  home,      \* users.family_id; NoFamily when the user has no row
  members,   \* the family_members table
  invite,    \* the family_invites table
  authored,  \* <<f, u, h>>: f has a row with created_by u, an account of its own
             \* (h = f) or a transaction on an account of h
  granted,   \* families that a row of signup_invites names as its user
  claims,    \* <<u, f>>: u has been given an access token for f
  erased,    \* users whose row was deleted
  joined,    \* history: the users that each invite let in
  req        \* the requests in flight

vars == <<family, home, members, invite, authored, granted, claims, erased,
          joined, req>>

\* used_at IS NOT NULL is "used"; a deleted row is "gone".
InviteRow ==
  [status : {"none", "open", "expired", "used", "gone"},
   family : Families \cup {NoFamily}, creator : Users \cup {NoUser}]

\* A request: at names the statement it runs next.  late is history: users
\* who came into the family since a deletion found it empty of others.
Request ==
  [at : {"idle", "create", "enroll", "join", "home", "mark", "audit",
         "insert", "count", "elect", "leave", "last"},
   user : Users \cup {NoUser}, family : Families \cup {NoFamily},
   invite : Invites \cup {NoInvite}, successor : Users \cup {NoUser},
   late : SUBSET Users]

Idle == [at |-> "idle", user |-> NoUser, family |-> NoFamily,
         invite |-> NoInvite, successor |-> NoUser, late |-> {}]

Init ==
  /\ family = [f \in Families |-> "none"]
  /\ home = [u \in Users |-> NoFamily]
  /\ members = {}
  /\ invite = [i \in Invites |->
       [status |-> "none", family |-> NoFamily, creator |-> NoUser]]
  /\ authored = {} /\ granted = {} /\ claims = {} /\ erased = {}
  /\ joined = [i \in Invites |-> {}]
  /\ req = [p \in Procs |-> Idle]

HasRow(u) == u \in Users /\ home[u] # NoFamily
Live(f) == f \in Families /\ family[f] = "live"
Residents(f) == {u \in Users : home[u] = f}
MembersOf(f) == {u \in Users : <<f, u>> \in members}

Free(u) == ~HasRow(u) /\ u \notin erased   \* no account under this login

Go(p, stmt) == req' = [req EXCEPT ![p].at = stmt]
Finish(p) == req' = [req EXCEPT ![p] = Idle]

\* u comes into f, and p goes on to stmt.  Every deletion that found f without
\* others remembers it.
Arrive(p, stmt, u, f) ==
  req' = [q \in Procs |->
    IF q = p THEN [req[p] EXCEPT !.at = stmt]
    ELSE IF req[q].at = "last" /\ req[q].family = f
         THEN [req[q] EXCEPT !.late = @ \cup {u}] ELSE req[q]]

-----------------------------------------------------------------------------
(* Register.                                                               *)

\* Without a family invite: the family and its first user, who nobody can
\* name before.  The steps in between are those of the module Registration.
Found(p, u, f) ==
  /\ req[p] = Idle
  /\ Free(u) /\ family[f] = "none"
  /\ family' = [family EXCEPT ![f] = "live"]
  /\ home' = [home EXCEPT ![u] = f]
  /\ claims' = claims \cup {<<u, f>>}
  /\ req' = [req EXCEPT ![p] = [Idle EXCEPT !.at = "enroll", !.user = u, !.family = f]]
  /\ UNCHANGED <<members, invite, authored, granted, erased, joined>>

\* With one: the login is free, and FindByToken returns an invite that is
\* neither used nor expired.
RegisterRead(p, u, i) ==
  /\ req[p] = Idle
  /\ Free(u) /\ invite[i].status = "open"
  /\ req' = [req EXCEPT ![p] = [Idle EXCEPT !.at = "create", !.user = u,
                                  !.invite = i, !.family = invite[i].family]]
  /\ UNCHANGED <<family, home, members, invite, authored, granted, claims, erased,
                 joined>>

\* userRepo.Create, into the family read from the invite.
CreateUser(p) ==
  LET u == req[p].user  f == req[p].family IN
  /\ req[p].at = "create"
  /\ Free(u) /\ Live(f)
  /\ home' = [home EXCEPT ![u] = f]
  /\ claims' = claims \cup {<<u, f>>}
  /\ joined' = [joined EXCEPT ![req[p].invite] = @ \cup {u}]
  /\ Arrive(p, "enroll", u, f)
  /\ UNCHANGED <<family, members, invite, authored, granted, erased>>

\* AddMember, whose error Register drops.
Enroll(p) ==
  LET u == req[p].user  f == req[p].family IN
  /\ req[p].at = "enroll"
  /\ \/ HasRow(u) /\ Live(f) /\ members' = members \cup {<<f, u>>}
     \/ UNCHANGED members
  /\ Go(p, IF req[p].invite = NoInvite THEN "audit" ELSE "mark")
  /\ UNCHANGED <<family, home, invite, authored, granted, claims, erased, joined>>

\* SetUsedFamily if Register held a signup invite; a failure is only logged.
SetUsedFamily(p) ==
  /\ req[p].at = "audit"
  /\ \/ Live(req[p].family) /\ granted' = granted \cup {req[p].family}
     \/ UNCHANGED granted
  /\ Finish(p)
  /\ UNCHANGED <<family, home, members, invite, authored, claims, erased, joined>>

-----------------------------------------------------------------------------
(* Invites, Join and RemoveMember.  A handler takes the caller's id and,   *)
(* except Join and Delete, the family from the access token.               *)

\* CreateInvite: CheckCanAddMember counts the rows of family_members.
CreateInvite(p, u, f) ==
  /\ req[p] = Idle
  /\ <<u, f>> \in claims /\ Live(f)
  /\ Cardinality(MembersOf(f)) < MaxMembers
  /\ req' = [req EXCEPT ![p] = [Idle EXCEPT !.at = "insert", !.user = u, !.family = f]]
  /\ UNCHANGED <<family, home, members, invite, authored, granted, claims, erased,
                 joined>>

\* inviteRepo.Create.
InsertInvite(p, i) ==
  /\ req[p].at = "insert"
  /\ invite[i].status = "none"
  /\ HasRow(req[p].user) /\ Live(req[p].family)
  /\ invite' = [invite EXCEPT ![i] = [status |-> "open", family |-> req[p].family,
                                      creator |-> req[p].user]]
  /\ Finish(p)
  /\ UNCHANGED <<family, home, members, authored, granted, claims, erased, joined>>

\* expires_at passes.
Expire(i) ==
  /\ invite[i].status = "open"
  /\ invite' = [invite EXCEPT ![i].status = "expired"]
  /\ UNCHANGED <<family, home, members, authored, granted, claims, erased, joined,
                 req>>

\* Join: the user exists, and FindByToken returns an invite that is neither
\* used nor expired.
JoinRead(p, u, i) ==
  /\ req[p] = Idle
  /\ HasRow(u) /\ invite[i].status = "open"
  /\ req' = [req EXCEPT ![p] = [Idle EXCEPT !.at = "join", !.user = u,
                                  !.invite = i, !.family = invite[i].family]]
  /\ UNCHANGED <<family, home, members, invite, authored, granted, claims, erased,
                 joined>>

\* AddMember; the row of the family the user comes from stays.
AddMember(p) ==
  /\ req[p].at = "join"
  /\ HasRow(req[p].user) /\ Live(req[p].family)
  /\ members' = members \cup {<<req[p].family, req[p].user>>}
  /\ Go(p, "home")
  /\ UNCHANGED <<family, home, invite, authored, granted, claims, erased, joined>>

\* UpdateFamilyID.  For a user deleted since, it changes no row and succeeds.
UpdateFamilyID(p) ==
  LET u == req[p].user  f == req[p].family IN
  /\ req[p].at = "home"
  /\ IF HasRow(u)
       THEN /\ Live(f)
            /\ home' = [home EXCEPT ![u] = f]
            /\ claims' = claims \cup {<<u, f>>}
            /\ joined' = [joined EXCEPT ![req[p].invite] = @ \cup {u}]
            /\ Arrive(p, "mark", u, f)
       ELSE Go(p, "mark") /\ UNCHANGED <<home, claims, joined>>
  /\ UNCHANGED <<family, members, invite, authored, granted, erased>>

\* MarkAsUsed, whose error (also: used already) Join and Register drop.
MarkAsUsed(p) ==
  LET i == req[p].invite IN
  /\ req[p].at = "mark"
  /\ \/ /\ invite[i].status \in {"open", "expired"}
        /\ invite' = [invite EXCEPT ![i].status = "used"]
     \/ UNCHANGED invite
  /\ Finish(p)
  /\ UNCHANGED <<family, home, members, authored, granted, claims, erased, joined>>

\* RemoveMember: v loses the row in family_members and keeps users.family_id.
RemoveMember(u, f, v) ==
  /\ <<u, f>> \in claims /\ v # u
  /\ <<f, v>> \in members
  /\ members' = members \ {<<f, v>>}
  /\ UNCHANGED <<family, home, invite, authored, granted, claims, erased, joined, req>>

-----------------------------------------------------------------------------
(* The content of a family: accounts and transactions.                     *)

\* The rows that hang on an account of a family have one to hang on.
Accounted(rows) == \A c \in rows : \E d \in rows : d[1] = c[3] /\ d[3] = c[3]

\* Mutant of CreateContent: the family comes from the payload.
CreateContentAnywhere(u, f, h) ==
  /\ HasRow(u) /\ Live(f)
  /\ Accounted(authored \cup {<<f, u, h>>})
  /\ Cardinality(authored \cup {<<f, u, h>>}) <= MaxContent
  /\ authored' = authored \cup {<<f, u, h>>}
  /\ UNCHANGED <<family, home, members, invite, granted, claims, erased, joined, req>>

\* The INSERTs of accounts and transactions: user and family come from the
\* token.  The account of a transaction comes from the payload, and nothing
\* but its foreign key is asked about it: it may be another family's.
CreateContent(u, f, h) ==
  /\ <<u, f>> \in claims
  /\ HasRow(u) /\ Live(f)
  /\ Accounted(authored \cup {<<f, u, h>>})
  /\ Cardinality(authored \cup {<<f, u, h>>}) <= MaxContent
  /\ authored' = authored \cup {<<f, u, h>>}
  /\ UNCHANGED <<family, home, members, invite, granted, claims, erased, joined, req>>

\* Rows of f are deleted, or accounts of f with all that hangs on them,
\* whoever created it and whatever family it is of.
DeleteContent(u, f) ==
  /\ <<u, f>> \in claims
  /\ \E rows \in SUBSET {c \in authored : f \in {c[1], c[3]}} :
       /\ Accounted(authored \ rows)
       /\ authored' = authored \ rows
  /\ UNCHANGED <<family, home, members, invite, granted, claims, erased, joined, req>>

-----------------------------------------------------------------------------
(* DeleteAccount.                                                          *)

\* Delete finds the user and accepts the password; DeleteAccount reads the
\* family of the user.
EraseBegin(p, u) ==
  /\ req[p] = Idle
  /\ HasRow(u)
  /\ req' = [req EXCEPT ![p] = [Idle EXCEPT !.at = "count", !.user = u,
                                                 !.family = home[u]]]
  /\ UNCHANGED <<family, home, members, invite, authored, granted, claims, erased,
                 joined>>

Others(p) == Residents(req[p].family) \ {req[p].user}

\* Mutant of EraseCount: the members of the family are counted, not its users.
EraseCountMembers(p) ==
  /\ req[p].at = "count"
  /\ Go(p, IF MembersOf(req[p].family) \ {req[p].user} = {} THEN "last" ELSE "elect")
  /\ UNCHANGED <<family, home, members, invite, authored, granted, claims, erased,
                 joined>>

\* Counts the other users of the family.
EraseCount(p) ==
  /\ req[p].at = "count"
  /\ Go(p, IF Others(p) = {} THEN "last" ELSE "elect")
  /\ UNCHANGED <<family, home, members, invite, authored, granted, claims, erased,
                 joined>>

\* Picks one of them as successor.  (With nobody left: Rollback.)
EraseElect(p, s) ==
  /\ req[p].at = "elect"
  /\ s \in Others(p)
  /\ req' = [req EXCEPT ![p].at = "leave", ![p].successor = s]
  /\ UNCHANGED <<family, home, members, invite, authored, granted, claims, erased,
                 joined>>

\* The rows that go when the users in gone and the families in lost do, each
\* by its own DELETE or by ON DELETE CASCADE.
RowsGo(gone, lost) ==
  /\ home' = [u \in Users |-> IF u \in gone THEN NoFamily ELSE home[u]]
  /\ erased' = erased \cup gone
  /\ members' = {m \in members : m[1] \notin lost /\ m[2] \notin gone}
  /\ invite' = [i \in Invites |->
       IF invite[i].family \in lost \/ invite[i].creator \in gone
       THEN [invite[i] EXCEPT !.status = "gone"] ELSE invite[i]]

\* The foreign keys created_by: no row that stays names a user in gone.
NamesNoneOf(gone, rows) == \A c \in rows : c[2] \notin gone

\* The rows of other families, and those of them that are on no account of f.
Elsewhere(f) == {c \in authored : c[1] # f}
Unrelated(f) == {c \in authored : f \notin {c[1], c[3]}}

\* UPDATE ... SET created_by = s WHERE created_by = u AND family_id = f.
HandOver(u, f, s) ==
  {IF c[1] = f /\ c[2] = u THEN <<f, s, c[3]>> ELSE c : c \in authored}

\* The foreign key signup_invites.used_by_family_id.
NotAudited(f) == f \notin granted

\* Mutant of EraseLeave: what the user created in the family is deleted.
EraseLeaveDropping(p) ==
  LET u == req[p].user  f == req[p].family IN
  /\ req[p].at = "leave"
  /\ NamesNoneOf({u}, Elsewhere(f))
  /\ authored' = {c \in authored : c[2] # u}
  /\ RowsGo({u}, {})
  /\ Finish(p)
  /\ UNCHANGED <<family, granted, claims, joined>>

\* Mutant of EraseLeave: the successor is taken as it was read.
EraseLeaveUnchecked(p) ==
  LET u == req[p].user  f == req[p].family IN
  /\ req[p].at = "leave"
  /\ NamesNoneOf({u}, Elsewhere(f))
  /\ authored' = HandOver(u, f, req[p].successor)
  /\ RowsGo({u}, {})
  /\ Finish(p)
  /\ UNCHANGED <<family, granted, claims, joined>>

\* There are others: the successor takes over what the user created in the
\* family (it must still exist if there is something to take over), and the
\* user goes.
EraseLeave(p) ==
  LET u == req[p].user  f == req[p].family  s == req[p].successor IN
  /\ req[p].at = "leave"
  /\ NamesNoneOf({u}, Elsewhere(f))
  /\ (\E c \in authored : c[1] = f /\ c[2] = u) => HasRow(s)
  /\ authored' = HandOver(u, f, s)
  /\ RowsGo({u}, {})
  /\ Finish(p)
  /\ UNCHANGED <<family, granted, claims, joined>>

\* There were no others: the content, the user and the family go, by
\* transactions.account_id ON DELETE CASCADE what other families have on its
\* accounts, and by users.family_id ON DELETE CASCADE every user who is in the
\* family by now.
EraseLast(p) ==
  LET u == req[p].user  f == req[p].family  gone == {u} \cup Residents(f) IN
  /\ req[p].at = "last"
  /\ NamesNoneOf(gone, Unrelated(f)) /\ NotAudited(f)
  /\ family' = [family EXCEPT ![f] = "deleted"]
  /\ authored' = Unrelated(f)
  /\ RowsGo(gone, {f})
  /\ Finish(p)
  /\ UNCHANGED <<granted, claims, joined>>

\* A statement fails, a check made again (a taken login, a foreign key) says
\* no, the request is cancelled, or the server stops: the statements that
\* committed stay, an open transaction leaves nothing.
Rollback(p) ==
  /\ req[p] # Idle
  /\ Finish(p)
  /\ UNCHANGED <<family, home, members, invite, authored, granted, claims, erased,
                 joined>>

-----------------------------------------------------------------------------
Next ==
  \/ \E p \in Procs :
       \/ \E u \in Users, f \in Families : Found(p, u, f) \/ CreateInvite(p, u, f)
       \/ \E u \in Users, i \in Invites : RegisterRead(p, u, i) \/ JoinRead(p, u, i)
       \/ CreateUser(p) \/ Enroll(p) \/ SetUsedFamily(p)
       \/ \E i \in Invites : InsertInvite(p, i)
       \/ AddMember(p) \/ UpdateFamilyID(p) \/ MarkAsUsed(p)
       \/ \E u \in Users : EraseBegin(p, u) \/ EraseElect(p, u)
       \/ EraseCount(p) \/ EraseLeave(p) \/ EraseLast(p) \/ Rollback(p)
  \/ \E i \in Invites : Expire(i)
  \/ \E u, v \in Users, f \in Families : RemoveMember(u, f, v)
  \/ \E u \in Users, f, h \in Families : CreateContent(u, f, h)
  \/ \E u \in Users, f \in Families : DeleteContent(u, f)

Spec == Init /\ [][Next]_vars

-----------------------------------------------------------------------------
(* Properties.                                                             *)

\* What a request holds fits the statement it runs next.
WellFormed(rq) ==
  /\ rq.at # "idle" => rq.user \in Users /\ rq.family \in Families
  /\ rq.at \in {"create", "join", "home", "mark"} => rq.invite \in Invites
  /\ rq.at = "leave" => rq.successor \in Users \ {rq.user}

\* No row names a user, a family or an account that is not there: after DeleteAccount nothing
\* is left of the user, and of a family that went with its last user.
UsersNameFamilies == \A u \in Users : HasRow(u) => Live(home[u]) /\ u \notin erased
MembersNameRows == \A m \in members : Live(m[1]) /\ HasRow(m[2])
ContentNamesRows ==
  Accounted(authored) /\ \A c \in authored : Live(c[1]) /\ HasRow(c[2])
SignupsNameFamilies == \A f \in granted : Live(f)
InvitesNameRows ==
  \A i \in Invites : invite[i].status \in {"open", "expired", "used"} =>
    Live(invite[i].family) /\ HasRow(invite[i].creator)

RowsNameRows ==
  /\ UsersNameFamilies /\ MembersNameRows /\ ContentNamesRows
  /\ SignupsNameFamilies /\ InvitesNameRows

\* Type correctness, foreign keys included.
TypeOK ==
  /\ family \in [Families -> {"none", "live", "deleted"}]
  /\ home \in [Users -> Families \cup {NoFamily}]
  /\ members \subseteq Families \X Users
  /\ invite \in [Invites -> InviteRow]
  /\ authored \subseteq Families \X Users \X Families
  /\ granted \subseteq Families
  /\ claims \subseteq Users \X Families
  /\ erased \subseteq Users
  /\ joined \in [Invites -> SUBSET Users]
  /\ req \in [Procs -> Request]
  /\ \A p \in Procs : WellFormed(req[p])
  /\ RowsNameRows

\* What is in a family was created, or taken over, by users who have been in
\* it: neither Join nor a deletion hands content to a stranger.
AuthorsBelonged == \A c \in authored : <<c[2], c[1]>> \in claims

\* What makes it inductive: a user of a family has been given tokens for it,
\* and so has an elected successor.
BelongInv ==
  /\ AuthorsBelonged
  /\ \A u \in Users : HasRow(u) => <<u, home[u]>> \in claims
  /\ \A p \in Procs : req[p].at = "leave" => <<req[p].successor, req[p].family>> \in claims

\* A deletion that found a family empty of others knows who came since.
LateComplete ==
  \A p \in Procs : req[p].at = "last" =>
    Residents(req[p].family) \subseteq req[p].late \cup {req[p].user}

\* A deletion is about a family that was founded.
ErasesFounded ==
  \A p \in Procs : req[p].at \in {"count", "elect", "leave", "last"} =>
    family[req[p].family] # "none"

\* The users whose row a step deletes.
Erases(u) == HasRow(u) /\ home'[u] = NoFamily

\* The user whose DeleteAccount commits in this step.
ErasedBy(p) == req[p].at \in {"leave", "last"} /\ req'[p] = Idle

\* A deletion takes along only users who came into the family after it had
\* counted the others, and never one that it counted.
CascadeOnlyLate ==
  [][\A u \in Users : Erases(u) =>
       \E p \in Procs : ErasedBy(p) /\ (req[p].user = u \/ u \in req[p].late)]_vars

\* A deletion leaves to every family that stays what it has on its own
\* accounts and on those of any family that stays ("transfere a autoria das
\* contas/transações para outro membro"): it takes from others only what they
\* had booked on an account of the family that goes with its last user.
ContentStays ==
  [][\A c \in authored :
       (\E u \in Users : Erases(u)) /\ Live(c[1])' /\ Live(c[3])'
         => \E d \in authored' : d[1] = c[1] /\ d[3] = c[3]]_vars

\* An invite lets one user in ("Este convite já foi utilizado").  It does not
\* hold: it is checked when it is read, and used without a condition.
OneUserPerInvite == \A i \in Invites : Cardinality(joined[i]) <= 1

\* Whoever asks for it can be erased ("em conformidade com o direito à
\* eliminação"): no foreign key refuses it for good.  It does not hold for the
\* last user of a family founded with a signup invite (used_by_family_id), nor
\* for one who left content in a family they came from (created_by).
AccountErasable ==
  \A u \in Users : HasRow(u) =>
    IF Residents(home[u]) = {u}
      THEN NamesNoneOf({u}, Unrelated(home[u])) /\ NotAudited(home[u])
      ELSE NamesNoneOf({u}, Elsewhere(home[u]))
=============================================================================
