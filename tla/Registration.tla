---------------------------- MODULE Registration ----------------------------
(***************************************************************************)
(* Register (internal/auth/handler.go) with and without a signup invite,   *)
(* and the administrator's CreateInvite and RevokeInvite                   *)
(* (internal/handlers/admin.go).                                           *)
(*                                                                         *)
(* A signup invite grants the plan LIFETIME_FREE to one new family.        *)
(* Register claims it first, then creates the family and the user, and     *)
(* gives the claim back when one of the two fails.  Each statement commits *)
(* on its own: one action is one statement with the code up to the next.   *)
(* A statement may also commit although its caller sees an error (the 5 s   *)
(* timeout of each repository call, a broken connection): the "Unheard"    *)
(* actions.                                                                *)
(* Registering with a FAMILY invite is modelled in Membership.             *)
(*                                                                         *)
(* One constant stands for a login together with its e-mail: both are      *)
(* checked the same way and both are UNIQUE in the table.                  *)
(***************************************************************************)
EXTENDS Naturals, FiniteSets

CONSTANTS
  Procs,       \* slots for Register requests in flight
  Logins,      \* login names (with their e-mails)
  Invites,     \* signup invites an administrator can create
  Families,    \* rows that can be inserted in families
  NoLogin, NoInvite, NoFamily

ASSUME ConstantsAssumption ==
  NoLogin \notin Logins /\ NoInvite \notin Invites /\ NoFamily \notin Families

VARIABLES
  invite,   \* the signup_invites table
  plan,     \* families.plan, "none" for a row not inserted
  account,  \* users.family_id of a login, NoFamily for a row not inserted
  members,  \* the family_members table
  req,      \* the Register requests in flight
  granted,  \* history: logins whose user was created while holding the claim
  stopped   \* history: what befell requests while they held the claim

vars == <<invite, plan, account, members, req, granted, stopped>>

\* used_at IS NOT NULL is "claimed"; a row that Delete removed is "deleted".
InviteRow ==
  [status : {"none", "open", "claimed", "deleted"}, expired : BOOLEAN,
   family : Families \cup {NoFamily}]

\* A request: at names the statement it runs next; invite is the token it
\* presents or holds, NoInvite without one.
Request ==
  [at : {"idle", "claim", "family", "user", "release", "member", "audit"},
   login : Logins \cup {NoLogin}, invite : Invites \cup {NoInvite},
   family : Families \cup {NoFamily}]

Idle == [at |-> "idle", login |-> NoLogin, invite |-> NoInvite, family |-> NoFamily]

Reasons == {"crash", "hash", "release", "lost claim", "lost user"}

Init ==
  /\ invite = [i \in Invites |->
       [status |-> "none", expired |-> FALSE, family |-> NoFamily]]
  /\ plan = [f \in Families |-> "none"]
  /\ account = [l \in Logins |-> NoFamily]
  /\ members = {}
  /\ req = [p \in Procs |-> Idle]
  /\ granted = [i \in Invites |-> {}]
  /\ stopped = [i \in Invites |-> {}]

\* p holds the claim of i: it won ClaimByToken and has not given it back.
Holds(p, i) == req[p].invite = i /\ req[p].at \notin {"idle", "claim"}

HasInvite(p) == req[p].invite # NoInvite

Finish(p) == req' = [req EXCEPT ![p] = Idle]

\* Something befalls a request that may hold a claim: remember it.
StopFor(p, reason) ==
  stopped' = [i \in Invites |->
    IF Holds(p, i) THEN stopped[i] \cup {reason} ELSE stopped[i]]

-----------------------------------------------------------------------------
(* Register.                                                               *)

\* Mutant of Begin: the claim comes next even without a token.
BeginClaiming(p, l, i) ==
  /\ req[p] = Idle
  /\ account[l] = NoFamily
  /\ req' = [req EXCEPT ![p] = [Idle EXCEPT !.at = "claim", !.login = l, !.invite = i]]
  /\ UNCHANGED <<invite, plan, account, members, granted, stopped>>

\* The payload is valid and FindByLogin and FindByEmail find no user; with an
\* invite_token (that is no family invite) the claim comes next.
Begin(p, l, i) ==
  /\ req[p] = Idle
  /\ account[l] = NoFamily
  /\ req' = [req EXCEPT ![p] =
       [Idle EXCEPT !.at = IF i = NoInvite THEN "family" ELSE "claim",
          !.login = l, !.invite = i]]
  /\ UNCHANGED <<invite, plan, account, members, granted, stopped>>

\* Mutant of Claim: the token is only looked up here, and marked as used
\* without a condition.
ClaimUsed(p) ==
  LET i == req[p].invite IN
  /\ req[p].at = "claim"
  /\ invite[i].status \in {"open", "claimed"} /\ ~invite[i].expired
  /\ invite' = [invite EXCEPT ![i].status = "claimed"]
  /\ req' = [req EXCEPT ![p].at = "family"]
  /\ UNCHANGED <<plan, account, members, granted, stopped>>

\* ClaimByToken: one conditional UPDATE.
Claim(p) ==
  LET i == req[p].invite IN
  /\ req[p].at = "claim"
  /\ invite[i].status = "open" /\ ~invite[i].expired
  /\ invite' = [invite EXCEPT ![i].status = "claimed"]
  /\ req' = [req EXCEPT ![p].at = "family"]
  /\ UNCHANGED <<plan, account, members, granted, stopped>>

\* ClaimByToken matched no row, or failed: nothing was created, the handler
\* answers the reason (422) or 500.
ClaimRejected(p) ==
  /\ req[p].at = "claim"
  /\ Finish(p)
  /\ UNCHANGED <<invite, plan, account, members, granted, stopped>>

\* ClaimByToken commits, but its caller sees an error and answers 500.
ClaimUnheard(p) ==
  LET i == req[p].invite IN
  /\ req[p].at = "claim"
  /\ invite[i].status = "open" /\ ~invite[i].expired
  /\ invite' = [invite EXCEPT ![i].status = "claimed"]
  /\ Finish(p)
  /\ stopped' = [stopped EXCEPT ![i] = @ \cup {"lost claim"}]
  /\ UNCHANGED <<plan, account, members, granted>>

\* GenerateFromPassword fails after the claim: a password of at most 72
\* characters can have more than 72 bytes.  The handler answers 500.
HashFails(p) ==
  /\ req[p].at = "family"
  /\ Finish(p) /\ StopFor(p, "hash")
  /\ UNCHANGED <<invite, plan, account, members, granted>>

\* familyRepo.Create: the plan of the claimed invite, otherwise FREE.
CreateFamily(p, f) ==
  /\ req[p].at = "family"
  /\ plan[f] = "none"
  /\ plan' = [plan EXCEPT ![f] = IF HasInvite(p) THEN "LIFETIME_FREE" ELSE "FREE"]
  /\ req' = [req EXCEPT ![p].at = "user", ![p].family = f]
  /\ UNCHANGED <<invite, account, members, granted, stopped>>

\* Mutant of GiveBack: the handler returns the error without ReleaseClaim.
KeepClaim(p) == Finish(p)

\* The error path of the two creations: ReleaseClaim if there is a claim.
GiveBack(p) ==
  IF HasInvite(p) THEN req' = [req EXCEPT ![p].at = "release"] ELSE Finish(p)

\* familyRepo.Create reports an error.
CreateFamilyFails(p) ==
  /\ req[p].at = "family"
  /\ GiveBack(p)
  /\ UNCHANGED <<invite, plan, account, members, granted, stopped>>

\* userRepo.Create: users.login is UNIQUE.
CreateUser(p) ==
  LET l == req[p].login IN
  /\ req[p].at = "user"
  /\ account[l] = NoFamily
  /\ account' = [account EXCEPT ![l] = req[p].family]
  /\ granted' = [i \in Invites |->
       IF Holds(p, i) THEN granted[i] \cup {l} ELSE granted[i]]
  /\ req' = [req EXCEPT ![p].at = "member"]
  /\ UNCHANGED <<invite, plan, members, stopped>>

\* userRepo.Create reports an error: the login was taken since Begin, or the
\* statement failed.  The family stays, with nobody in it.
CreateUserFails(p) ==
  /\ req[p].at = "user"
  /\ GiveBack(p)
  /\ UNCHANGED <<invite, plan, account, members, granted, stopped>>

\* userRepo.Create commits, but its caller sees an error (its context expired
\* while the answer was on its way).
CreateUserUnheard(p) ==
  LET l == req[p].login IN
  /\ req[p].at = "user"
  /\ account[l] = NoFamily
  /\ account' = [account EXCEPT ![l] = req[p].family]
  /\ granted' = [i \in Invites |->
       IF Holds(p, i) THEN granted[i] \cup {l} ELSE granted[i]]
  /\ GiveBack(p) /\ StopFor(p, "lost user")
  /\ UNCHANGED <<invite, plan, members>>

\* ReleaseClaim, an UPDATE by id without a condition; then the handler's 500.
ReleaseClaim(p) ==
  /\ req[p].at = "release"
  /\ invite' = [invite EXCEPT ![req[p].invite].status = "open",
                              ![req[p].invite].family = NoFamily]
  /\ Finish(p)
  /\ UNCHANGED <<plan, account, members, granted, stopped>>

\* ReleaseClaim fails (for one, its context is the request's, cancelled when
\* the client has gone): the failure is only logged.
ReleaseFails(p) ==
  /\ req[p].at = "release"
  /\ Finish(p) /\ StopFor(p, "release")
  /\ UNCHANGED <<invite, plan, account, members, granted>>

\* AddMember, whose error is dropped.
AddMember(p) ==
  /\ req[p].at = "member"
  /\ \/ members' = members \cup {<<req[p].family, req[p].login>>}
     \/ UNCHANGED members
  /\ IF HasInvite(p) THEN req' = [req EXCEPT ![p].at = "audit"] ELSE Finish(p)
  /\ UNCHANGED <<invite, plan, account, granted, stopped>>

\* SetUsedFamily, whose failure is only logged; then 201.
SetUsedFamily(p) ==
  /\ req[p].at = "audit"
  /\ \/ invite' = [invite EXCEPT ![req[p].invite].family = req[p].family]
     \/ UNCHANGED invite
  /\ Finish(p)
  /\ UNCHANGED <<plan, account, members, granted, stopped>>

\* The server stops, or the request panics.  Committed statements stay.
Crash(p) ==
  /\ req[p] # Idle
  /\ Finish(p) /\ StopFor(p, "crash")
  /\ UNCHANGED <<invite, plan, account, members, granted>>

-----------------------------------------------------------------------------
(* The administrator, and time.                                            *)

CreateInvite(i) ==
  /\ invite[i].status = "none"
  /\ invite' = [invite EXCEPT ![i].status = "open"]
  /\ UNCHANGED <<plan, account, members, req, granted, stopped>>

\* Mutant of RevokeInvite: Delete lacks the condition used_at IS NULL.
RevokeAnyInvite(i) ==
  /\ invite[i].status \in {"open", "claimed"}
  /\ invite' = [invite EXCEPT ![i].status = "deleted"]
  /\ UNCHANGED <<plan, account, members, req, granted, stopped>>

\* RevokeInvite: DELETE ... WHERE used_at IS NULL, expired or not.
RevokeInvite(i) ==
  /\ invite[i].status = "open"
  /\ invite' = [invite EXCEPT ![i].status = "deleted"]
  /\ UNCHANGED <<plan, account, members, req, granted, stopped>>

\* expires_at passes.
Expire(i) ==
  /\ invite[i].status \in {"open", "claimed"} /\ ~invite[i].expired
  /\ invite' = [invite EXCEPT ![i].expired = TRUE]
  /\ UNCHANGED <<plan, account, members, req, granted, stopped>>

Next ==
  \/ \E p \in Procs :
       \/ \E l \in Logins, i \in Invites \cup {NoInvite} : Begin(p, l, i)
       \/ \E f \in Families : CreateFamily(p, f)
       \/ Claim(p) \/ ClaimRejected(p) \/ ClaimUnheard(p)
       \/ HashFails(p) \/ CreateFamilyFails(p)
       \/ CreateUser(p) \/ CreateUserFails(p) \/ CreateUserUnheard(p)
       \/ ReleaseClaim(p) \/ ReleaseFails(p) \/ AddMember(p) \/ SetUsedFamily(p)
       \/ Crash(p)
  \/ \E i \in Invites : CreateInvite(i) \/ RevokeInvite(i) \/ Expire(i)

Spec == Init /\ [][Next]_vars

-----------------------------------------------------------------------------
(* Properties.                                                             *)

\* What a request holds fits the statement it runs next.
WellFormed(rq) ==
  /\ rq.at # "idle" => rq.login \in Logins
  /\ rq.at \in {"claim", "release", "audit"} => rq.invite \in Invites
  /\ rq.at \in {"user", "member", "audit"} => rq.family \in Families

\* Type correctness: the tables, the requests, and that a user's family and
\* a member's family are rows that exist.
TypeOK ==
  /\ invite \in [Invites -> InviteRow]
  /\ plan \in [Families -> {"none", "FREE", "LIFETIME_FREE"}]
  /\ account \in [Logins -> Families \cup {NoFamily}]
  /\ members \subseteq Families \X Logins
  /\ req \in [Procs -> Request]
  /\ \A p \in Procs : WellFormed(req[p])
  /\ granted \in [Invites -> SUBSET Logins]
  /\ stopped \in [Invites -> SUBSET Reasons]

Held(i) == \E p \in Procs : Holds(p, i)

\* No INSERT of a user committed unheard while its request held the invite.
Heard(i) == "lost user" \notin stopped[i]

\* An invite creates at most one account, however many requests present it
\* together, whichever of them fail and give it back: the comment in Register
\* (internal/auth/handler.go:158-172) promises it against reuse and races.  The
\* one exception: the account whose INSERT committed but was reported as failed
\* exists, and its invite is open again.
OneGrantIfHeard ==
  \A i \in Invites : Heard(i) => \A l1, l2 \in granted[i] : l1 = l2

\* An invite that an administrator revoked has created no account (a lost
\* reply aside), and no request that holds it is still to create one.
RevokedGrantsNothing ==
  \A i \in Invites : invite[i].status = "deleted" =>
    (Heard(i) => granted[i] = {}) /\ ~Held(i)

\* An invite is for one account, or for none once it is revoked
\* (internal/auth/handler.go:158-172, internal/handlers/admin.go:318-330).
GrantsOnce == OneGrantIfHeard /\ RevokedGrantsNothing

\* What makes the two inductive: one request at most holds an invite, and the
\* invite is spent only by the request that holds it.
ClaimsExclusive ==
  /\ \A p \in Procs, i \in Invites : Holds(p, i) => invite[i].status = "claimed"
  /\ \A p, q \in Procs, i \in Invites : Holds(p, i) /\ Holds(q, i) => p = q
  /\ \A i \in Invites : Heard(i) /\ invite[i].status # "claimed" => granted[i] = {}
  /\ \A p \in Procs, i \in Invites :
       Heard(i) /\ Holds(p, i) /\ req[p].at \in {"family", "user", "release"}
         => granted[i] = {}

\* A family that lives on the lifetime plan was founded by the account that
\* spent an invite, and the accounts of all other families are on FREE.
LifetimeEarned ==
  \A l \in Logins : account[l] # NoFamily =>
    (plan[account[l]] = "LIFETIME_FREE" <=> \E i \in Invites : l \in granted[i])

\* A claimed invite is held by a request, has created an account, or one of the
\* five recorded mishaps befell a request that held it.
ClaimAccounted ==
  \A i \in Invites : invite[i].status = "claimed" =>
    Held(i) \/ granted[i] # {} \/ stopped[i] # {}

\* used_by_family_id, which SetUsedFamily records for the audit, names the
\* family of the account the invite created.
AuditNamesFamily ==
  \A i \in Invites : invite[i].family # NoFamily =>
    \E l \in granted[i] : account[l] = invite[i].family

\* The invites, the plans and the audit agree whatever fails or stops between
\* the statements of Register: each claim is accounted for, each lifetime plan
\* is paid for by an invite, and the audit names the family that has it
\* (internal/auth/handler.go:198-301).
InvitesAccounted == ClaimAccounted /\ LifetimeEarned /\ AuditNamesFamily

-----------------------------------------------------------------------------
(* Registration implements InviteLives: an invite is spent as soon as its  *)
(* user is created and lost when it is claimed and nobody holds it.        *)

LifeOf == [i \in Invites |->
  IF ~Heard(i) THEN "void"
  ELSE IF invite[i].status = "none" THEN "unissued"
  ELSE IF invite[i].status = "open" THEN "open"
  ELSE IF invite[i].status = "deleted" THEN "revoked"
  ELSE IF granted[i] # {} THEN "spent"
  ELSE IF Held(i) THEN "held"
  ELSE "lost"]

HeirsOf == [i \in Invites |-> IF Heard(i) THEN granted[i] ELSE {}]

Lives == INSTANCE InviteLives WITH life <- LifeOf, heirs <- HeirsOf

\* Whatever overlaps, fails, is given back or revoked between the statements of
\* Register, an invite has one life: what is spent, lost or revoked stays so, only
\* what is held is given back or spent, and on one account
\* (internal/auth/handler.go:158-301, internal/repository/signup_invite.go:62-164).
ImplementsLives == Lives!Spec
=============================================================================
