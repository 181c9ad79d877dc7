---------------------------- MODULE AccessControl ----------------------------
(***************************************************************************)
(* What a request may do: the access tokens that Login signs, the elevated *)
(* tokens of Elevate, the blocklist that Logout fills                      *)
(* (internal/auth/handler.go, internal/auth/jwt.go), the chain             *)
(* Authenticate - RequireRole - RequireElevated in front of /admin         *)
(* (internal/middleware), and behind it the change of a role and the       *)
(* support dump (internal/handlers/admin.go), which needs the consent that *)
(* a member sets (internal/handlers/family_handler.go).                    *)
(*                                                                         *)
(* Every statement is a step, and between two steps of a request others    *)
(* run.  A token is its claims: it carries no id, so two that are signed   *)
(* for one user within a second are one string.  Families have users       *)
(* beyond Users; a family never goes.  The statements of a request have    *)
(* timeouts: none lives longer than ServeMax.                              *)
(***************************************************************************)
EXTENDS Naturals, FiniteSets

CONSTANTS
  Users, Families,
  Procs,                     \* slots for requests in flight
  NoUser, NoFamily, NoProc,
  AccessTTL, ElevTTL,        \* JWT_EXPIRES_HOURS; 15 minutes
  ConsentTTLs,               \* what SetSupportAccess accepts as days
  ServeMax,                  \* what a request takes at most
  MaxTime, MaxRequests       \* bounds of the model

ASSUME ConstantsAssumption ==
  /\ NoUser \notin Users /\ NoFamily \notin Families /\ NoProc \notin Procs
  /\ AccessTTL \in Nat \ {0} /\ ElevTTL \in Nat \ {0} /\ ServeMax \in Nat \ {0}
  /\ ConsentTTLs \subseteq Nat \ {0}
  /\ MaxTime \in Nat /\ MaxRequests \in Nat
  /\ IsFiniteSet(Users) /\ IsFiniteSet(Procs)

VARIABLES
  now,
  role,       \* users.role; "gone" when the row is deleted
  family,     \* users.family_id
  until,      \* families.support_access_until; 0 for NULL
  issued,     \* every token the server has signed
  blocklist,  \* the tokens in the blocklist table
  audited,    \* rows of admin_audit_log for each family
  dumped,     \* history: dumps that have left, for each family
  moved,      \* history: when the user last left a family
  proved,     \* history: when the user last gave the password to Elevate
  out,        \* history: tokens that an answered Logout was given
  dropped,    \* history: tokens whose INSERT into blocklist failed
  raced,      \* history: an administrator went by a stale count or by DELETE /me
  started,    \* requests that have come in
  req         \* the requests in flight

vars == <<now, role, family, until, issued, blocklist, audited, dumped, moved,
          proved, out, dropped, raced, started, req>>

Roles == {"user", "moderator", "admin"}

\* aud = ["admin"] is the mark of an elevated token.
Token == [user : Users, family : Families, aud : {"session", "admin"}, exp : Nat]
NoToken == [user |-> NoUser, family |-> NoFamily, aud |-> "none", exp |-> 0]

\* A request: at names the statement it runs next.  since and late are
\* history: what others changed since this request has read it, and whether
\* a token was accepted after a Logout had answered for it.
Request ==
  [at : {"idle", "login", "role", "elev", "find", "count", "write", "consent",
         "audit", "dump", "set", "who", "sign", "block", "blockElev"},
   kind : {"none", "login", "role", "dump", "set", "elevate", "logout"},
   tok : Token \cup {NoToken}, elev : Token \cup {NoToken},
   target : Users \cup {NoUser}, role : Roles, family : Families \cup {NoFamily},
   start : Nat, since : SUBSET {"role", "admins", "consent"}, late : BOOLEAN]

Idle == [at |-> "idle", kind |-> "none", tok |-> NoToken, elev |-> NoToken,
         target |-> NoUser, role |-> "user", family |-> NoFamily,
         start |-> 0, since |-> {}, late |-> FALSE]

\* The first administrators are made in the database; everyone else has
\* registered.
Init ==
  /\ now = 1
  /\ role \in [Users -> {"user", "admin"}]
  /\ \E u \in Users : role[u] = "admin"
  /\ family \in [Users -> Families]
  /\ until = [f \in Families |-> 0]
  /\ issued = {} /\ blocklist = {}
  /\ audited = [f \in Families |-> 0] /\ dumped = [f \in Families |-> 0]
  /\ moved = [u \in Users |-> 0] /\ proved = [u \in Users |-> 0]
  /\ out = {} /\ dropped = {} /\ raced = FALSE /\ started = 0
  /\ req = [p \in Procs |-> Idle]

Admins == {u \in Users : role[u] = "admin"}

Go(p, stmt) == req' = [req EXCEPT ![p].at = stmt]
Finish(p) == req' = [req EXCEPT ![p] = Idle]

\* p ends, and the requests of Q remember that what they have read has changed.
FinishMarking(p, what, Q) ==
  req' = [q \in Procs |->
    IF q = p THEN Idle
    ELSE IF q \in Q THEN [req[q] EXCEPT !.since = @ \cup {what}] ELSE req[q]]

-----------------------------------------------------------------------------
(* Tokens.                                                                 *)

Sign(u, f, aud, ttl) == [user |-> u, family |-> f, aud |-> aud, exp |-> now + ttl]

\* Login reads the row of the user and compares the password.
LoginRead(p, u) ==
  /\ req[p] = Idle
  /\ started < MaxRequests /\ started' = started + 1
  /\ role[u] # "gone"
  /\ req' = [req EXCEPT ![p] = [Idle EXCEPT !.at = "login", !.kind = "login",
               !.target = u, !.family = family[u], !.start = now]]
  /\ UNCHANGED <<now, role, family, until, issued, blocklist, audited, dumped, moved,
                 proved, out, dropped, raced>>

\* issueTokenPair: an access token for the family that was read.  The refresh
\* token that goes with it needs the row of the user.
LoginSign(p) ==
  LET u == req[p].target IN
  /\ req[p].at = "login"
  /\ issued' = IF role[u] = "gone" THEN issued
               ELSE issued \cup {Sign(u, req[p].family, "session", AccessTTL)}
  /\ Finish(p)
  /\ UNCHANGED <<now, role, family, until, blocklist, audited, dumped, moved, proved,
                 out, dropped, raced, started>>

\* Mutant of Valid: exp is not looked at.
ValidEver(t) == TRUE

Valid(t) == t.exp > now   \* ValidateToken

\* Authenticate, in front of a request of every other kind.  The elevated token
\* is in a header of its own.
FirstStep == [role |-> "role", dump |-> "role", set |-> "set", elevate |-> "who",
              logout |-> "block"]

Authenticate(p, kind, t, e) ==
  /\ req[p] = Idle
  /\ started < MaxRequests /\ started' = started + 1
  /\ kind \notin {"role", "dump", "logout"} => e = NoToken
  /\ Valid(t) /\ t.aud # "admin" /\ t \notin blocklist
  /\ req' = [req EXCEPT ![p] = [Idle EXCEPT !.at = FirstStep[kind], !.kind = kind,
               !.tok = t, !.elev = e, !.start = now, !.late = t \in out]]
  /\ UNCHANGED <<now, role, family, until, issued, blocklist, audited, dumped, moved,
                 proved, out, dropped, raced>>

\* Mutant of ElevateRole: the family is not taken from the row that was read.
ElevateRoleUnread(p) ==
  /\ req[p].at = "who"
  /\ IF role[req[p].tok.user] \in {"moderator", "admin"} THEN Go(p, "sign") ELSE Finish(p)
  /\ UNCHANGED <<now, role, family, until, issued, blocklist, audited, dumped, moved,
                 proved, out, dropped, raced, started>>

\* Elevate: only for who has a role above "user" by now.
ElevateRole(p) ==
  /\ req[p].at = "who"
  /\ IF role[req[p].tok.user] \in {"moderator", "admin"}
     THEN req' = [req EXCEPT ![p].at = "sign", ![p].family = family[req[p].tok.user]]
     ELSE Finish(p)
  /\ UNCHANGED <<now, role, family, until, issued, blocklist, audited, dumped, moved,
                 proved, out, dropped, raced, started>>

\* The password is right: a token of audience admin for a few minutes.
ElevateSign(p) ==
  LET u == req[p].tok.user IN
  /\ req[p].at = "sign"
  /\ issued' = issued \cup {Sign(u, req[p].family, "admin", ElevTTL)}
  /\ proved' = [proved EXCEPT ![u] = now]
  /\ Finish(p)
  /\ UNCHANGED <<now, role, family, until, blocklist, audited, dumped, moved, out,
                 dropped, raced, started>>

\* Logout puts a token that is still valid on the blocklist; the error of that
\* INSERT is dropped.
Block(t) ==
  \/ Valid(t) /\ blocklist' = blocklist \cup {t} /\ UNCHANGED dropped
  \/ Valid(t) /\ dropped' = dropped \cup {t} /\ UNCHANGED blocklist
  \/ ~Valid(t) /\ UNCHANGED <<blocklist, dropped>>

LogoutAccess(p) ==
  /\ req[p].at = "block"
  /\ Block(req[p].tok)
  /\ Go(p, "blockElev")
  /\ UNCHANGED <<now, role, family, until, issued, audited, dumped, moved, proved, out,
                 raced, started>>

\* The elevated token too, if the header is there; then 204.
LogoutElevated(p) ==
  /\ req[p].at = "blockElev"
  /\ IF req[p].elev = NoToken
     THEN out' = out \cup {req[p].tok} /\ UNCHANGED <<blocklist, dropped>>
     ELSE out' = out \cup {req[p].tok, req[p].elev} /\ Block(req[p].elev)
  /\ Finish(p)
  /\ UNCHANGED <<now, role, family, until, issued, audited, dumped, moved, proved, raced, started>>

-----------------------------------------------------------------------------
(* The chain in front of /admin.                                           *)

Needs(kind) == IF kind = "role" THEN {"admin"} ELSE {"moderator", "admin"}

\* RequireRole: the role of now, not the one of a claim.
RequireRole(p) ==
  /\ req[p].at = "role"
  /\ IF role[req[p].tok.user] \in Needs(req[p].kind) THEN Go(p, "elev") ELSE Finish(p)
  /\ UNCHANGED <<now, role, family, until, issued, blocklist, audited, dumped, moved,
                 proved, out, dropped, raced, started>>

\* Mutant of ElevationHolds: any token of the user will do.
ElevationHoldsAnyAud(e, t) == e # NoToken /\ Valid(e) /\ e.user = t.user /\ e \notin blocklist

ElevationHolds(e, t) ==
  /\ e # NoToken /\ Valid(e)
  /\ e.aud = "admin" /\ e.user = t.user
  /\ e \notin blocklist

RequireElevated(p) ==
  LET e == req[p].elev IN
  /\ req[p].at = "elev"
  /\ IF ElevationHolds(e, req[p].tok)
     THEN req' = [req EXCEPT ![p].at = IF req[p].kind = "role" THEN "find" ELSE "consent",
                             ![p].late = @ \/ e \in out]
     ELSE Finish(p)
  /\ UNCHANGED <<now, role, family, until, issued, blocklist, audited, dumped, moved,
                 proved, out, dropped, raced, started>>

-----------------------------------------------------------------------------
(* UpdateUserRole.                                                         *)

\* FindByID of the target: a demotion of an administrator has to count first.
FindTarget(p, u, r) ==
  /\ req[p].at = "find"
  /\ IF role[u] = "gone"
     THEN Finish(p)
     ELSE req' = [req EXCEPT ![p].at = IF role[u] = "admin" /\ r # "admin" THEN "count"
                                                                         ELSE "write",
                             ![p].target = u, ![p].role = r]
  /\ UNCHANGED <<now, role, family, until, issued, blocklist, audited, dumped, moved,
                 proved, out, dropped, raced, started>>

\* Mutant of CountAdmins: the one to be demoted is counted as one who stays.
CountAdminsLeft(p) ==
  /\ req[p].at = "count"
  /\ IF Cardinality(Admins) < 1 THEN Finish(p) ELSE Go(p, "write")
  /\ UNCHANGED <<now, role, family, until, issued, blocklist, audited, dumped, moved,
                 proved, out, dropped, raced, started>>

CountAdmins(p) ==
  /\ req[p].at = "count"
  /\ IF Cardinality(Admins) <= 1 THEN Finish(p) ELSE Go(p, "write")
  /\ UNCHANGED <<now, role, family, until, issued, blocklist, audited, dumped, moved,
                 proved, out, dropped, raced, started>>

\* Requests of u that have passed RequireRole.
PastRole(u) ==
  {q \in Procs : /\ req[q].kind \in {"role", "dump"} /\ req[q].tok.user = u
                 /\ req[q].at # "role"}

\* Role changes that have read their target.
Deciding == {q \in Procs : req[q].at \in {"count", "write"}}

\* The role of u becomes r while p (or nobody's request) ends: requests that have
\* read it, or have read who is an administrator, remember it.
RoleBecomes(p, u, r) ==
  /\ role' = [role EXCEPT ![u] = r]
  /\ req' = [q \in Procs |->
       IF q = p THEN Idle
       ELSE [req[q] EXCEPT !.since = @ \cup (IF q \in PastRole(u) THEN {"role"} ELSE {})
               \cup (IF q \in Deciding /\ (role[u] = "admin") # (r = "admin")
                     THEN {"admins"} ELSE {})]]

\* UpdateRole: an UPDATE by id, of no row when the user is gone.
UpdateRole(p) ==
  LET u == req[p].target  r == req[p].role IN
  /\ req[p].at = "write"
  /\ IF role[u] = "gone"
     THEN UNCHANGED <<role, raced>> /\ Finish(p)
     ELSE /\ RoleBecomes(p, u, r)
          /\ raced' = (raced \/ "admins" \in req[p].since)
  /\ UNCHANGED <<now, family, until, issued, blocklist, audited, dumped, moved, proved,
                 out, dropped, started>>

-----------------------------------------------------------------------------
(* Support access: a member consents, a moderator or administrator dumps.  *)

\* SetSupportAccess, for the family in the token: an end in the future, or none.
SetSupportAccess(p, end) ==
  LET f == req[p].tok.family IN
  /\ req[p].at = "set"
  /\ end = 0 \/ end \in {now + d : d \in ConsentTTLs}
  /\ until' = [until EXCEPT ![f] = end]
  /\ FinishMarking(p, "consent",
       {q \in Procs : req[q].at \in {"audit", "dump"} /\ req[q].family = f})
  /\ UNCHANGED <<now, role, family, issued, blocklist, audited, dumped, moved, proved,
                 out, dropped, raced, started>>

\* Mutant of ReadConsent: a consent that has ended counts.
ReadConsentEver(p, f) ==
  /\ req[p].at = "consent"
  /\ IF until[f] # 0
     THEN req' = [req EXCEPT ![p].at = "audit", ![p].family = f]
     ELSE Finish(p)
  /\ UNCHANGED <<now, role, family, until, issued, blocklist, audited, dumped, moved,
                 proved, out, dropped, raced, started>>

\* FamilyDump reads the family; SupportAccessUntil must be after now.
ReadConsent(p, f) ==
  /\ req[p].at = "consent"
  /\ IF until[f] > now
     THEN req' = [req EXCEPT ![p].at = "audit", ![p].family = f]
     ELSE Finish(p)
  /\ UNCHANGED <<now, role, family, until, issued, blocklist, audited, dumped, moved,
                 proved, out, dropped, raced, started>>

\* The row of the audit, without which no data leaves; its foreign key needs
\* the administrator.
Audit(p) ==
  LET f == req[p].family IN
  /\ req[p].at = "audit"
  /\ IF role[req[p].tok.user] = "gone"
     THEN UNCHANGED audited /\ Finish(p)
     ELSE audited' = [audited EXCEPT ![f] = @ + 1] /\ Go(p, "dump")
  /\ UNCHANGED <<now, role, family, until, issued, blocklist, dumped, moved, proved, out,
                 dropped, raced, started>>

\* WriteFamilyDump: the tables of the family as one snapshot shows them.
Dump(p) ==
  /\ req[p].at = "dump"
  /\ dumped' = [dumped EXCEPT ![req[p].family] = @ + 1]
  /\ Finish(p)
  /\ UNCHANGED <<now, role, family, until, issued, blocklist, audited, moved, proved, out,
                 dropped, raced, started>>

-----------------------------------------------------------------------------
(* What others do to users.                                                *)

\* DELETE /me, at its commit.  It asks for no other administrator.
Erase(u) ==
  /\ started < MaxRequests /\ started' = started + 1
  /\ role[u] # "gone"
  /\ RoleBecomes(NoProc, u, "gone")
  /\ raced' = (raced \/ role[u] = "admin")
  /\ moved' = [moved EXCEPT ![u] = now]
  /\ UNCHANGED <<now, family, until, issued, blocklist, audited, dumped, proved, out,
                 dropped>>

\* Join takes u to another family; tokens keep the old one.
Move(u, f) ==
  /\ started < MaxRequests /\ started' = started + 1
  /\ role[u] # "gone" /\ f # family[u] /\ moved[u] = 0
  /\ family' = [family EXCEPT ![u] = f]
  /\ moved' = [moved EXCEPT ![u] = now]
  /\ UNCHANGED <<now, role, until, issued, blocklist, audited, dumped, proved, out,
                 dropped, raced, req>>

\* A statement fails or the server stops, with something already written.  (A
\* request that ends before it has written anything is one that never came in.)
Fail(p) ==
  /\ req[p].at \in {"blockElev", "dump"}
  /\ Finish(p)
  /\ UNCHANGED <<now, role, family, until, issued, blocklist, audited, dumped, moved,
                 proved, out, dropped, raced, started>>

Tick ==
  /\ now < MaxTime
  /\ \A p \in Procs : req[p] # Idle => now < req[p].start + ServeMax
  /\ now' = now + 1
  /\ UNCHANGED <<role, family, until, issued, blocklist, audited, dumped, moved, proved,
                 out, dropped, raced, started, req>>

Next ==
  \/ \E p \in Procs, u \in Users : LoginRead(p, u)
  \/ \E p \in Procs : LoginSign(p)
  \/ \E p \in Procs, kind \in DOMAIN FirstStep, t \in issued, e \in issued \cup {NoToken} :
       Authenticate(p, kind, t, e)
  \/ \E p \in Procs : ElevateRole(p) \/ ElevateSign(p)
  \/ \E p \in Procs : LogoutAccess(p) \/ LogoutElevated(p)
  \/ \E p \in Procs : RequireRole(p) \/ RequireElevated(p)
  \/ \E p \in Procs, u \in Users, r \in Roles : FindTarget(p, u, r)
  \/ \E p \in Procs : CountAdmins(p) \/ UpdateRole(p)
  \/ \E p \in Procs, end \in {0} \cup {now + d : d \in ConsentTTLs} : SetSupportAccess(p, end)
  \/ \E p \in Procs, f \in Families : ReadConsent(p, f)
  \/ \E p \in Procs : Audit(p) \/ Dump(p) \/ Fail(p)
  \/ \E u \in Users : Erase(u)
  \/ \E u \in Users, f \in Families : Move(u, f)
  \/ Tick

Spec == Init /\ [][Next]_vars

-----------------------------------------------------------------------------
(* Properties.                                                             *)

\* Tables, tokens, requests and history are well typed.
TypeOK ==
  /\ now \in Nat
  /\ role \in [Users -> Roles \cup {"gone"}]
  /\ family \in [Users -> Families]
  /\ until \in [Families -> Nat]
  /\ issued \subseteq Token
  /\ blocklist \subseteq issued /\ dropped \subseteq issued /\ out \subseteq issued
  /\ audited \in [Families -> Nat] /\ dumped \in [Families -> Nat]
  /\ moved \in [Users -> Nat] /\ proved \in [Users -> Nat]
  /\ raced \in BOOLEAN /\ started \in Nat
  /\ req \in [Procs -> Request]

\* The requests behind the chain of /admin.
Acting == {p \in Procs : req[p].at \in {"find", "count", "write", "consent", "audit", "dump"}}

\* Whoever acts behind the chain has the role that the route asks for, or has
\* lost it to another request while this one was running: roles are read at
\* every request, never taken from a token (internal/middleware/admin.go:31-47).
ActsInRole ==
  \A p \in Acting : \/ role[req[p].tok.user] \in Needs(req[p].kind)
                    \/ "role" \in req[p].since

\* Whoever acts behind the chain has given the password to Elevate within the
\* life of an elevated token before the request came in, or since: neither an
\* access token nor the token of someone else stands in for it
\* (internal/middleware/admin.go:75-107, internal/auth/handler.go:589-606).
ProvedRecently ==
  \A p \in Acting : /\ proved[req[p].tok.user] > 0
                    /\ req[p].start < proved[req[p].tok.user] + ElevTTL

\* The chain in front of /admin lets nobody act without the role of now and the
\* password of a while ago (internal/middleware/admin.go:22-112).
ActsAsProven == ActsInRole /\ ProvedRecently

\* UpdateUserRole never leaves the system without an administrator on its own:
\* if there is none, a demotion was decided on a count that another change had
\* overtaken, or an administrator has deleted the account
\* (internal/handlers/admin.go:211-223).
LastAdminStays == Admins = {} => raced

\* A dump that has left, and one that is leaving, has its own row in the audit:
\* no data without a record (internal/handlers/admin.go:491-502).
DumpsAudited ==
  \A f \in Families :
    dumped[f] + Cardinality({p \in Procs : req[p].at = "dump" /\ req[p].family = f})
      <= audited[f]

\* Data leaves under the consent that was in force when the request came in,
\* unless the family has set it anew since the request read it
\* (internal/handlers/admin.go:480-502).
DumpsConsented ==
  \A p \in Procs : req[p].at \in {"audit", "dump"} =>
    until[req[p].family] > req[p].start \/ "consent" \in req[p].since

\* No data of a family leaves without a row in the audit and its consent,
\* whatever changes between the three statements of FamilyDump
\* (internal/handlers/admin.go:463-507).
DumpsCovered == DumpsAudited /\ DumpsConsented

\* A request that acts for a family which is not the one of its user, or for a
\* user who is gone, came in less than the life of an access token after the
\* user left, up to the time that a Login takes (internal/auth/jwt.go:55-60: the
\* claims spare a look at the database).
StaleTokensDie ==
  \A p \in Procs :
    LET t == req[p].tok IN
    t # NoToken /\ (t.family # family[t.user] \/ role[t.user] = "gone")
      => req[p].start < moved[t.user] + AccessTTL + ServeMax

\* A token that an answered Logout was given is accepted again only if the
\* INSERT into the blocklist had failed (internal/auth/handler.go:425-444,
\* internal/middleware/auth.go:54-61).
LoggedOutStaysOut ==
  \A p \in Procs : req[p].late => req[p].tok \in dropped \/ req[p].elev \in dropped

\* What a token allows comes to an end: by its lifetime when its user has left
\* the family or is gone, at once when a Logout has put it on the blocklist
\* (internal/auth/jwt.go:55-60, internal/middleware/auth.go:54-61).
TokensEnd == StaleTokensDie /\ LoggedOutStaysOut
=============================================================================
