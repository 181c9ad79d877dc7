------------------------- MODULE AccessControlProofs -------------------------
(***************************************************************************)
(* Proofs about what stands before the handlers: AccessControl, for any    *)
(* number of users, families and requests in flight, and any lifetimes;    *)
(* and, in the last section, RateLimiter, for any limit and window.        *)
(***************************************************************************)
EXTENDS AccessControl, RateLimiter, FiniteSetTheorems, TLAPS

-----------------------------------------------------------------------------
(* Types.                                                                  *)

Behind == {"find", "count", "write", "consent", "audit", "dump"}

\* What a request holds at each statement.
WellFormed(r) ==
  /\ r.at = "idle" => r = Idle
  /\ r.at = "login" => r.tok = NoToken /\ r.target \in Users /\ r.family \in Families
  /\ r.at \notin {"idle", "login"} => r.tok \in issued
  /\ r.elev \in issued \cup {NoToken}
  /\ r.at \in {"role", "elev"} \cup Behind => r.kind \in {"role", "dump"}
  /\ r.at \in {"count", "write"} => r.target \in Users
  /\ r.at \in {"audit", "dump", "sign"} => r.family \in Families

TypeInv == TypeOK /\ \A p \in Procs : WellFormed(req[p])


LEMMA Constants ==
  /\ NoToken \notin Token /\ Idle \in Request
  /\ AccessTTL \in Nat /\ ElevTTL \in Nat /\ ServeMax \in Nat
  /\ IsFiniteSet(Users) /\ IsFiniteSet(Procs)
  BY ConstantsAssumption DEF NoToken, Token, Idle, Request, Roles

\* A request of someone else keeps what it holds; at most it remembers that
\* something has changed.
Kept(q) ==
  /\ req'[q] \in Request
  /\ req'[q].at = req[q].at /\ req'[q].kind = req[q].kind
  /\ req'[q].tok = req[q].tok /\ req'[q].elev = req[q].elev
  /\ req'[q].target = req[q].target /\ req'[q].role = req[q].role
  /\ req'[q].family = req[q].family /\ req'[q].start = req[q].start
  /\ req'[q].late = req[q].late
  /\ req[q].since \subseteq req'[q].since
  /\ req[q] = Idle => req'[q] = Idle

OthersKept(p) == \A q \in Procs : q # p => Kept(q)

LEMMA OneSlot ==
  ASSUME TypeOK, NEW p \in Procs, NEW r \in Request, req' = [req EXCEPT ![p] = r]
  PROVE  req' \in [Procs -> Request] /\ req'[p] = r /\ OthersKept(p)
  BY DEF TypeOK, OthersKept, Kept

LEMMA FinishShape ==
  ASSUME TypeOK, NEW p \in Procs, Finish(p)
  PROVE  req' \in [Procs -> Request] /\ req'[p] = Idle /\ OthersKept(p)
  BY OneSlot, Constants DEF Finish

LEMMA GoShape ==
  ASSUME TypeOK, NEW p \in Procs,
         NEW stmt \in {"elev", "write", "dump", "blockElev", "sign"}, Go(p, stmt)
  PROVE  /\ req' \in [Procs -> Request] /\ OthersKept(p)
         /\ req'[p] = [req[p] EXCEPT !.at = stmt]
<1>1. [req[p] EXCEPT !.at = stmt] \in Request
  BY DEF TypeOK, Request
<1>2. req' = [req EXCEPT ![p] = [req[p] EXCEPT !.at = stmt]]
  BY DEF Go
<1>3. QED
  BY <1>1, <1>2, OneSlot

\* A request that remembers more is still the request it was.
LEMMA Remembers ==
  ASSUME TypeOK, NEW q \in Procs, NEW S \in SUBSET {"role", "admins", "consent"},
         req'[q] = [req[q] EXCEPT !.since = S], req[q].since \subseteq S,
         req[q] = Idle => S = {}
  PROVE  Kept(q) /\ req'[q].since = S
<1>1. \A r \in Request : [r EXCEPT !.since = S] \in Request /\ [r EXCEPT !.since = S].since = S
                         /\ (S = r.since => [r EXCEPT !.since = S] = r)
  BY DEF Request
<1>2. req[q] \in Request
  BY DEF TypeOK
<1>3. req[q] = Idle => req'[q] = Idle
  BY <1>1, <1>2 DEF Idle
<1>4. QED
  BY <1>1, <1>2, <1>3 DEF Kept, Request

LEMMA MarkingShape ==
  ASSUME TypeOK, NEW p \in Procs, NEW Q \in SUBSET Procs, FinishMarking(p, "consent", Q),
         \A q \in Q : req[q].at # "idle"
  PROVE  /\ req' \in [Procs -> Request] /\ req'[p] = Idle /\ OthersKept(p)
         /\ \A q \in Q : q # p => "consent" \in req'[q].since
<1>1. ASSUME NEW q \in Procs, q # p
      PROVE  Kept(q) /\ (q \in Q => "consent" \in req'[q].since)
  <2>1. CASE q \in Q
    <3> DEFINE S == req[q].since \cup {"consent"}
    <3>1. req'[q] = [req[q] EXCEPT !.since = S]
      BY <1>1, <2>1 DEF FinishMarking
    <3>2. S \in SUBSET {"role", "admins", "consent"} /\ req[q] # Idle
      BY <2>1 DEF TypeOK, Request, Idle
    <3>3. Kept(q) /\ req'[q].since = S
      BY <3>1, <3>2, Remembers
    <3>4. QED
      BY <3>3
  <2>2. CASE q \notin Q
    BY <1>1, <2>2 DEF FinishMarking, Kept, TypeOK
  <2>3. QED
    BY <2>1, <2>2
<1>2. req'[p] = Idle /\ req' = [q \in Procs |-> req'[q]]
  BY DEF FinishMarking
<1>3. req' \in [Procs -> Request]
  BY <1>1, <1>2, Constants DEF Kept
<1>4. QED
  BY <1>1, <1>2, <1>3 DEF OthersKept

LEMMA RoleShape ==
  ASSUME TypeOK, NEW p \in Procs \cup {NoProc}, NEW u \in Users, NEW r, RoleBecomes(p, u, r)
  PROVE  /\ req' \in [Procs -> Request] /\ OthersKept(p)
         /\ p \in Procs => req'[p] = Idle
         /\ \A q \in PastRole(u) : q # p => "role" \in req'[q].since
         /\ \A q \in Deciding : q # p /\ (role[u] = "admin") # (r = "admin")
                                => "admins" \in req'[q].since
<1> DEFINE Mark(q) == req[q].since
               \cup (IF q \in PastRole(u) THEN {"role"} ELSE {})
               \cup (IF q \in Deciding /\ (role[u] = "admin") # (r = "admin")
                     THEN {"admins"} ELSE {})
<1>1. ASSUME NEW q \in Procs, q # p
      PROVE  Kept(q) /\ req'[q].since = Mark(q)
  <2>1. req'[q] = [req[q] EXCEPT !.since = Mark(q)]
    BY <1>1 DEF RoleBecomes
  <2>2. Mark(q) \in SUBSET {"role", "admins", "consent"} /\ req[q].since \subseteq Mark(q)
    BY DEF TypeOK, Request
  <2>3. req[q] = Idle => Mark(q) = {}
    BY DEF PastRole, Deciding, Idle
  <2> HIDE DEF Mark
  <2>4. QED
    BY <2>1, <2>2, <2>3, Remembers
<1>2. (p \in Procs => req'[p] = Idle) /\ req' = [q \in Procs |-> req'[q]]
  BY DEF RoleBecomes
<1>3. req' \in [Procs -> Request]
  BY <1>1, <1>2, Constants DEF Kept
<1>4. PastRole(u) \subseteq Procs /\ Deciding \subseteq Procs
  BY DEF PastRole, Deciding
<1>5. QED
  BY <1>1, <1>2, <1>3, <1>4 DEF OthersKept

Tables ==
  /\ now \in Nat
  /\ role \in [Users -> Roles \cup {"gone"}]
  /\ family \in [Users -> Families]
  /\ until \in [Families -> Nat]
  /\ issued \subseteq Token
  /\ blocklist \subseteq issued /\ dropped \subseteq issued /\ out \subseteq issued
  /\ audited \in [Families -> Nat] /\ dumped \in [Families -> Nat]
  /\ moved \in [Users -> Nat] /\ proved \in [Users -> Nat]
  /\ raced \in BOOLEAN /\ started \in Nat

LEMMA TypeStep ==
  ASSUME TypeInv, Tables', issued \subseteq issued', req' \in [Procs -> Request],
         NEW p, OthersKept(p), p \in Procs => WellFormed(req[p])'
  PROVE  TypeInv'
<1>1. ASSUME NEW q \in Procs, q # p
      PROVE  WellFormed(req[q])'
  BY <1>1 DEF TypeInv, WellFormed, OthersKept, Kept, Idle
<1>2. QED
  BY <1>1 DEF TypeInv, TypeOK, Tables

\* The request of p has come to its end.
LEMMA EndStep ==
  ASSUME TypeInv, Tables', issued \subseteq issued', req' \in [Procs -> Request],
         NEW p \in Procs, OthersKept(p), req'[p] = Idle
  PROVE  TypeInv'
<1>1. Idle.at = "idle" /\ Idle.elev = NoToken
  BY DEF Idle
<1>2. WellFormed(req[p])'
  BY <1>1 DEF WellFormed, Behind
<1>3. QED
  BY <1>2, TypeStep

\* The token of a request that is past Authenticate.
LEMMA TokenTyped ==
  ASSUME TypeInv, NEW p \in Procs, req[p].at \notin {"idle", "login"}
  PROVE  /\ req[p].tok \in issued /\ req[p].tok \in Token /\ req[p].tok # NoToken
         /\ req[p].tok.user \in Users /\ req[p].tok.family \in Families
         /\ req[p].tok.exp \in Nat
  BY Constants DEF TypeInv, TypeOK, WellFormed, Token

-----------------------------------------------------------------------------
(* What each statement makes of the request that runs it.                  *)

\* The request of p goes on, with the token that it came with.
Onward(p, stmts, late) ==
  /\ req'[p].at \in stmts /\ req'[p].late = late
  /\ req'[p].kind = req[p].kind /\ req'[p].start = req[p].start
  /\ req'[p].tok = req[p].tok /\ req'[p].elev = req[p].elev
  /\ req'[p].since = req[p].since

Shaped(p) == req' \in [Procs -> Request] /\ OthersKept(p)

Ends(p) == Shaped(p) /\ req'[p] = Idle

LEMMA GoesOn ==
  ASSUME TypeOK, NEW p \in Procs,
         NEW stmt \in {"elev", "write", "dump", "blockElev", "sign"}, Go(p, stmt)
  PROVE  /\ Shaped(p) /\ Onward(p, {stmt}, req[p].late)
         /\ req'[p].target = req[p].target /\ req'[p].role = req[p].role
         /\ req'[p].family = req[p].family
<1>1. Shaped(p) /\ req'[p] = [req[p] EXCEPT !.at = stmt]
  BY GoShape DEF Shaped
<1>2. req[p] \in Request
  BY DEF TypeOK
<1>3. QED
  BY <1>1, <1>2 DEF Onward, Request

LEMMA FinishEnds ==
  ASSUME TypeOK, NEW p \in Procs, Finish(p)
  PROVE  Ends(p)
  BY FinishShape DEF Ends, Shaped

LEMMA LoginReadShape ==
  ASSUME TypeOK, NEW p \in Procs, NEW u \in Users, LoginRead(p, u)
  PROVE  /\ Shaped(p) /\ req'[p].at = "login" /\ req'[p].start = now
         /\ req'[p].target = u /\ req'[p].family = family[u]
         /\ req'[p].tok = NoToken /\ req'[p].elev = NoToken /\ ~req'[p].late
<1> DEFINE r == [Idle EXCEPT !.at = "login", !.kind = "login",
                   !.target = u, !.family = family[u], !.start = now]
<1>1. r \in Request
  BY DEF Idle, Request, TypeOK, Roles
<1>2. req' = [req EXCEPT ![p] = r]
  BY DEF LoginRead
<1>3. /\ r.at = "login" /\ r.target = u /\ r.family = family[u] /\ r.start = now
      /\ r.tok = NoToken /\ r.elev = NoToken /\ ~r.late
  BY DEF Idle
<1> HIDE DEF r
<1>4. QED
  BY <1>1, <1>2, <1>3, OneSlot DEF Shaped

LEMMA AuthenticateShape ==
  ASSUME TypeInv, NEW p \in Procs, NEW kind \in DOMAIN FirstStep, NEW t \in issued,
         NEW e \in issued \cup {NoToken}, Authenticate(p, kind, t, e)
  PROVE  /\ Shaped(p) /\ req'[p].at \in {"role", "set", "who", "block"}
         /\ req'[p].at = "role" => req'[p].kind \in {"role", "dump"}
         /\ req'[p].tok = t /\ req'[p].elev = e /\ req'[p].start = now
         /\ req'[p].late = (t \in out)
<1> DEFINE r == [Idle EXCEPT !.at = FirstStep[kind], !.kind = kind,
                   !.tok = t, !.elev = e, !.start = now, !.late = t \in out]
<1>1. /\ kind \in {"role", "dump", "set", "elevate", "logout"}
      /\ FirstStep[kind] \in {"role", "set", "who", "block"}
      /\ FirstStep[kind] = "role" => kind \in {"role", "dump"}
  BY DEF FirstStep
<1>2. t \in Token /\ e \in Token \cup {NoToken} /\ now \in Nat /\ (t \in out) \in BOOLEAN
  BY DEF TypeInv, TypeOK
<1>3. r \in Request
  BY <1>1, <1>2 DEF Idle, Request, Roles
<1>4. /\ r.at = FirstStep[kind] /\ r.kind = kind /\ r.tok = t /\ r.elev = e /\ r.start = now
      /\ r.late = (t \in out)
  BY DEF Idle
<1>5. req' = [req EXCEPT ![p] = r]
  BY DEF Authenticate
<1> HIDE DEF r
<1>6. Shaped(p) /\ req'[p] = r
  BY <1>3, <1>5, OneSlot DEF TypeInv, Shaped
<1>7. QED
  BY <1>1, <1>4, <1>6

LEMMA ElevateRoleShape ==
  ASSUME TypeInv, NEW p \in Procs, ElevateRole(p)
  PROVE  \/ Ends(p)
         \/ /\ Shaped(p) /\ Onward(p, {"sign"}, req[p].late)
            /\ req'[p].family \in Families
<1>0. TypeOK
  BY DEF TypeInv
<1>1. CASE role[req[p].tok.user] \in {"moderator", "admin"}
  <2> DEFINE a == [req[p] EXCEPT !.at = "sign"]
             r == [a EXCEPT !.family = family[req[p].tok.user]]
  <2>1. family[req[p].tok.user] \in Families /\ req[p] \in Request
    BY <1>0, TokenTyped DEF ElevateRole, TypeOK
  <2>2. a \in Request
    BY <2>1 DEF Request
  <2>3. r \in Request
    BY <2>1, <2>2 DEF Request
  <2>4. /\ r.at = "sign" /\ r.family \in Families /\ r.tok = req[p].tok /\ r.elev = req[p].elev
        /\ r.kind = req[p].kind /\ r.start = req[p].start /\ r.since = req[p].since
        /\ r.late = req[p].late
    BY <2>1 DEF Request
  <2>5. req' = [req EXCEPT ![p] = r]
    BY <1>1, <2>1 DEF ElevateRole
  <2> HIDE DEF r
  <2>6. QED
    BY <1>0, <2>3, <2>4, <2>5, OneSlot DEF Shaped, Onward
<1>2. CASE role[req[p].tok.user] \notin {"moderator", "admin"}
  BY <1>0, <1>2, FinishEnds DEF ElevateRole
<1>3. QED
  BY <1>1, <1>2

LEMMA RequireRoleShape ==
  ASSUME TypeOK, NEW p \in Procs, RequireRole(p)
  PROVE  \/ Ends(p)
         \/ /\ Shaped(p) /\ Onward(p, {"elev"}, req[p].late)
            /\ role[req[p].tok.user] \in Needs(req[p].kind)
  BY GoesOn, FinishEnds DEF RequireRole

LEMMA RequireElevatedShape ==
  ASSUME TypeOK, NEW p \in Procs, RequireElevated(p)
  PROVE  \/ Ends(p)
         \/ /\ Shaped(p)
            /\ Onward(p, {"find", "consent"}, req[p].late \/ req[p].elev \in out)
            /\ ElevationHolds(req[p].elev, req[p].tok)
<1>1. CASE ElevationHolds(req[p].elev, req[p].tok)
  <2> DEFINE stmt == IF req[p].kind = "role" THEN "find" ELSE "consent"
             l == req[p].late \/ req[p].elev \in out
             a == [req[p] EXCEPT !.at = stmt]
             r == [a EXCEPT !.late = l]
  <2>1. req[p] \in Request /\ stmt \in {"find", "consent"} /\ l \in BOOLEAN
    BY DEF TypeOK
  <2>2. a \in Request
    BY <2>1 DEF Request
  <2>3. r \in Request
    <3> HIDE DEF l, a
    <3>1. QED
      BY <2>1, <2>2 DEF Request
  <2>4. /\ r.at = stmt /\ r.tok = req[p].tok /\ r.elev = req[p].elev
        /\ r.kind = req[p].kind /\ r.start = req[p].start /\ r.since = req[p].since
        /\ r.late = l
    BY <2>1 DEF Request
  <2>5. req' = [req EXCEPT ![p] = r]
    BY <1>1, <2>1 DEF RequireElevated
  <2> HIDE DEF r, stmt
  <2>6. QED
    BY <1>1, <2>1, <2>3, <2>4, <2>5, OneSlot DEF Shaped, Onward
<1>2. CASE ~ElevationHolds(req[p].elev, req[p].tok)
  BY <1>2, FinishEnds DEF RequireElevated
<1>3. QED
  BY <1>1, <1>2

LEMMA FindTargetShape ==
  ASSUME TypeOK, NEW p \in Procs, NEW u \in Users, NEW r0 \in Roles, FindTarget(p, u, r0)
  PROVE  \/ Ends(p)
         \/ /\ Shaped(p) /\ Onward(p, {"count", "write"}, req[p].late)
            /\ req'[p].target = u /\ req'[p].role = r0
            /\ req'[p].at = "write" => role[u] # "admin" \/ r0 = "admin"
<1>1. CASE role[u] # "gone"
  <2> DEFINE stmt == IF role[u] = "admin" /\ r0 # "admin" THEN "count" ELSE "write"
             a == [req[p] EXCEPT !.at = stmt]
             b == [a EXCEPT !.target = u]
             r == [b EXCEPT !.role = r0]
  <2>1. /\ req[p] \in Request /\ stmt \in {"count", "write"}
        /\ stmt = "write" => role[u] # "admin" \/ r0 = "admin"
    BY DEF TypeOK
  <2>2. a \in Request
    BY <2>1 DEF Request
  <2>3. b \in Request
    BY <2>2 DEF Request
  <2>4. r \in Request
    BY <2>3 DEF Request
  <2>5. /\ r.at = stmt /\ r.tok = req[p].tok /\ r.elev = req[p].elev
        /\ r.kind = req[p].kind /\ r.start = req[p].start /\ r.since = req[p].since
        /\ r.late = req[p].late /\ r.target = u /\ r.role = r0
    BY <2>1 DEF Request
  <2>6. req' = [req EXCEPT ![p] = r]
    BY <1>1, <2>1 DEF FindTarget
  <2> HIDE DEF r, stmt
  <2>7. QED
    BY <2>1, <2>4, <2>5, <2>6, OneSlot DEF Shaped, Onward
<1>2. CASE role[u] = "gone"
  BY <1>2, FinishEnds DEF FindTarget
<1>3. QED
  BY <1>1, <1>2

LEMMA CountAdminsShape ==
  ASSUME TypeOK, NEW p \in Procs, CountAdmins(p)
  PROVE  \/ Ends(p)
         \/ /\ Shaped(p) /\ Onward(p, {"write"}, req[p].late)
            /\ req'[p].target = req[p].target /\ ~(Cardinality(Admins) <= 1)
  BY GoesOn, FinishEnds DEF CountAdmins

LEMMA ReadConsentShape ==
  ASSUME TypeOK, NEW p \in Procs, NEW f \in Families, ReadConsent(p, f)
  PROVE  \/ Ends(p)
         \/ /\ Shaped(p) /\ Onward(p, {"audit"}, req[p].late)
            /\ req'[p].family = f /\ until[f] > now
<1>1. CASE until[f] > now
  <2> DEFINE a == [req[p] EXCEPT !.at = "audit"]
             r == [a EXCEPT !.family = f]
  <2>1. req[p] \in Request
    BY DEF TypeOK
  <2>2. a \in Request
    BY <2>1 DEF Request
  <2>3. r \in Request
    BY <2>2 DEF Request
  <2>4. /\ r.at = "audit" /\ r.tok = req[p].tok /\ r.elev = req[p].elev
        /\ r.kind = req[p].kind /\ r.start = req[p].start /\ r.since = req[p].since
        /\ r.late = req[p].late /\ r.family = f
    BY <2>1 DEF Request
  <2>5. req' = [req EXCEPT ![p] = r]
    BY <1>1, <2>1 DEF ReadConsent
  <2> HIDE DEF r
  <2>6. QED
    BY <1>1, <2>3, <2>4, <2>5, OneSlot DEF Shaped, Onward
<1>2. CASE ~(until[f] > now)
  BY <1>2, FinishEnds DEF ReadConsent
<1>3. QED
  BY <1>1, <1>2

LEMMA AuditShape ==
  ASSUME TypeOK, NEW p \in Procs, Audit(p)
  PROVE  \/ Ends(p) /\ UNCHANGED audited
         \/ /\ Shaped(p) /\ Onward(p, {"dump"}, req[p].late)
            /\ req'[p].family = req[p].family
            /\ audited' = [audited EXCEPT ![req[p].family] = @ + 1]
  BY GoesOn, FinishEnds DEF Audit

LEMMA SetSupportAccessShape ==
  ASSUME TypeOK, NEW p \in Procs, NEW end, SetSupportAccess(p, end)
  PROVE  /\ Ends(p)
         /\ \A q \in Procs : /\ q # p /\ req[q].at \in {"audit", "dump"}
                             /\ req[q].family = req[p].tok.family
                             => "consent" \in req'[q].since
<1> DEFINE Q == {q \in Procs : req[q].at \in {"audit", "dump"}
                               /\ req[q].family = req[p].tok.family}
<1>1. /\ Q \in SUBSET Procs /\ FinishMarking(p, "consent", Q)
      /\ \A q \in Q : req[q].at # "idle"
  BY DEF SetSupportAccess
<1>2. /\ req' \in [Procs -> Request] /\ req'[p] = Idle /\ OthersKept(p)
      /\ \A q \in Q : q # p => "consent" \in req'[q].since
  <2> HIDE DEF Q
  <2>1. QED
    BY <1>1, MarkingShape
<1>3. QED
  BY <1>2 DEF Ends, Shaped

LEMMA UpdateRoleShape ==
  ASSUME TypeInv, NEW p \in Procs, UpdateRole(p)
  PROVE  /\ Ends(p) /\ req[p].target \in Users /\ req[p].role \in Roles
         /\ \/ UNCHANGED <<role, raced>>
            \/ /\ RoleBecomes(p, req[p].target, req[p].role)
               /\ raced' = (raced \/ "admins" \in req[p].since)
<1>1. req[p].target \in Users /\ req[p].role \in Roles /\ TypeOK
  BY DEF UpdateRole, TypeInv, WellFormed, TypeOK, Request
<1>2. CASE role[req[p].target] = "gone"
  BY <1>1, <1>2, FinishEnds DEF UpdateRole
<1>3. CASE role[req[p].target] # "gone"
  <2>1. RoleBecomes(p, req[p].target, req[p].role) /\ p \in Procs \cup {NoProc}
    BY <1>3 DEF UpdateRole
  <2>2. QED
    BY <1>1, <1>3, <2>1, RoleShape DEF Ends, Shaped, UpdateRole
<1>4. QED
  BY <1>2, <1>3

LEMMA EraseShape ==
  ASSUME TypeOK, NEW u \in Users, Erase(u)
  PROVE  /\ req' \in [Procs -> Request] /\ \A q \in Procs : Kept(q)
         /\ RoleBecomes(NoProc, u, "gone")
<1>1. RoleBecomes(NoProc, u, "gone") /\ NoProc \in Procs \cup {NoProc}
  BY DEF Erase
<1>2. QED
  BY <1>1, RoleShape, ConstantsAssumption DEF OthersKept

LEMMA TypesStep == TypeInv /\ [Next]_vars => TypeInv'
<1> SUFFICES ASSUME TypeInv, [Next]_vars PROVE TypeInv'
  OBVIOUS
<1> USE Constants
<1>0. TypeOK /\ Tables
  BY DEF TypeInv, TypeOK, Tables
<1>a. ASSUME NEW p \in Procs, Tables', issued \subseteq issued', Ends(p)
      PROVE  TypeInv'
  BY <1>a, EndStep DEF Ends, Shaped
<1>b. ASSUME NEW p \in Procs, Tables', issued' = issued, Shaped(p), WellFormed(req[p])'
      PROVE  TypeInv'
  BY <1>b, TypeStep DEF Shaped
<1>1. ASSUME NEW p \in Procs, NEW u \in Users, LoginRead(p, u)
      PROVE  TypeInv'
  <2>1. Tables' /\ issued' = issued
    BY <1>0, <1>1 DEF LoginRead, Tables
  <2>2. WellFormed(req[p])' /\ Shaped(p)
    BY <1>0, <1>1, LoginReadShape DEF WellFormed, Tables, Behind
  <2>3. QED
    BY <1>b, <2>1, <2>2
<1>2. ASSUME NEW p \in Procs, LoginSign(p)
      PROVE  TypeInv'
  <2>1. req[p].target \in Users /\ req[p].family \in Families
    BY <1>2 DEF LoginSign, TypeInv, WellFormed
  <2>2. Sign(req[p].target, req[p].family, "session", AccessTTL) \in Token
    BY <1>0, <2>1 DEF Sign, Token, Tables
  <2>3. Tables' /\ issued \subseteq issued'
    BY <1>0, <1>2, <2>2 DEF LoginSign, Tables
  <2>4. QED
    BY <1>0, <1>2, <1>a, <2>3, FinishEnds DEF LoginSign
<1>3. ASSUME NEW p \in Procs, NEW kind \in DOMAIN FirstStep, NEW t \in issued,
             NEW e \in issued \cup {NoToken}, Authenticate(p, kind, t, e)
      PROVE  TypeInv'
  <2>1. Tables' /\ issued' = issued
    BY <1>0, <1>3 DEF Authenticate, Tables
  <2>2. WellFormed(req[p])' /\ Shaped(p)
    BY <1>3, <2>1, AuthenticateShape DEF WellFormed, Behind
  <2>3. QED
    BY <1>b, <2>1, <2>2
<1>4. ASSUME NEW p \in Procs, ElevateRole(p)
      PROVE  TypeInv'
  <2>1. Tables' /\ issued' = issued
    BY <1>0, <1>4 DEF ElevateRole, Tables
  <2>2. CASE Shaped(p) /\ Onward(p, {"sign"}, req[p].late) /\ req'[p].family \in Families
    <3>1. WellFormed(req[p])'
      BY <1>4, <2>1, <2>2 DEF Onward, ElevateRole, TypeInv, WellFormed, Behind
    <3>2. QED
      BY <1>b, <2>1, <2>2, <3>1
  <2>3. QED
    BY <1>4, <1>a, <2>1, <2>2, ElevateRoleShape
<1>5. ASSUME NEW p \in Procs, ElevateSign(p)
      PROVE  TypeInv'
  <2>1. req[p].tok.user \in Users /\ req[p].family \in Families
    BY <1>5, TokenTyped DEF ElevateSign, TypeInv, WellFormed
  <2>2. Sign(req[p].tok.user, req[p].family, "admin", ElevTTL) \in Token
    BY <1>0, <2>1 DEF Sign, Token, Tables
  <2>3. Tables' /\ issued \subseteq issued'
    BY <1>0, <1>5, <2>2 DEF ElevateSign, Tables
  <2>4. QED
    BY <1>0, <1>5, <1>a, <2>3, FinishEnds DEF ElevateSign
<1>6. ASSUME NEW p \in Procs, LogoutAccess(p)
      PROVE  TypeInv'
  <2>1. Tables' /\ issued' = issued
    BY <1>0, <1>6, TokenTyped DEF LogoutAccess, Block, Tables
  <2>2. Shaped(p) /\ Onward(p, {"blockElev"}, req[p].late)
    BY <1>0, <1>6, GoesOn DEF LogoutAccess
  <2>3. WellFormed(req[p])'
    BY <1>6, <2>1, <2>2 DEF Onward, LogoutAccess, TypeInv, WellFormed, Behind
  <2>4. QED
    BY <1>b, <2>1, <2>2, <2>3
<1>7. ASSUME NEW p \in Procs, LogoutElevated(p)
      PROVE  TypeInv'
  <2>1. req[p].tok \in issued /\ req[p].elev \in issued \cup {NoToken}
    BY <1>7, TokenTyped DEF LogoutElevated, TypeInv, WellFormed
  <2>2. Tables' /\ issued' = issued
    BY <1>0, <1>7, <2>1 DEF LogoutElevated, Block, Tables
  <2>3. QED
    BY <1>0, <1>7, <1>a, <2>2, FinishEnds DEF LogoutElevated
<1>8. ASSUME NEW p \in Procs, RequireRole(p)
      PROVE  TypeInv'
  <2>1. Tables' /\ issued' = issued
    BY <1>0, <1>8 DEF RequireRole, Tables
  <2>2. CASE Shaped(p) /\ Onward(p, {"elev"}, req[p].late)
    <3>1. WellFormed(req[p])'
      BY <1>8, <2>1, <2>2 DEF Onward, RequireRole, TypeInv, WellFormed, Behind
    <3>2. QED
      BY <1>b, <2>1, <2>2, <3>1
  <2>3. QED
    BY <1>0, <1>8, <1>a, <2>1, <2>2, RequireRoleShape
<1>9. ASSUME NEW p \in Procs, RequireElevated(p)
      PROVE  TypeInv'
  <2> DEFINE l == req[p].late \/ req[p].elev \in out
  <2>1. Tables' /\ issued' = issued
    BY <1>0, <1>9 DEF RequireElevated, Tables
  <2>2. CASE Shaped(p) /\ Onward(p, {"find", "consent"}, l)
    <3>1. WellFormed(req[p])'
      BY <1>9, <2>1, <2>2 DEF Onward, RequireElevated, TypeInv, WellFormed, Behind
    <3>2. QED
      BY <1>b, <2>1, <2>2, <3>1
  <2>3. QED
    BY <1>0, <1>9, <1>a, <2>1, <2>2, RequireElevatedShape
<1>10. ASSUME NEW p \in Procs, NEW u \in Users, NEW r0 \in Roles, FindTarget(p, u, r0)
       PROVE  TypeInv'
  <2>1. Tables' /\ issued' = issued
    BY <1>0, <1>10 DEF FindTarget, Tables
  <2>2. CASE Shaped(p) /\ Onward(p, {"count", "write"}, req[p].late) /\ req'[p].target = u
    <3>1. WellFormed(req[p])'
      BY <1>10, <2>1, <2>2 DEF Onward, FindTarget, TypeInv, WellFormed, Behind
    <3>2. QED
      BY <1>b, <2>1, <2>2, <3>1
  <2>3. QED
    BY <1>0, <1>10, <1>a, <2>1, <2>2, FindTargetShape
<1>11. ASSUME NEW p \in Procs, CountAdmins(p)
       PROVE  TypeInv'
  <2>1. Tables' /\ issued' = issued
    BY <1>0, <1>11 DEF CountAdmins, Tables
  <2>2. CASE Shaped(p) /\ Onward(p, {"write"}, req[p].late) /\ req'[p].target = req[p].target
    <3>1. WellFormed(req[p])'
      BY <1>11, <2>1, <2>2 DEF Onward, CountAdmins, TypeInv, WellFormed, Behind
    <3>2. QED
      BY <1>b, <2>1, <2>2, <3>1
  <2>3. QED
    BY <1>0, <1>11, <1>a, <2>1, <2>2, CountAdminsShape
<1>12. ASSUME NEW p \in Procs, UpdateRole(p)
       PROVE  TypeInv'
  <2>1. Ends(p) /\ req[p].target \in Users /\ req[p].role \in Roles
    BY <1>12, UpdateRoleShape
  <2>2. Tables' /\ issued' = issued
    BY <1>0, <1>12, <2>1 DEF UpdateRole, RoleBecomes, Tables
  <2>3. QED
    BY <1>a, <2>1, <2>2
<1>13. ASSUME NEW p \in Procs, NEW end \in {0} \cup {now + d : d \in ConsentTTLs},
              SetSupportAccess(p, end)
       PROVE  TypeInv'
  <2>1. end \in Nat /\ req[p].tok.family \in Families
    BY <1>0, <1>13, ConstantsAssumption, TokenTyped DEF Tables, SetSupportAccess
  <2>2. Tables' /\ issued' = issued
    BY <1>0, <1>13, <2>1 DEF SetSupportAccess, Tables
  <2>3. QED
    BY <1>0, <1>13, <1>a, <2>2, SetSupportAccessShape
<1>14. ASSUME NEW p \in Procs, NEW f \in Families, ReadConsent(p, f)
       PROVE  TypeInv'
  <2>1. Tables' /\ issued' = issued
    BY <1>0, <1>14 DEF ReadConsent, Tables
  <2>2. CASE Shaped(p) /\ Onward(p, {"audit"}, req[p].late) /\ req'[p].family = f
    <3>1. WellFormed(req[p])'
      BY <1>14, <2>1, <2>2 DEF Onward, ReadConsent, TypeInv, WellFormed, Behind
    <3>2. QED
      BY <1>b, <2>1, <2>2, <3>1
  <2>3. QED
    BY <1>0, <1>14, <1>a, <2>1, <2>2, ReadConsentShape
<1>15. ASSUME NEW p \in Procs, Audit(p)
       PROVE  TypeInv'
  <2>1. req[p].family \in Families
    BY <1>15 DEF Audit, TypeInv, WellFormed
  <2>2. Tables' /\ issued' = issued
    BY <1>0, <1>15, <2>1 DEF Audit, Tables
  <2>3. CASE Shaped(p) /\ Onward(p, {"dump"}, req[p].late) /\ req'[p].family = req[p].family
    <3>1. WellFormed(req[p])'
      BY <1>15, <2>1, <2>2, <2>3 DEF Onward, Audit, TypeInv, WellFormed, Behind
    <3>2. QED
      BY <1>b, <2>2, <2>3, <3>1
  <2>4. QED
    BY <1>0, <1>15, <1>a, <2>2, <2>3, AuditShape
<1>16. ASSUME NEW p \in Procs, Dump(p) \/ Fail(p)
       PROVE  TypeInv'
  <2>1. Dump(p) => req[p].family \in Families
    BY DEF Dump, TypeInv, WellFormed
  <2>2. Tables' /\ issued' = issued
    BY <1>0, <1>16, <2>1 DEF Dump, Fail, Tables
  <2>3. QED
    BY <1>0, <1>16, <1>a, <2>2, FinishEnds DEF Dump, Fail
<1>17. ASSUME NEW u \in Users, Erase(u)
       PROVE  TypeInv'
  <2>1. req' \in [Procs -> Request] /\ OthersKept(NoProc)
    BY <1>0, <1>17, EraseShape DEF OthersKept
  <2>2. Tables' /\ issued' = issued
    BY <1>0, <1>17 DEF Erase, RoleBecomes, Tables
  <2>3. QED
    BY <2>1, <2>2, ConstantsAssumption, TypeStep
<1>18. ASSUME NEW u \in Users, NEW f \in Families, Move(u, f)
       PROVE  TypeInv'
  <2>1. Tables' /\ issued' = issued /\ req' = req
    BY <1>0, <1>18 DEF Move, Tables
  <2>2. QED
    BY <2>1 DEF TypeInv, TypeOK, Tables, WellFormed
<1>19. CASE Tick
  <2>1. Tables' /\ issued' = issued /\ req' = req
    BY <1>0, <1>19 DEF Tick, Tables
  <2>2. QED
    BY <2>1 DEF TypeInv, TypeOK, Tables, WellFormed
<1>20. CASE UNCHANGED vars
  BY <1>20 DEF vars, TypeInv, TypeOK, WellFormed
<1>21. QED
  BY <1>1, <1>2, <1>3, <1>4, <1>5, <1>6, <1>7, <1>8, <1>9, <1>10, <1>11, <1>12, <1>13,
     <1>14, <1>15, <1>16, <1>17, <1>18, <1>19, <1>20 DEF Next

LEMMA TypesInit == Init => TypeInv
<1> SUFFICES ASSUME Init PROVE TypeInv
  OBVIOUS
<1>1. \A p \in Procs : req[p] = Idle
  BY DEF Init
<1>2. \A p \in Procs : WellFormed(req[p])
  <2>1. Idle.at = "idle" /\ Idle.elev = NoToken
    BY DEF Idle
  <2>2. QED
    BY <1>1, <2>1 DEF WellFormed, Behind
<1>3. TypeOK
  BY Constants DEF Init, TypeOK, Roles
<1>4. QED
  BY <1>2, <1>3 DEF TypeInv

-----------------------------------------------------------------------------
(* What a step may do to a slot, and to a table.                           *)

\* The request in a slot is kept, ends, or runs a statement of its own.
LEMMA Slots ==
  ASSUME TypeInv, Next, NEW q \in Procs
  PROVE  \/ Kept(q) \/ req'[q] = Idle
         \/ \E u \in Users : LoginRead(q, u)
         \/ \E kind \in DOMAIN FirstStep, t \in issued, e \in issued \cup {NoToken} :
              Authenticate(q, kind, t, e)
         \/ ElevateRole(q) \/ LogoutAccess(q) \/ RequireRole(q) \/ RequireElevated(q)
         \/ \E u \in Users, r \in Roles : FindTarget(q, u, r)
         \/ CountAdmins(q) \/ (\E f \in Families : ReadConsent(q, f)) \/ Audit(q)
<1>0. TypeOK
  BY DEF TypeInv
<1>b. ASSUME NEW p \in Procs, Ends(p)
      PROVE  Kept(q) \/ req'[q] = Idle
  BY <1>b DEF Shaped, OthersKept, Ends
<1>c. ASSUME NEW p \in Procs, Shaped(p), q # p
      PROVE  Kept(q)
  BY <1>c DEF Shaped, OthersKept
<1>d. ASSUME UNCHANGED req
      PROVE  Kept(q)
  BY <1>0, <1>d DEF Kept, TypeOK
<1>1. ASSUME NEW p \in Procs, p # q, NEW u \in Users, LoginRead(p, u)
      PROVE  Kept(q)
  BY <1>0, <1>1, <1>c, LoginReadShape
<1>2. ASSUME NEW p \in Procs, LoginSign(p) \/ ElevateSign(p) \/ LogoutElevated(p) \/ Dump(p) \/ Fail(p)
      PROVE  Kept(q) \/ req'[q] = Idle
  BY <1>0, <1>2, <1>b, FinishEnds DEF LoginSign, ElevateSign, LogoutElevated, Dump, Fail
<1>3. ASSUME NEW p \in Procs, p # q, NEW kind \in DOMAIN FirstStep, NEW t \in issued,
             NEW e \in issued \cup {NoToken}, Authenticate(p, kind, t, e)
      PROVE  Kept(q)
  BY <1>3, <1>c, AuthenticateShape
<1>4. ASSUME NEW p \in Procs, p # q, ElevateRole(p)
      PROVE  Kept(q)
  BY <1>4, <1>c, ElevateRoleShape DEF Ends
<1>5. ASSUME NEW p \in Procs, p # q, LogoutAccess(p)
      PROVE  Kept(q)
  BY <1>0, <1>5, <1>c, GoesOn DEF LogoutAccess
<1>6. ASSUME NEW p \in Procs, p # q, RequireRole(p)
      PROVE  Kept(q)
  BY <1>0, <1>6, <1>c, RequireRoleShape DEF Ends
<1>7. ASSUME NEW p \in Procs, p # q, RequireElevated(p)
      PROVE  Kept(q)
  BY <1>0, <1>7, <1>c, RequireElevatedShape DEF Ends
<1>8. ASSUME NEW p \in Procs, p # q, NEW u \in Users, NEW r \in Roles, FindTarget(p, u, r)
      PROVE  Kept(q)
  BY <1>0, <1>8, <1>c, FindTargetShape DEF Ends
<1>9. ASSUME NEW p \in Procs, p # q, CountAdmins(p)
      PROVE  Kept(q)
  BY <1>0, <1>9, <1>c, CountAdminsShape DEF Ends
<1>10. ASSUME NEW p \in Procs, UpdateRole(p)
       PROVE  Kept(q) \/ req'[q] = Idle
  BY <1>10, <1>b, UpdateRoleShape
<1>11. ASSUME NEW p \in Procs, NEW end \in {0} \cup {now + d : d \in ConsentTTLs},
              SetSupportAccess(p, end)
       PROVE  Kept(q) \/ req'[q] = Idle
  BY <1>0, <1>11, <1>b, SetSupportAccessShape
<1>12. ASSUME NEW p \in Procs, p # q, NEW f \in Families, ReadConsent(p, f)
       PROVE  Kept(q)
  BY <1>0, <1>12, <1>c, ReadConsentShape DEF Ends
<1>13. ASSUME NEW p \in Procs, p # q, Audit(p)
       PROVE  Kept(q)
  BY <1>0, <1>13, <1>c, AuditShape DEF Ends
<1>14. ASSUME NEW u \in Users, Erase(u)
       PROVE  Kept(q)
  BY <1>0, <1>14, EraseShape
<1>15. ASSUME (\E u \in Users, f \in Families : Move(u, f)) \/ Tick
       PROVE  Kept(q)
  BY <1>15, <1>d DEF Move, Tick
<1>16. QED
  BY <1>1, <1>2, <1>3, <1>4, <1>5, <1>6, <1>7, <1>8, <1>9, <1>10, <1>11, <1>12, <1>13,
     <1>14, <1>15 DEF Next

\* Each table, with the statements that write it.
LEMMA Writers ==
  ASSUME Next
  PROVE  /\ now' = now \/ Tick
         /\ issued' = issued \/ \E p \in Procs : LoginSign(p) \/ ElevateSign(p)
         /\ proved' = proved \/ \E p \in Procs : ElevateSign(p)
         /\ \/ UNCHANGED role
            \/ (\E p \in Procs : UpdateRole(p)) \/ (\E u \in Users : Erase(u))
         /\ \/ UNCHANGED <<family, moved>>
            \/ (\E u \in Users : Erase(u)) \/ (\E u \in Users, f \in Families : Move(u, f))
         /\ \/ UNCHANGED <<blocklist, dropped, out>>
            \/ \E p \in Procs : LogoutAccess(p) \/ LogoutElevated(p)
         /\ raced' = raced \/ (\E p \in Procs : UpdateRole(p)) \/ (\E u \in Users : Erase(u))
<1> USE DEF Next
<1>1. now' = now \/ Tick
  BY DEF LoginRead, LoginSign, Authenticate, ElevateRole, ElevateSign, LogoutAccess,
         LogoutElevated, RequireRole, RequireElevated, FindTarget, CountAdmins, UpdateRole,
         SetSupportAccess, ReadConsent, Audit, Dump, Erase, Move, Fail
<1>2. issued' = issued \/ \E p \in Procs : LoginSign(p) \/ ElevateSign(p)
  BY DEF LoginRead, Authenticate, ElevateRole, LogoutAccess,
         LogoutElevated, RequireRole, RequireElevated, FindTarget, CountAdmins, UpdateRole,
         SetSupportAccess, ReadConsent, Audit, Dump, Erase, Move, Fail, Tick
<1>3. proved' = proved \/ \E p \in Procs : ElevateSign(p)
  BY DEF LoginRead, LoginSign, Authenticate, ElevateRole, LogoutAccess,
         LogoutElevated, RequireRole, RequireElevated, FindTarget, CountAdmins, UpdateRole,
         SetSupportAccess, ReadConsent, Audit, Dump, Erase, Move, Fail, Tick
<1>4. \/ UNCHANGED role
      \/ (\E p \in Procs : UpdateRole(p)) \/ (\E u \in Users : Erase(u))
  BY DEF LoginRead, LoginSign, Authenticate, ElevateRole, ElevateSign, LogoutAccess,
         LogoutElevated, RequireRole, RequireElevated, FindTarget, CountAdmins,
         SetSupportAccess, ReadConsent, Audit, Dump, Move, Fail, Tick
<1>5. \/ UNCHANGED <<family, moved>>
      \/ (\E u \in Users : Erase(u)) \/ (\E u \in Users, f \in Families : Move(u, f))
  BY DEF LoginRead, LoginSign, Authenticate, ElevateRole, ElevateSign, LogoutAccess,
         LogoutElevated, RequireRole, RequireElevated, FindTarget, CountAdmins, UpdateRole,
         SetSupportAccess, ReadConsent, Audit, Dump, Fail, Tick
<1>6. \/ UNCHANGED <<blocklist, dropped, out>>
      \/ \E p \in Procs : LogoutAccess(p) \/ LogoutElevated(p)
  BY DEF LoginRead, LoginSign, Authenticate, ElevateRole, ElevateSign,
         RequireRole, RequireElevated, FindTarget, CountAdmins, UpdateRole,
         SetSupportAccess, ReadConsent, Audit, Dump, Erase, Move, Fail, Tick
<1>7. raced' = raced \/ (\E p \in Procs : UpdateRole(p)) \/ (\E u \in Users : Erase(u))
  BY DEF LoginRead, LoginSign, Authenticate, ElevateRole, ElevateSign, LogoutAccess,
         LogoutElevated, RequireRole, RequireElevated, FindTarget, CountAdmins,
         SetSupportAccess, ReadConsent, Audit, Dump, Move, Fail, Tick
<1>8. QED
  BY <1>1, <1>2, <1>3, <1>4, <1>5, <1>6, <1>7

-----------------------------------------------------------------------------
(* The chain of /admin.                                                    *)

\* Statements run within the life of a request, and history lies in the past.
InTime ==
  /\ now > 0
  /\ \A u \in Users : moved[u] <= now /\ proved[u] <= now
  /\ \A p \in Procs : req[p].at # "idle" =>
       req[p].start \in 1..now /\ now <= req[p].start + ServeMax

\* An elevated token is as young as the last password that its user gave.
ElevatedProven ==
  \A t \in issued : t.aud = "admin" =>
    proved[t.user] > 0 /\ t.exp <= proved[t.user] + ElevTTL

\* RequireRole has been passed at "elev" too.
PassedRole ==
  \A p \in Procs : req[p].at \in {"elev"} \cup Behind =>
    role[req[p].tok.user] \in Needs(req[p].kind) \/ "role" \in req[p].since

LEMMA InTimeStep ==
  ASSUME TypeInv, TypeInv', InTime, Next
  PROVE  InTime'
<1>0. TypeOK /\ TypeOK' /\ Idle.at = "idle"
  BY DEF TypeInv, Idle
<1>1. now' = now \/ Tick
  BY Writers
<1>2. now' \in Nat /\ now' >= now /\ now \in Nat
  BY <1>0, <1>1 DEF Tick, TypeOK
<1>3. ASSUME NEW u \in Users
      PROVE  moved'[u] <= now' /\ proved'[u] <= now'
  <2>1. moved[u] <= now /\ proved[u] <= now /\ moved[u] \in Nat /\ proved[u] \in Nat
    BY <1>0 DEF InTime, TypeOK
  <2>2. moved'[u] \in {moved[u], now}
    <3>1. CASE UNCHANGED <<family, moved>>
      BY <3>1
    <3>2. CASE \E v \in Users : Erase(v)
      BY <1>0, <3>2 DEF Erase, TypeOK
    <3>3. CASE \E v \in Users, f \in Families : Move(v, f)
      BY <1>0, <3>3 DEF Move, TypeOK
    <3>4. QED
      BY <3>1, <3>2, <3>3, Writers
  <2>3. proved'[u] \in {proved[u], now}
    <3>1. CASE UNCHANGED proved
      BY <3>1
    <3>2. CASE \E p \in Procs : ElevateSign(p)
      BY <1>0, <3>2 DEF ElevateSign, TypeOK
    <3>3. QED
      BY <3>1, <3>2, Writers
  <2>4. QED
    BY <1>2, <2>1, <2>2, <2>3
<1>4. ASSUME NEW q \in Procs, req'[q].at # "idle"
      PROVE  req'[q].start \in 1..now' /\ now' <= req'[q].start + ServeMax
  <2> DEFINE Timely == req'[q].start \in 1..now' /\ now' <= req'[q].start + ServeMax
  <2>0. req[q] \in Request /\ req[q].start \in Nat /\ ServeMax \in Nat
    BY <1>0, Constants DEF TypeOK, Request
  <2>1. CASE Kept(q)
    <3>1. req[q].at # "idle" /\ req'[q].start = req[q].start
      BY <1>4, <2>1 DEF Kept
    <3>2. req[q].start \in 1..now /\ now <= req[q].start + ServeMax
      BY <3>1 DEF InTime
    <3>3. CASE Tick
      <4>1. now < req[q].start + ServeMax /\ now' = now + 1
        BY <1>0, <3>1, <3>3 DEF Tick
      <4>2. QED
        BY <1>2, <2>0, <3>1, <3>2, <4>1
    <3>4. QED
      BY <1>1, <1>2, <2>0, <3>1, <3>2, <3>3
  <2>2. CASE req'[q] = Idle
    BY <1>0, <1>4, <2>2
  <2>3. ASSUME req'[q].start = now, now' = now
        PROVE  Timely
    BY <1>2, <2>0, <2>3 DEF InTime
  <2>4. ASSUME NEW stmts, NEW l, Onward(q, stmts, l), req[q].at # "idle", now' = now
        PROVE  Timely
    BY <2>4 DEF Onward, InTime
  <2>5. ASSUME NEW u \in Users, LoginRead(q, u)
        PROVE  Timely
    BY <1>0, <2>3, <2>5, LoginReadShape DEF LoginRead
  <2>6. ASSUME NEW kind \in DOMAIN FirstStep, NEW t \in issued,
               NEW e \in issued \cup {NoToken}, Authenticate(q, kind, t, e)
        PROVE  Timely
    BY <2>3, <2>6, AuthenticateShape DEF Authenticate
  <2>7. CASE ElevateRole(q)
    BY <1>0, <1>4, <2>4, <2>7, ElevateRoleShape DEF ElevateRole, Ends
  <2>8. CASE LogoutAccess(q)
    BY <1>0, <2>4, <2>8, GoesOn DEF LogoutAccess
  <2>9. CASE RequireRole(q)
    BY <1>0, <1>4, <2>4, <2>9, RequireRoleShape DEF RequireRole, Ends
  <2>10. CASE RequireElevated(q)
    BY <1>0, <1>4, <2>4, <2>10, RequireElevatedShape DEF RequireElevated, Ends
  <2>11. ASSUME NEW u \in Users, NEW r \in Roles, FindTarget(q, u, r)
         PROVE  Timely
    BY <1>0, <1>4, <2>4, <2>11, FindTargetShape DEF FindTarget, Ends
  <2>12. CASE CountAdmins(q)
    BY <1>0, <1>4, <2>4, <2>12, CountAdminsShape DEF CountAdmins, Ends
  <2>13. ASSUME NEW f \in Families, ReadConsent(q, f)
         PROVE  Timely
    BY <1>0, <1>4, <2>4, <2>13, ReadConsentShape DEF ReadConsent, Ends
  <2>14. CASE Audit(q)
    BY <1>0, <1>4, <2>4, <2>14, AuditShape DEF Audit, Ends
  <2>15. QED
    BY <2>1, <2>2, <2>5, <2>6, <2>7, <2>8, <2>9, <2>10, <2>11, <2>12, <2>13, <2>14, Slots
<1>5. QED
  BY <1>2, <1>3, <1>4 DEF InTime

LEMMA ElevatedStep ==
  ASSUME TypeInv, InTime, ElevatedProven, Next
  PROVE  /\ ElevatedProven'
         /\ \A u \in Users : proved'[u] >= proved[u]
<1>0. /\ now \in Nat /\ proved \in [Users -> Nat] /\ now > 0 /\ ElevTTL \in Nat
      /\ issued \subseteq Token
  BY Constants DEF TypeInv, TypeOK, InTime
<1>1. CASE UNCHANGED <<issued, proved>>
  BY <1>0, <1>1 DEF ElevatedProven
<1>2. ASSUME NEW p \in Procs, LoginSign(p)
      PROVE  ElevatedProven' /\ \A u \in Users : proved'[u] >= proved[u]
  <2>1. UNCHANGED proved
        /\ \A t \in issued' : t \in issued \/ t.aud = "session"
    BY <1>2 DEF LoginSign, Sign
  <2>2. QED
    BY <1>0, <2>1 DEF ElevatedProven
<1>3. ASSUME NEW p \in Procs, ElevateSign(p)
      PROVE  ElevatedProven' /\ \A u \in Users : proved'[u] >= proved[u]
  <2> DEFINE u == req[p].tok.user
             new == Sign(u, req[p].family, "admin", ElevTTL)
  <2>1. u \in Users
    BY <1>3, TokenTyped DEF ElevateSign
  <2>2. proved' = [proved EXCEPT ![u] = now] /\ issued' = issued \cup {new}
    BY <1>3 DEF ElevateSign
  <2>3. \A v \in Users : proved'[v] >= proved[v] /\ proved'[v] \in Nat
    BY <1>0, <2>1, <2>2 DEF InTime
  <2>4. new.user = u /\ new.exp = now + ElevTTL /\ proved'[u] = now
    BY <1>0, <2>1, <2>2 DEF Sign
  <2>5. ASSUME NEW t \in issued, t.aud = "admin"
        PROVE  proved'[t.user] > 0 /\ t.exp <= proved'[t.user] + ElevTTL
    <3>1. t.user \in Users /\ t.exp \in Nat
      BY <1>0 DEF Token
    <3>2. QED
      BY <1>0, <2>3, <2>5, <3>1 DEF ElevatedProven
  <2> HIDE DEF new
  <2>6. QED
    BY <1>0, <2>2, <2>3, <2>4, <2>5 DEF ElevatedProven
<1>4. QED
  <2>1. issued' = issued \/ \E p \in Procs : LoginSign(p) \/ ElevateSign(p)
    BY Writers
  <2>2. proved' = proved \/ \E p \in Procs : ElevateSign(p)
    BY Writers
  <2>3. QED
    BY <1>1, <1>2, <1>3, <2>1, <2>2

LEMMA PassedRoleStep ==
  ASSUME TypeInv, PassedRole, Next
  PROVE  PassedRole'
<1>0. TypeOK
  BY DEF TypeInv
<1> DEFINE In(r) == r.at \in {"elev"} \cup Behind
<1> SUFFICES ASSUME NEW q \in Procs, In(req'[q])
             PROVE  role'[req'[q].tok.user] \in Needs(req'[q].kind) \/ "role" \in req'[q].since
  BY DEF PassedRole
<1> DEFINE Passed == role'[req'[q].tok.user] \in Needs(req'[q].kind) \/ "role" \in req'[q].since
<1>1. CASE Kept(q)
  <2>1. In(req[q]) /\ req'[q].tok = req[q].tok /\ req'[q].kind = req[q].kind
        /\ req[q].since \subseteq req'[q].since
    BY <1>1 DEF Kept
  <2>2. req[q].kind \in {"role", "dump"} /\ req[q].at # "role"
    BY <2>1 DEF TypeInv, WellFormed, Behind
  <2>3. role[req[q].tok.user] \in Needs(req[q].kind) \/ "role" \in req[q].since
    BY <2>1 DEF PassedRole
  <2>4. CASE UNCHANGED role
    BY <2>1, <2>3, <2>4
  <2>5. ASSUME NEW p \in Procs \cup {NoProc}, NEW u \in Users, NEW r, RoleBecomes(p, u, r), p # q
        PROVE  Passed
    <3>1. role' = [role EXCEPT ![u] = r]
      BY <2>5 DEF RoleBecomes
    <3>2. CASE req[q].tok.user = u
      <4>1. q \in PastRole(u)
        BY <2>2, <3>2 DEF PastRole
      <4>2. QED
        BY <1>0, <2>5, <4>1, RoleShape
    <3>3. CASE req[q].tok.user # u
      BY <1>0, <2>1, <2>3, <3>1, <3>3 DEF TypeOK
    <3>4. QED
      BY <3>2, <3>3
  <2>6. ASSUME NEW p \in Procs, UpdateRole(p)
        PROVE  Passed
    <3>1. p # q
      BY <2>6, UpdateRoleShape DEF Ends, Idle, Behind
    <3>2. QED
      BY <2>4, <2>5, <2>6, <3>1, UpdateRoleShape
  <2>7. ASSUME NEW u \in Users, Erase(u)
        PROVE  Passed
    BY <2>5, <2>7, ConstantsAssumption DEF Erase
  <2>8. QED
    BY <2>4, <2>6, <2>7, Writers
<1>2. CASE req'[q] = Idle
  BY <1>2 DEF Idle, Behind
<1>3. ASSUME NEW u \in Users, LoginRead(q, u)
      PROVE  FALSE
  BY <1>0, <1>3, LoginReadShape DEF Behind
<1>4. ASSUME NEW kind \in DOMAIN FirstStep, NEW t \in issued,
             NEW e \in issued \cup {NoToken}, Authenticate(q, kind, t, e)
      PROVE  FALSE
  BY <1>4, AuthenticateShape DEF Behind
<1>5. CASE ElevateRole(q)
  BY <1>5, ElevateRoleShape DEF Onward, Ends, Idle, Behind
<1>6. CASE LogoutAccess(q)
  BY <1>0, <1>6, GoesOn DEF LogoutAccess, Onward, Behind
<1>7. CASE RequireRole(q)
  BY <1>0, <1>7, RequireRoleShape DEF RequireRole, Onward, Ends, Idle, Behind
<1>8. ASSUME NEW stmts, NEW l, Onward(q, stmts, l), In(req[q]), UNCHANGED role
      PROVE  Passed
  BY <1>8 DEF Onward, PassedRole
<1>9. CASE RequireElevated(q)
  BY <1>0, <1>2, <1>8, <1>9, RequireElevatedShape DEF RequireElevated, Ends, Behind
<1>10. ASSUME NEW u \in Users, NEW r \in Roles, FindTarget(q, u, r)
       PROVE  Passed
  BY <1>0, <1>2, <1>8, <1>10, FindTargetShape DEF FindTarget, Ends, Behind
<1>11. CASE CountAdmins(q)
  BY <1>0, <1>2, <1>8, <1>11, CountAdminsShape DEF CountAdmins, Ends, Behind
<1>12. ASSUME NEW f \in Families, ReadConsent(q, f)
       PROVE  Passed
  BY <1>0, <1>2, <1>8, <1>12, ReadConsentShape DEF ReadConsent, Ends, Behind
<1>13. CASE Audit(q)
  BY <1>0, <1>2, <1>8, <1>13, AuditShape DEF Audit, Ends, Behind
<1>14. QED
  BY <1>1, <1>2, <1>3, <1>4, <1>5, <1>6, <1>7, <1>9, <1>10, <1>11, <1>12, <1>13, Slots

LEMMA ProvedStep ==
  ASSUME TypeInv, InTime, ElevatedProven, ProvedRecently, Next
  PROVE  ProvedRecently'
<1>0. TypeOK /\ ElevTTL \in Nat
  BY Constants DEF TypeInv
<1> SUFFICES ASSUME NEW q \in Procs, req'[q].at \in Behind
             PROVE  /\ proved'[req'[q].tok.user] > 0
                    /\ req'[q].start < proved'[req'[q].tok.user] + ElevTTL
  BY DEF ProvedRecently, Acting, Behind
<1> DEFINE Proved == /\ proved'[req'[q].tok.user] > 0
                     /\ req'[q].start < proved'[req'[q].tok.user] + ElevTTL
<1>1. ASSUME req[q].at \in Behind, req'[q].tok = req[q].tok, req'[q].start = req[q].start
      PROVE  Proved
  <2>1. req[q].tok.user \in Users
    BY <1>1, TokenTyped DEF Behind
  <2>2. /\ proved[req[q].tok.user] > 0
        /\ req[q].start < proved[req[q].tok.user] + ElevTTL
    BY <1>1 DEF ProvedRecently, Acting, Behind
  <2>3. proved'[req[q].tok.user] >= proved[req[q].tok.user]
    BY <2>1, ElevatedStep
  <2>4. proved[req[q].tok.user] \in Nat /\ req[q].start \in Nat
    BY <1>0, <2>1 DEF TypeOK, Request
  <2>5. proved'[req[q].tok.user] \in Nat
    <3>1. TypeInv'
      BY TypesStep
    <3>2. QED
      BY <2>1, <3>1 DEF TypeInv, TypeOK
  <2>6. QED
    BY <1>0, <1>1, <2>2, <2>3, <2>4, <2>5
<1>2. CASE Kept(q)
  BY <1>1, <1>2 DEF Kept
<1>3. CASE req'[q] = Idle
  BY <1>3 DEF Idle, Behind
<1>4. ASSUME NEW u \in Users, LoginRead(q, u)
      PROVE  FALSE
  BY <1>0, <1>4, LoginReadShape DEF Behind
<1>5. ASSUME NEW kind \in DOMAIN FirstStep, NEW t \in issued,
             NEW e \in issued \cup {NoToken}, Authenticate(q, kind, t, e)
      PROVE  FALSE
  BY <1>5, AuthenticateShape DEF Behind
<1>6. CASE ElevateRole(q)
  BY <1>6, ElevateRoleShape DEF Onward, Ends, Idle, Behind
<1>7. CASE LogoutAccess(q)
  BY <1>0, <1>7, GoesOn DEF LogoutAccess, Onward, Behind
<1>8. CASE RequireRole(q)
  BY <1>0, <1>8, RequireRoleShape DEF RequireRole, Onward, Ends, Idle, Behind
<1>9. CASE RequireElevated(q)
  <2> DEFINE e == req[q].elev
  <2>1. CASE Ends(q)
    BY <1>3, <2>1 DEF Ends
  <2>2. CASE /\ Onward(q, {"find", "consent"}, req[q].late \/ req[q].elev \in out)
             /\ ElevationHolds(req[q].elev, req[q].tok)
    <3>1. e \in issued /\ e \in Token /\ e.aud = "admin" /\ e.user = req[q].tok.user /\ e.exp > now
      BY <1>0, <2>2 DEF ElevationHolds, Valid, TypeInv, TypeOK, WellFormed
    <3>2. proved[e.user] > 0 /\ e.exp <= proved[e.user] + ElevTTL
      BY <3>1 DEF ElevatedProven
    <3>3. req[q].start <= now /\ req[q].start \in Nat /\ now \in Nat
      BY <1>0, <1>9 DEF RequireElevated, InTime, TypeOK, Request
    <3>4. e.user \in Users /\ e.exp \in Nat /\ proved[e.user] \in Nat
      BY <1>0, <3>1 DEF Token, TypeOK
    <3>5. proved' = proved /\ req'[q].tok = req[q].tok /\ req'[q].start = req[q].start
      BY <1>9, <2>2 DEF RequireElevated, Onward
    <3>6. QED
      BY <1>0, <3>1, <3>2, <3>3, <3>4, <3>5
  <2>3. QED
    BY <1>0, <1>9, <2>1, <2>2, RequireElevatedShape
<1>10. ASSUME NEW u \in Users, NEW r \in Roles, FindTarget(q, u, r)
       PROVE  Proved
  <2>1. Ends(q) \/ Onward(q, {"count", "write"}, req[q].late)
    BY <1>0, <1>10, FindTargetShape
  <2>2. req[q].at = "find"
    BY <1>10 DEF FindTarget
  <2>3. CASE Ends(q)
    BY <1>3, <2>3 DEF Ends
  <2>4. CASE Onward(q, {"count", "write"}, req[q].late)
    BY <1>1, <2>2, <2>4 DEF Onward, Behind
  <2>5. QED
    BY <2>1, <2>3, <2>4
<1>11. CASE CountAdmins(q)
  BY <1>0, <1>1, <1>3, <1>11, CountAdminsShape DEF CountAdmins, Onward, Ends, Behind
<1>12. ASSUME NEW f \in Families, ReadConsent(q, f)
       PROVE  Proved
  BY <1>0, <1>1, <1>3, <1>12, ReadConsentShape DEF ReadConsent, Onward, Ends, Behind
<1>13. CASE Audit(q)
  BY <1>0, <1>1, <1>3, <1>13, AuditShape DEF Audit, Onward, Ends, Behind
<1>14. QED
  BY <1>2, <1>3, <1>4, <1>5, <1>6, <1>7, <1>8, <1>9, <1>10, <1>11, <1>12, <1>13, Slots

-----------------------------------------------------------------------------
(* The last administrator.                                                 *)

\* A demotion that is about to be written leaves another administrator, unless
\* the count is stale.
AnotherStays ==
  \A p \in Procs :
    /\ req[p].at = "write" /\ req[p].role # "admin" /\ "admins" \notin req[p].since
    /\ role[req[p].target] = "admin"
    => Admins \ {req[p].target} # {}

\* Who else is an administrator, when one is demoted.
LEMMA AdminsAfter ==
  ASSUME TypeOK, NEW u \in Users, NEW r, role' = [role EXCEPT ![u] = r]
  PROVE  /\ r = "admin" => Admins' # {} /\ Admins' = Admins \cup {u}
         /\ r # "admin" => Admins' = Admins \ {u}
  BY DEF TypeOK, Admins

\* Of two administrators one stays.
LEMMA TwoAdmins ==
  ASSUME NEW u, ~(Cardinality(Admins) <= 1)
  PROVE  Admins \ {u} # {}
<1> SUFFICES ASSUME Admins \ {u} = {} PROVE FALSE
  OBVIOUS
<1>1. Admins \subseteq {u}
  OBVIOUS
<1>2. IsFiniteSet({u}) /\ Cardinality({u}) = 1
  BY FS_Singleton
<1>3. Cardinality(Admins) <= 1
  BY <1>1, <1>2, FS_Subset
<1>4. QED
  BY <1>3

LEMMA AnotherStep ==
  ASSUME TypeInv, AnotherStays, Next
  PROVE  AnotherStays'
<1>0. TypeOK
  BY DEF TypeInv
<1> DEFINE Writes(r) == r.at = "write" /\ r.role # "admin" /\ "admins" \notin r.since
<1> SUFFICES ASSUME NEW q \in Procs, Writes(req'[q]), role'[req'[q].target] = "admin"
             PROVE  Admins' \ {req'[q].target} # {}
  BY DEF AnotherStays
<1> DEFINE Stays == Admins' \ {req'[q].target} # {}
<1>1. CASE Kept(q)
  <2>1. Writes(req[q]) /\ req'[q].target = req[q].target
    BY <1>1 DEF Kept
  <2>2. req[q].target \in Users /\ q \in Deciding
    BY <2>1 DEF TypeInv, WellFormed, Deciding
  <2>3. CASE UNCHANGED role
    <3>1. Admins' = Admins
      BY <2>3 DEF Admins
    <3>2. QED
      BY <2>1, <2>3, <3>1 DEF AnotherStays
  <2>4. ASSUME NEW p \in Procs \cup {NoProc}, NEW u \in Users, NEW r, RoleBecomes(p, u, r), p # q
        PROVE  Stays
    <3>1. role' = [role EXCEPT ![u] = r]
      BY <2>4 DEF RoleBecomes
    <3>2. (role[u] = "admin") = (r = "admin")
      BY <1>0, <2>2, <2>4, RoleShape
    <3>3. \A v \in Users : role'[v] = "admin" <=> role[v] = "admin"
      BY <1>0, <3>1, <3>2 DEF TypeOK
    <3>4. Admins' = Admins /\ role[req[q].target] = "admin"
      BY <2>1, <2>2, <3>3 DEF Admins
    <3>5. QED
      BY <2>1, <3>4 DEF AnotherStays
  <2>5. ASSUME NEW p \in Procs, UpdateRole(p)
        PROVE  Stays
    <3>1. p # q
      BY <2>5, UpdateRoleShape DEF Ends, Idle
    <3>2. QED
      BY <2>3, <2>4, <2>5, <3>1, UpdateRoleShape
  <2>6. ASSUME NEW u \in Users, Erase(u)
        PROVE  Stays
    BY <2>4, <2>6, ConstantsAssumption DEF Erase
  <2>7. QED
    BY <2>3, <2>5, <2>6, Writers
<1>2. CASE req'[q] = Idle
  BY <1>2 DEF Idle
<1>3. ASSUME NEW u \in Users, LoginRead(q, u)
      PROVE  FALSE
  BY <1>0, <1>3, LoginReadShape
<1>4. ASSUME NEW kind \in DOMAIN FirstStep, NEW t \in issued,
             NEW e \in issued \cup {NoToken}, Authenticate(q, kind, t, e)
      PROVE  FALSE
  BY <1>4, AuthenticateShape
<1>5. CASE ElevateRole(q)
  BY <1>5, ElevateRoleShape DEF Onward, Ends, Idle
<1>6. CASE LogoutAccess(q)
  BY <1>0, <1>6, GoesOn DEF LogoutAccess, Onward
<1>7. CASE RequireRole(q)
  BY <1>0, <1>7, RequireRoleShape DEF RequireRole, Onward, Ends, Idle
<1>8. CASE RequireElevated(q)
  BY <1>0, <1>8, RequireElevatedShape DEF RequireElevated, Onward, Ends, Idle
<1>9. ASSUME NEW u \in Users, NEW r \in Roles, FindTarget(q, u, r)
      PROVE  Stays
  <2>1. CASE Ends(q)
    BY <2>1 DEF Ends, Idle
  <2>2. CASE /\ req'[q].target = u /\ req'[q].role = r
             /\ req'[q].at = "write" => role[u] # "admin" \/ r = "admin"
    <3>1. role' = role
      BY <1>9 DEF FindTarget
    <3>2. QED
      BY <2>2, <3>1
  <2>3. QED
    BY <1>0, <1>9, <2>1, <2>2, FindTargetShape
<1>10. CASE CountAdmins(q)
  <2>1. CASE Ends(q)
    BY <2>1 DEF Ends, Idle
  <2>2. CASE ~(Cardinality(Admins) <= 1)
    <3>1. Admins' = Admins
      BY <1>10 DEF CountAdmins, Admins
    <3>2. QED
      BY <2>2, <3>1, TwoAdmins
  <2>3. QED
    BY <1>0, <1>10, <2>1, <2>2, CountAdminsShape
<1>11. ASSUME NEW f \in Families, ReadConsent(q, f)
       PROVE  FALSE
  BY <1>0, <1>11, ReadConsentShape DEF Onward, Ends, Idle
<1>12. CASE Audit(q)
  BY <1>0, <1>12, AuditShape DEF Onward, Ends, Idle
<1>13. QED
  BY <1>1, <1>2, <1>3, <1>4, <1>5, <1>6, <1>7, <1>8, <1>9, <1>10, <1>11, <1>12, Slots

LEMMA LastAdminStep ==
  ASSUME TypeInv, AnotherStays, LastAdminStays, Next
  PROVE  LastAdminStays'
<1>0. TypeOK
  BY DEF TypeInv
<1> SUFFICES ASSUME Admins' = {} PROVE raced'
  BY DEF LastAdminStays
<1>1. CASE UNCHANGED <<role, raced>>
  <2>1. Admins = {}
    BY <1>1 DEF Admins
  <2>2. QED
    BY <1>1, <2>1 DEF LastAdminStays
<1>2. ASSUME NEW p \in Procs, UpdateRole(p)
      PROVE  raced'
  <2> DEFINE u == req[p].target
             r == req[p].role
  <2>1. CASE RoleBecomes(p, u, r) /\ raced' = (raced \/ "admins" \in req[p].since)
    <3>1. u \in Users /\ role' = [role EXCEPT ![u] = r] /\ req[p].at = "write"
      BY <1>2, <2>1, UpdateRoleShape DEF RoleBecomes, UpdateRole
    <3>2. r # "admin" /\ Admins' = Admins \ {u}
      BY <1>0, <3>1, AdminsAfter
    <3>3. CASE role[u] = "admin"
      <4>1. "admins" \in req[p].since
        BY <3>1, <3>2, <3>3 DEF AnotherStays
      <4>2. QED
        BY <2>1, <4>1
    <3>4. CASE role[u] # "admin"
      <4>1. Admins = {}
        BY <3>2, <3>4 DEF Admins
      <4>2. QED
        BY <2>1, <4>1 DEF LastAdminStays
    <3>5. QED
      BY <3>3, <3>4
  <2>2. QED
    BY <1>1, <1>2, <2>1, UpdateRoleShape
<1>3. ASSUME NEW u \in Users, Erase(u)
      PROVE  raced'
  <2>1. role' = [role EXCEPT ![u] = "gone"] /\ raced' = (raced \/ role[u] = "admin")
    BY <1>3 DEF Erase, RoleBecomes
  <2>2. Admins' = Admins \ {u}
    BY <1>0, <2>1, AdminsAfter
  <2>3. QED
    BY <2>1, <2>2 DEF LastAdminStays, Admins
<1>4. QED
  <2>1. raced' = raced \/ (\E p \in Procs : UpdateRole(p)) \/ (\E u \in Users : Erase(u))
    BY Writers
  <2>2. \/ UNCHANGED role
        \/ (\E p \in Procs : UpdateRole(p)) \/ (\E u \in Users : Erase(u))
    BY Writers
  <2>3. QED
    BY <1>1, <1>2, <1>3, <2>1, <2>2

-----------------------------------------------------------------------------
(* Dumps.                                                                  *)

\* The requests that are about to dump f.
Dumping(f) == {p \in Procs : req[p].at = "dump" /\ req[p].family = f}

LEMMA DumpingFinite ==
  ASSUME NEW f
  PROVE  /\ IsFiniteSet(Dumping(f)) /\ Cardinality(Dumping(f)) \in Nat
         /\ IsFiniteSet(Dumping(f)') /\ Cardinality(Dumping(f)') \in Nat
<1>1. Dumping(f) \subseteq Procs /\ Dumping(f)' \subseteq Procs
  BY DEF Dumping
<1>2. QED
  BY <1>1, Constants, FS_Subset, FS_CardinalityType

\* A slot that is kept dumps what it did.
LEMMA KeptDumping ==
  ASSUME NEW q \in Procs, Kept(q), NEW f
  PROVE  q \in Dumping(f)' <=> q \in Dumping(f)
  BY DEF Kept, Dumping

\* A request that ends takes its dump with it, if it was about to.
LEMMA EndsDumping ==
  ASSUME NEW p \in Procs, Ends(p), NEW f
  PROVE  /\ Dumping(f)' = Dumping(f) \ {p}
         /\ Cardinality(Dumping(f)') <= Cardinality(Dumping(f))
         /\ p \in Dumping(f) => Cardinality(Dumping(f)') = Cardinality(Dumping(f)) - 1
<1>1. \A q \in Procs : q # p => (q \in Dumping(f)' <=> q \in Dumping(f))
  BY KeptDumping DEF Ends, Shaped, OthersKept
<1>2. p \notin Dumping(f)'
  BY DEF Ends, Idle, Dumping
<1>3. Dumping(f)' = Dumping(f) \ {p}
  BY <1>1, <1>2 DEF Dumping
<1>4. QED
  BY <1>3, DumpingFinite, FS_RemoveElement, FS_Subset

LEMMA AuditedStep ==
  ASSUME TypeInv, DumpsAudited, Next
  PROVE  DumpsAudited'
<1>0. TypeOK /\ audited \in [Families -> Nat] /\ dumped \in [Families -> Nat]
  BY DEF TypeInv, TypeOK
<1> SUFFICES ASSUME NEW f \in Families
             PROVE  dumped'[f] + Cardinality(Dumping(f)') <= audited'[f]
  BY DEF DumpsAudited, Dumping
<1> DEFINE Covered == dumped'[f] + Cardinality(Dumping(f)') <= audited'[f]
<1>1. /\ dumped[f] + Cardinality(Dumping(f)) <= audited[f]
      /\ dumped[f] \in Nat /\ audited[f] \in Nat
      /\ Cardinality(Dumping(f)) \in Nat /\ Cardinality(Dumping(f)') \in Nat
  BY <1>0, DumpingFinite DEF DumpsAudited, Dumping
<1>2. ASSUME UNCHANGED <<audited, dumped>>, \A q \in Procs : q \in Dumping(f)' => q \in Dumping(f)
      PROVE  Covered
  <2>1. Dumping(f)' \subseteq Dumping(f)
    BY <1>2 DEF Dumping
  <2>2. Cardinality(Dumping(f)') <= Cardinality(Dumping(f))
    BY <2>1, DumpingFinite, FS_Subset
  <2>3. QED
    BY <1>1, <1>2, <2>2
<1>3. ASSUME NEW p \in Procs, Ends(p), UNCHANGED <<audited, dumped>>
      PROVE  Covered
  BY <1>1, <1>3, EndsDumping
<1>4. ASSUME NEW p \in Procs, Shaped(p), req'[p].at # "dump", UNCHANGED <<audited, dumped>>
      PROVE  Covered
  <2>1. \A q \in Procs : q # p => (q \in Dumping(f)' <=> q \in Dumping(f))
    BY <1>4, KeptDumping DEF Shaped, OthersKept
  <2>2. p \notin Dumping(f)'
    BY <1>4 DEF Dumping
  <2>3. QED
    BY <1>2, <1>4, <2>1, <2>2
<1>5. ASSUME NEW p \in Procs, NEW u \in Users, LoginRead(p, u)
      PROVE  Covered
  BY <1>0, <1>4, <1>5, LoginReadShape DEF LoginRead
<1>6. ASSUME NEW p \in Procs, LoginSign(p) \/ ElevateSign(p) \/ LogoutElevated(p) \/ Fail(p)
      PROVE  Covered
  BY <1>0, <1>3, <1>6, FinishEnds DEF LoginSign, ElevateSign, LogoutElevated, Fail
<1>7. ASSUME NEW p \in Procs, NEW kind \in DOMAIN FirstStep, NEW t \in issued,
             NEW e \in issued \cup {NoToken}, Authenticate(p, kind, t, e)
      PROVE  Covered
  BY <1>4, <1>7, AuthenticateShape DEF Authenticate
<1>8. ASSUME NEW p \in Procs, ElevateRole(p)
      PROVE  Covered
  BY <1>3, <1>4, <1>8, ElevateRoleShape DEF ElevateRole, Onward
<1>9. ASSUME NEW p \in Procs, LogoutAccess(p)
      PROVE  Covered
  BY <1>0, <1>4, <1>9, GoesOn DEF LogoutAccess, Onward
<1>10. ASSUME NEW p \in Procs, RequireRole(p)
       PROVE  Covered
  BY <1>0, <1>3, <1>4, <1>10, RequireRoleShape DEF RequireRole, Onward
<1>11. ASSUME NEW p \in Procs, RequireElevated(p)
       PROVE  Covered
  BY <1>0, <1>3, <1>4, <1>11, RequireElevatedShape DEF RequireElevated, Onward
<1>12. ASSUME NEW p \in Procs, NEW u \in Users, NEW r \in Roles, FindTarget(p, u, r)
       PROVE  Covered
  <2>1. Ends(p) \/ (Shaped(p) /\ Onward(p, {"count", "write"}, req[p].late))
    BY <1>0, <1>12, FindTargetShape
  <2>2. UNCHANGED <<audited, dumped>>
    BY <1>12 DEF FindTarget
  <2>3. QED
    BY <1>3, <1>4, <2>1, <2>2 DEF Onward
<1>13. ASSUME NEW p \in Procs, CountAdmins(p)
       PROVE  Covered
  BY <1>0, <1>3, <1>4, <1>13, CountAdminsShape DEF CountAdmins, Onward
<1>14. ASSUME NEW p \in Procs, UpdateRole(p)
       PROVE  Covered
  BY <1>3, <1>14, UpdateRoleShape DEF UpdateRole
<1>15. ASSUME NEW p \in Procs, NEW end \in {0} \cup {now + d : d \in ConsentTTLs},
              SetSupportAccess(p, end)
       PROVE  Covered
  BY <1>0, <1>3, <1>15, SetSupportAccessShape DEF SetSupportAccess
<1>16. ASSUME NEW p \in Procs, NEW g \in Families, ReadConsent(p, g)
       PROVE  Covered
  BY <1>0, <1>3, <1>4, <1>16, ReadConsentShape DEF ReadConsent, Onward
<1>17. ASSUME NEW p \in Procs, Audit(p)
       PROVE  Covered
  <2> DEFINE g == req[p].family
  <2>0. UNCHANGED dumped
    BY <1>17 DEF Audit
  <2>1. CASE Ends(p) /\ UNCHANGED audited
    BY <1>3, <2>0, <2>1
  <2>2. CASE /\ Shaped(p) /\ Onward(p, {"dump"}, req[p].late)
             /\ req'[p].family = g /\ audited' = [audited EXCEPT ![g] = @ + 1]
    <3>1. \A q \in Procs : q # p => (q \in Dumping(f)' <=> q \in Dumping(f))
      BY <2>2, KeptDumping DEF Shaped, OthersKept
    <3>2. p \notin Dumping(f) /\ (p \in Dumping(f)' <=> f = g)
      BY <1>17, <2>2 DEF Dumping, Onward, Audit
    <3>3. CASE f = g
      <4>1. Dumping(f)' = Dumping(f) \cup {p}
        BY <3>1, <3>2, <3>3 DEF Dumping
      <4>2. Cardinality(Dumping(f)') = Cardinality(Dumping(f)) + 1
        BY <3>2, <4>1, DumpingFinite, FS_AddElement
      <4>3. audited'[f] = audited[f] + 1
        BY <1>0, <2>2, <3>3
      <4>4. QED
        BY <1>1, <2>0, <4>2, <4>3
    <3>4. CASE f # g
      <4>1. Dumping(f)' = Dumping(f) /\ audited'[f] = audited[f]
        BY <1>0, <2>2, <3>1, <3>2, <3>4 DEF Dumping
      <4>2. QED
        BY <1>1, <2>0, <4>1
    <3>5. QED
      BY <3>3, <3>4
  <2>3. QED
    BY <1>0, <1>17, <2>1, <2>2, AuditShape
<1>18. ASSUME NEW p \in Procs, Dump(p)
       PROVE  Covered
  <2>1. Ends(p) /\ audited' = audited /\ dumped' = [dumped EXCEPT ![req[p].family] = @ + 1]
    BY <1>0, <1>18, FinishEnds DEF Dump
  <2>2. CASE f = req[p].family
    <3>1. p \in Dumping(f) /\ dumped'[f] = dumped[f] + 1
      BY <1>0, <1>18, <2>1, <2>2 DEF Dumping, Dump
    <3>2. QED
      BY <1>1, <2>1, <3>1, EndsDumping
  <2>3. CASE f # req[p].family
    <3>1. dumped'[f] = dumped[f]
      BY <1>0, <2>1, <2>3
    <3>2. QED
      BY <1>1, <2>1, <3>1, EndsDumping
  <2>4. QED
    BY <2>2, <2>3
<1>19. ASSUME NEW u \in Users, Erase(u)
       PROVE  Covered
  BY <1>0, <1>2, <1>19, EraseShape, KeptDumping DEF Erase
<1>20. ASSUME (\E u \in Users, g \in Families : Move(u, g)) \/ Tick
       PROVE  Covered
  BY <1>2, <1>20 DEF Move, Tick, Dumping
<1>21. QED
  BY <1>5, <1>6, <1>7, <1>8, <1>9, <1>10, <1>11, <1>12, <1>13, <1>14, <1>15, <1>16, <1>17,
     <1>18, <1>19, <1>20 DEF Next

LEMMA ConsentedStep ==
  ASSUME TypeInv, InTime, DumpsConsented, Next
  PROVE  DumpsConsented'
<1>0. TypeOK
  BY DEF TypeInv
<1> DEFINE In(r) == r.at \in {"audit", "dump"}
<1> SUFFICES ASSUME NEW q \in Procs, In(req'[q])
             PROVE  \/ until'[req'[q].family] > req'[q].start
                    \/ "consent" \in req'[q].since
  BY DEF DumpsConsented
<1> DEFINE Consented == \/ until'[req'[q].family] > req'[q].start
                        \/ "consent" \in req'[q].since
<1>1. CASE Kept(q)
  <2>1. /\ In(req[q]) /\ req'[q].family = req[q].family /\ req'[q].start = req[q].start
        /\ req[q].since \subseteq req'[q].since
    BY <1>1 DEF Kept
  <2>2. until[req[q].family] > req[q].start \/ "consent" \in req[q].since
    BY <2>1 DEF DumpsConsented
  <2>3. CASE UNCHANGED until
    BY <2>1, <2>2, <2>3
  <2>4. ASSUME NEW p \in Procs, NEW end \in {0} \cup {now + d : d \in ConsentTTLs},
               SetSupportAccess(p, end)
        PROVE  Consented
    <3>1. p # q
      BY <1>0, <2>4, SetSupportAccessShape DEF Ends, Idle
    <3>2. CASE req[q].family = req[p].tok.family
      BY <1>0, <2>1, <2>4, <3>1, <3>2, SetSupportAccessShape
    <3>3. CASE req[q].family # req[p].tok.family
      <4>1. until'[req[q].family] = until[req[q].family]
        BY <1>0, <2>4, <3>3 DEF SetSupportAccess, TypeOK
      <4>2. QED
        BY <2>1, <2>2, <4>1
    <3>4. QED
      BY <3>2, <3>3
  <2>5. QED
    <3>1. \/ UNCHANGED until
          \/ \E p \in Procs, end \in {0} \cup {now + d : d \in ConsentTTLs} :
               SetSupportAccess(p, end)
      BY DEF Next, LoginRead, LoginSign, Authenticate, ElevateRole, ElevateSign,
             LogoutAccess, LogoutElevated, RequireRole, RequireElevated, FindTarget,
             CountAdmins, UpdateRole, ReadConsent, Audit, Dump, Erase, Move, Fail, Tick
    <3>2. QED
      BY <2>3, <2>4, <3>1
<1>2. CASE req'[q] = Idle
  BY <1>2 DEF Idle
<1>3. ASSUME NEW u \in Users, LoginRead(q, u)
      PROVE  FALSE
  BY <1>0, <1>3, LoginReadShape
<1>4. ASSUME NEW kind \in DOMAIN FirstStep, NEW t \in issued,
             NEW e \in issued \cup {NoToken}, Authenticate(q, kind, t, e)
      PROVE  FALSE
  BY <1>4, AuthenticateShape
<1>5. CASE ElevateRole(q)
  BY <1>5, ElevateRoleShape DEF Onward, Ends, Idle
<1>6. CASE LogoutAccess(q)
  BY <1>0, <1>6, GoesOn DEF LogoutAccess, Onward
<1>7. CASE RequireRole(q)
  BY <1>0, <1>7, RequireRoleShape DEF RequireRole, Onward, Ends, Idle
<1>8. CASE RequireElevated(q)
  BY <1>0, <1>8, RequireElevatedShape DEF RequireElevated, Onward, Ends, Idle
<1>9. ASSUME NEW u \in Users, NEW r \in Roles, FindTarget(q, u, r)
      PROVE  FALSE
  BY <1>0, <1>9, FindTargetShape DEF Onward, Ends, Idle
<1>10. CASE CountAdmins(q)
  BY <1>0, <1>10, CountAdminsShape DEF CountAdmins, Onward, Ends, Idle
<1>11. ASSUME NEW f \in Families, ReadConsent(q, f)
       PROVE  Consented
  <2>1. CASE Ends(q)
    BY <1>2, <2>1 DEF Ends
  <2>2. CASE Onward(q, {"audit"}, req[q].late) /\ req'[q].family = f /\ until[f] > now
    <3>1. req[q].start <= now /\ req[q].start \in Nat /\ now \in Nat /\ until[f] \in Nat
      BY <1>0, <1>11 DEF ReadConsent, InTime, TypeOK, Request
    <3>2. until' = until /\ req'[q].start = req[q].start
      BY <1>11, <2>2 DEF ReadConsent, Onward
    <3>3. QED
      BY <2>2, <3>1, <3>2
  <2>3. QED
    BY <1>0, <1>11, <2>1, <2>2, ReadConsentShape
<1>12. CASE Audit(q)
  <2>1. CASE Ends(q)
    BY <1>2, <2>1 DEF Ends
  <2>2. CASE Onward(q, {"dump"}, req[q].late) /\ req'[q].family = req[q].family
    BY <1>12, <2>2 DEF Audit, Onward, DumpsConsented
  <2>3. QED
    BY <1>0, <1>12, <2>1, <2>2, AuditShape
<1>13. QED
  BY <1>1, <1>2, <1>3, <1>4, <1>5, <1>6, <1>7, <1>8, <1>9, <1>10, <1>11, <1>12, Slots

-----------------------------------------------------------------------------
(* The end of tokens.                                                      *)

Left(u, f) == f # family[u] \/ role[u] = "gone"

\* A Login that reads before its user leaves started before that.
LoginStale ==
  \A p \in Procs : req[p].at = "login" /\ Left(req[p].target, req[p].family)
                   => req[p].start <= moved[req[p].target]

SessionsEnd ==
  \A t \in issued : t.aud = "session" =>
    /\ t.exp <= now + AccessTTL
    /\ Left(t.user, t.family) => t.exp <= moved[t.user] + AccessTTL + ServeMax

\* Authenticate took a session that was valid then.
CameInValid ==
  \A p \in Procs : req[p].at \notin {"idle", "login"} =>
    req[p].tok.aud = "session" /\ req[p].start < req[p].tok.exp

\* What is over: on the blocklist, meant for it, or expired.
Over(t) == t \in blocklist \cup dropped \/ t.exp <= now

OutIsOver ==
  /\ \A t \in out : Over(t)
  /\ \A p \in Procs : req[p].at = "blockElev" => Over(req[p].tok)

\* A user who leaves, leaves now.
LEMMA LeftMoment ==
  ASSUME TypeInv, InTime, Next, NEW u \in Users, NEW f
  PROVE  /\ Left(u, f)' => moved'[u] = now \/ (Left(u, f) /\ moved'[u] = moved[u])
         /\ moved'[u] \in Nat /\ moved'[u] >= moved[u]
<1> DEFINE Moment == /\ Left(u, f)' => moved'[u] = now \/ (Left(u, f) /\ moved'[u] = moved[u])
                     /\ moved'[u] \in Nat /\ moved'[u] >= moved[u]
<1>0. /\ now \in Nat /\ moved[u] \in Nat /\ moved[u] <= now
      /\ role \in [Users -> Roles \cup {"gone"}] /\ family \in [Users -> Families]
      /\ moved \in [Users -> Nat]
  BY DEF TypeInv, TypeOK, InTime
<1>1. ASSUME NEW v \in Users, Erase(v)
      PROVE  Moment
  <2>1. /\ role' = [role EXCEPT ![v] = "gone"] /\ moved' = [moved EXCEPT ![v] = now]
        /\ family' = family
    BY <1>1 DEF Erase, RoleBecomes
  <2>2. CASE u = v
    <3>1. moved'[u] = now
      BY <1>0, <2>1, <2>2
    <3>2. QED
      BY <1>0, <3>1 DEF Left
  <2>3. CASE u # v
    <3>1. moved'[u] = moved[u] /\ role'[u] = role[u] /\ family'[u] = family[u]
      BY <1>0, <2>1, <2>3
    <3>2. QED
      BY <1>0, <3>1 DEF Left
  <2>4. QED
    BY <2>2, <2>3
<1>2. ASSUME NEW v \in Users, NEW g \in Families, Move(v, g)
      PROVE  Moment
  <2>1. /\ family' = [family EXCEPT ![v] = g] /\ moved' = [moved EXCEPT ![v] = now]
        /\ role' = role
    BY <1>2 DEF Move
  <2>2. CASE u = v
    <3>1. moved'[u] = now
      BY <1>0, <2>1, <2>2
    <3>2. QED
      BY <1>0, <3>1 DEF Left
  <2>3. CASE u # v
    <3>1. moved'[u] = moved[u] /\ role'[u] = role[u] /\ family'[u] = family[u]
      BY <1>0, <2>1, <2>3
    <3>2. QED
      BY <1>0, <3>1 DEF Left
  <2>4. QED
    BY <2>2, <2>3
<1>3. CASE UNCHANGED <<role, family, moved>>
  BY <1>0, <1>3 DEF Left
<1>4. ASSUME NEW p \in Procs, UpdateRole(p), UNCHANGED <<family, moved>>
      PROVE  Moment
  <2>1. CASE RoleBecomes(p, req[p].target, req[p].role)
    <3>1. role' = [role EXCEPT ![req[p].target] = req[p].role] /\ req[p].role # "gone"
      BY <1>4, <2>1, UpdateRoleShape DEF RoleBecomes, Roles
    <3>2. QED
      BY <1>0, <1>4, <3>1 DEF Left
  <2>2. QED
    BY <1>3, <1>4, <2>1, UpdateRoleShape
<1>5. QED
  <2>1. \/ UNCHANGED role
        \/ (\E p \in Procs : UpdateRole(p)) \/ (\E v \in Users : Erase(v))
    BY Writers
  <2>2. \/ UNCHANGED <<family, moved>>
        \/ (\E v \in Users : Erase(v)) \/ (\E v \in Users, g \in Families : Move(v, g))
    BY Writers
  <2>3. QED
    BY <1>1, <1>2, <1>3, <1>4, <2>1, <2>2

LEMMA LoginStep ==
  ASSUME TypeInv, InTime, LoginStale, Next
  PROVE  LoginStale'
<1>0. TypeOK
  BY DEF TypeInv
<1> SUFFICES ASSUME NEW q \in Procs, req'[q].at = "login",
                    \/ req'[q].family # family'[req'[q].target]
                    \/ role'[req'[q].target] = "gone"
             PROVE  req'[q].start <= moved'[req'[q].target]
  BY DEF LoginStale, Left
<1>1. CASE Kept(q)
  <2> DEFINE u == req[q].target
             f == req[q].family
  <2>1. /\ req[q].at = "login" /\ req'[q].target = u /\ req'[q].family = f
        /\ req'[q].start = req[q].start
    BY <1>1 DEF Kept
  <2>2. u \in Users /\ req[q].start <= now
    BY <2>1 DEF TypeInv, WellFormed, InTime
  <2>3. f # family'[u] \/ role'[u] = "gone"
    BY <2>1
  <2>4. moved'[u] = now \/ (Left(u, f) /\ moved'[u] = moved[u])
    <3> HIDE DEF u, f
    <3>1. QED
      BY <2>2, <2>3, LeftMoment DEF Left
  <2>5. QED
    BY <2>1, <2>2, <2>4 DEF LoginStale
<1>2. CASE req'[q] = Idle
  BY <1>2 DEF Idle
<1>3. ASSUME NEW u \in Users, LoginRead(q, u)
      PROVE  FALSE
  BY <1>0, <1>3, LoginReadShape DEF LoginRead
<1>4. ASSUME NEW kind \in DOMAIN FirstStep, NEW t \in issued,
             NEW e \in issued \cup {NoToken}, Authenticate(q, kind, t, e)
      PROVE  FALSE
  BY <1>4, AuthenticateShape
<1>5. CASE ElevateRole(q)
  BY <1>5, ElevateRoleShape DEF Onward, Ends, Idle
<1>6. CASE LogoutAccess(q)
  BY <1>0, <1>6, GoesOn DEF LogoutAccess, Onward
<1>7. CASE RequireRole(q)
  BY <1>0, <1>7, RequireRoleShape DEF RequireRole, Onward, Ends, Idle
<1>8. CASE RequireElevated(q)
  BY <1>0, <1>8, RequireElevatedShape DEF RequireElevated, Onward, Ends, Idle
<1>9. ASSUME NEW u \in Users, NEW r \in Roles, FindTarget(q, u, r)
      PROVE  FALSE
  BY <1>0, <1>9, FindTargetShape DEF Onward, Ends, Idle
<1>10. CASE CountAdmins(q)
  BY <1>0, <1>10, CountAdminsShape DEF CountAdmins, Onward, Ends, Idle
<1>11. ASSUME NEW f \in Families, ReadConsent(q, f)
       PROVE  FALSE
  BY <1>0, <1>11, ReadConsentShape DEF Onward, Ends, Idle
<1>12. CASE Audit(q)
  BY <1>0, <1>12, AuditShape DEF Onward, Ends, Idle
<1>13. QED
  BY <1>1, <1>2, <1>3, <1>4, <1>5, <1>6, <1>7, <1>8, <1>9, <1>10, <1>11, <1>12, Slots

LEMMA SessionsStep ==
  ASSUME TypeInv, InTime, LoginStale, SessionsEnd, Next
  PROVE  SessionsEnd'
<1>0. TypeOK /\ now \in Nat /\ AccessTTL \in Nat /\ ServeMax \in Nat
  BY Constants DEF TypeInv, TypeOK
<1>1. now' \in Nat /\ now' >= now
  BY <1>0, Writers DEF Tick
<1> DEFINE Gone(t) == t.family # family'[t.user] \/ role'[t.user] = "gone"
           Ending(t) == /\ t.exp <= now' + AccessTTL
                        /\ Gone(t) => t.exp <= moved'[t.user] + AccessTTL + ServeMax
<1>2. ASSUME NEW t \in issued, t.aud = "session"
      PROVE  Ending(t)
  <2>1. t.user \in Users /\ t.exp \in Nat
    BY <1>0 DEF TypeOK, Token
  <2>2. /\ t.exp <= now + AccessTTL
        /\ Left(t.user, t.family) => t.exp <= moved[t.user] + AccessTTL + ServeMax
    BY <1>2 DEF SessionsEnd
  <2>3. Gone(t) => \/ moved'[t.user] = now
                   \/ Left(t.user, t.family) /\ moved'[t.user] = moved[t.user]
    BY <2>1, LeftMoment DEF Left
  <2>4. QED
    BY <1>0, <1>1, <2>1, <2>2, <2>3
<1>3. ASSUME NEW p \in Procs, LoginSign(p), NEW t \in issued' \ issued
      PROVE  Ending(t)
  <2> DEFINE u == req[p].target
             f == req[p].family
  <2>1. t = Sign(u, f, "session", AccessTTL) /\ UNCHANGED <<now, moved, role, family>>
    BY <1>3 DEF LoginSign
  <2>2. t.user = u /\ t.family = f /\ t.exp = now + AccessTTL
    BY <2>1 DEF Sign
  <2>3. /\ u \in Users /\ now <= req[p].start + ServeMax /\ req[p].start \in Nat
        /\ moved[u] \in Nat
    BY <1>0, <1>3 DEF LoginSign, TypeInv, WellFormed, InTime, TypeOK, Request
  <2>4. Gone(t) => req[p].start <= moved[u]
    BY <1>3, <2>1, <2>2 DEF LoginSign, LoginStale, Left
  <2> HIDE DEF u, f, Gone
  <2>5. QED
    BY <1>0, <2>1, <2>2, <2>3, <2>4
<1>4. ASSUME NEW p \in Procs, ElevateSign(p), NEW t \in issued' \ issued
      PROVE  t.aud # "session"
  BY <1>4 DEF ElevateSign, Sign
<1>5. ASSUME NEW t \in issued', t.aud = "session"
      PROVE  Ending(t)
  <2> HIDE DEF Ending
  <2>1. CASE t \in issued
    BY <1>2, <1>5, <2>1
  <2>2. CASE t \notin issued
    <3>1. \E p \in Procs : LoginSign(p) \/ ElevateSign(p)
      BY <1>5, <2>2, Writers
    <3>2. QED
      BY <1>3, <1>4, <1>5, <2>2, <3>1
  <2>3. QED
    BY <2>1, <2>2
<1>6. QED
  BY <1>5 DEF SessionsEnd, Left

LEMMA CameInStep ==
  ASSUME TypeInv, CameInValid, Next
  PROVE  CameInValid'
<1>0. TypeOK
  BY DEF TypeInv
<1> DEFINE In(r) == r.at \notin {"idle", "login"}
           ValidThen(r) == r.tok.aud = "session" /\ r.start < r.tok.exp
<1> SUFFICES ASSUME NEW q \in Procs, In(req'[q]) PROVE ValidThen(req'[q])
  BY DEF CameInValid
<1>1. ASSUME In(req[q]), req'[q].tok = req[q].tok, req'[q].start = req[q].start
      PROVE  ValidThen(req'[q])
  BY <1>1 DEF CameInValid
<1>2. CASE Kept(q)
  BY <1>1, <1>2 DEF Kept
<1>3. CASE req'[q] = Idle
  BY <1>3 DEF Idle
<1>4. ASSUME NEW u \in Users, LoginRead(q, u)
      PROVE  FALSE
  BY <1>0, <1>4, LoginReadShape
<1>5. ASSUME NEW kind \in DOMAIN FirstStep, NEW t \in issued,
             NEW e \in issued \cup {NoToken}, Authenticate(q, kind, t, e)
      PROVE  ValidThen(req'[q])
  <2>1. t \in Token /\ t.aud # "admin" /\ t.exp > now /\ now \in Nat
    BY <1>0, <1>5 DEF Authenticate, Valid, TypeOK
  <2>2. t.aud = "session" /\ t.exp \in Nat
    BY <2>1 DEF Token
  <2>3. req'[q].tok = t /\ req'[q].start = now
    BY <1>5, AuthenticateShape
  <2>4. QED
    BY <2>1, <2>2, <2>3
<1>6. ASSUME NEW stmts, NEW l, Onward(q, stmts, l), In(req[q])
      PROVE  ValidThen(req'[q])
  BY <1>1, <1>6 DEF Onward
<1> HIDE DEF ValidThen
<1>7. CASE ElevateRole(q)
  BY <1>3, <1>6, <1>7, ElevateRoleShape DEF ElevateRole, Ends
<1>8. CASE LogoutAccess(q)
  BY <1>0, <1>6, <1>8, GoesOn DEF LogoutAccess
<1>9. CASE RequireRole(q)
  BY <1>0, <1>3, <1>6, <1>9, RequireRoleShape DEF RequireRole, Ends
<1>10. CASE RequireElevated(q)
  BY <1>0, <1>3, <1>6, <1>10, RequireElevatedShape DEF RequireElevated, Ends
<1>11. ASSUME NEW u \in Users, NEW r \in Roles, FindTarget(q, u, r)
       PROVE  ValidThen(req'[q])
  <2>1. Ends(q) \/ Onward(q, {"count", "write"}, req[q].late)
    BY <1>0, <1>11, FindTargetShape
  <2>2. In(req[q])
    BY <1>11 DEF FindTarget
  <2>3. QED
    BY <1>3, <1>6, <2>1, <2>2 DEF Ends
<1>12. CASE CountAdmins(q)
  BY <1>0, <1>3, <1>6, <1>12, CountAdminsShape DEF CountAdmins, Ends
<1>13. ASSUME NEW f \in Families, ReadConsent(q, f)
       PROVE  ValidThen(req'[q])
  BY <1>0, <1>3, <1>6, <1>13, ReadConsentShape DEF ReadConsent, Ends
<1>14. CASE Audit(q)
  BY <1>0, <1>3, <1>6, <1>14, AuditShape DEF Audit, Ends
<1>15. QED
  BY <1>2, <1>3, <1>4, <1>5, <1>7, <1>8, <1>9, <1>10, <1>11, <1>12, <1>13, <1>14, Slots

LEMMA OverStays ==
  ASSUME TypeInv, Next, NEW t \in issued, Over(t)
  PROVE  Over(t)'
<1>0. now \in Nat /\ t.exp \in Nat
  BY DEF TypeInv, TypeOK, Token
<1>1. now' \in Nat /\ now' >= now
  BY <1>0, Writers DEF Tick
<1>2. blocklist \cup dropped \subseteq (blocklist \cup dropped)'
  BY Writers DEF LogoutAccess, LogoutElevated, Block
<1>3. QED
  BY <1>0, <1>1, <1>2 DEF Over

\* What a Logout blocks is over then.
LEMMA BlockedIsOver ==
  ASSUME TypeInv, NEW t \in issued, Block(t), now' = now
  PROVE  Over(t)'
<1>0. now \in Nat /\ t.exp \in Nat
  BY DEF TypeInv, TypeOK, Token
<1>1. QED
  BY <1>0 DEF Block, Valid, Over

LEMMA OutStep ==
  ASSUME TypeInv, OutIsOver, Next
  PROVE  OutIsOver'
<1>0. TypeOK
  BY DEF TypeInv
<1> DEFINE Past(t) == t \in blocklist' \cup dropped' \/ t.exp <= now'
<1>1. ASSUME NEW t \in out
      PROVE  Past(t)
  BY <1>0, <1>1, OverStays DEF OutIsOver, TypeOK, Over
<1>2. ASSUME NEW p \in Procs, LogoutElevated(p), NEW t \in out' \ out
      PROVE  Past(t)
  <2>1. req[p].tok \in issued /\ Over(req[p].tok) /\ now' = now
    BY <1>2, TokenTyped DEF LogoutElevated, OutIsOver
  <2>2. req[p].elev # NoToken => req[p].elev \in issued
    BY DEF TypeInv, WellFormed
  <2>3. Past(req[p].tok)
    BY <2>1, OverStays DEF Over
  <2>4. req[p].elev # NoToken => Past(req[p].elev)
    BY <1>2, <2>1, <2>2, BlockedIsOver DEF LogoutElevated, Over
  <2>5. t = req[p].tok \/ (req[p].elev # NoToken /\ t = req[p].elev)
    BY <1>2 DEF LogoutElevated, Block
  <2>6. QED
    BY <2>3, <2>4, <2>5
<1>3. \A t \in out' : Past(t)
  <2>1. out' = out \/ \E p \in Procs : LogoutAccess(p) \/ LogoutElevated(p)
    BY Writers
  <2>2. (\E p \in Procs : LogoutAccess(p)) => out' = out
    BY DEF LogoutAccess
  <2> HIDE DEF Past
  <2>3. QED
    BY <1>1, <1>2, <2>1, <2>2
<1>4. ASSUME NEW q \in Procs, req'[q].at = "blockElev"
      PROVE  Past(req'[q].tok)
  <2>1. CASE Kept(q)
    <3>1. req[q].at = "blockElev" /\ req'[q].tok = req[q].tok
      BY <1>4, <2>1 DEF Kept
    <3>2. req[q].tok \in issued /\ Over(req[q].tok)
      BY <3>1, TokenTyped DEF OutIsOver
    <3>3. Past(req[q].tok)
      BY <3>2, OverStays DEF Over
    <3>4. QED
      BY <3>1, <3>3
  <2>2. CASE req'[q] = Idle
    BY <1>4, <2>2 DEF Idle
  <2>3. CASE LogoutAccess(q)
    <3>1. req[q].tok \in issued /\ Block(req[q].tok) /\ now' = now
      BY <2>3, TokenTyped DEF LogoutAccess
    <3>2. Past(req[q].tok)
      BY <3>1, BlockedIsOver DEF Over
    <3>3. req'[q].tok = req[q].tok
      BY <1>0, <2>3, GoesOn DEF LogoutAccess, Onward
    <3>4. QED
      BY <3>2, <3>3
  <2>4. ASSUME NEW u \in Users, LoginRead(q, u)
        PROVE  FALSE
    BY <1>0, <1>4, <2>4, LoginReadShape
  <2>5. ASSUME NEW kind \in DOMAIN FirstStep, NEW t \in issued,
               NEW e \in issued \cup {NoToken}, Authenticate(q, kind, t, e)
        PROVE  FALSE
    BY <1>4, <2>5, AuthenticateShape
  <2>6. ~ElevateRole(q)
    BY <1>4, ElevateRoleShape DEF Onward, Ends, Idle
  <2>7. ~RequireRole(q)
    BY <1>0, <1>4, RequireRoleShape DEF Onward, Ends, Idle
  <2>8. ~RequireElevated(q)
    BY <1>0, <1>4, RequireElevatedShape DEF Onward, Ends, Idle
  <2>9. ASSUME NEW u \in Users, NEW r \in Roles, FindTarget(q, u, r)
        PROVE  FALSE
    BY <1>0, <1>4, <2>9, FindTargetShape DEF Onward, Ends, Idle
  <2>10. ~CountAdmins(q)
    BY <1>0, <1>4, CountAdminsShape DEF Onward, Ends, Idle
  <2>11. ASSUME NEW f \in Families, ReadConsent(q, f)
         PROVE  FALSE
    BY <1>0, <1>4, <2>11, ReadConsentShape DEF Onward, Ends, Idle
  <2>12. ~Audit(q)
    BY <1>0, <1>4, AuditShape DEF Onward, Ends, Idle
  <2>13. QED
    BY <2>1, <2>2, <2>3, <2>4, <2>5, <2>6, <2>7, <2>8, <2>9, <2>10, <2>11, <2>12, Slots
<1>5. QED
  BY <1>3, <1>4 DEF OutIsOver, Over

LEMMA LoggedOutStep ==
  ASSUME TypeInv, OutIsOver, LoggedOutStaysOut, Next
  PROVE  LoggedOutStaysOut'
<1>0. TypeOK /\ dropped \subseteq dropped'
  BY Writers DEF TypeInv, LogoutAccess, LogoutElevated, Block
<1> DEFINE Unwritten(r) == r.late => r.tok \in dropped' \/ r.elev \in dropped'
<1> SUFFICES ASSUME NEW q \in Procs PROVE Unwritten(req'[q])
  BY DEF LoggedOutStaysOut
<1>1. ASSUME req'[q].late = req[q].late, req'[q].tok = req[q].tok, req'[q].elev = req[q].elev
      PROVE  Unwritten(req'[q])
  BY <1>0, <1>1 DEF LoggedOutStaysOut
<1>2. CASE Kept(q)
  BY <1>1, <1>2 DEF Kept
<1>3. CASE req'[q] = Idle
  BY <1>3 DEF Idle
<1>4. ASSUME NEW u \in Users, LoginRead(q, u)
      PROVE  Unwritten(req'[q])
  BY <1>0, <1>4, LoginReadShape
\* A token that was given to a Logout, is valid and not on the blocklist.
<1>5. ASSUME NEW t \in out, Valid(t), t \notin blocklist
      PROVE  t \in dropped'
  <2>1. Over(t) /\ t.exp > now /\ t.exp \in Nat /\ now \in Nat
    BY <1>0, <1>5 DEF OutIsOver, Valid, TypeOK, Token
  <2>2. QED
    BY <1>0, <1>5, <2>1 DEF Over
<1>6. ASSUME NEW kind \in DOMAIN FirstStep, NEW t \in issued,
             NEW e \in issued \cup {NoToken}, Authenticate(q, kind, t, e)
      PROVE  Unwritten(req'[q])
  <2>1. req'[q].tok = t /\ req'[q].late = (t \in out)
    BY <1>6, AuthenticateShape
  <2>2. Valid(t) /\ t \notin blocklist
    BY <1>6 DEF Authenticate
  <2>3. QED
    BY <1>5, <2>1, <2>2
<1>7. ASSUME NEW stmts, Onward(q, stmts, req[q].late)
      PROVE  Unwritten(req'[q])
  BY <1>1, <1>7 DEF Onward
<1>8. CASE RequireElevated(q)
  <2> DEFINE e == req[q].elev
  <2>1. CASE Onward(q, {"find", "consent"}, req[q].late \/ e \in out) /\ ElevationHolds(e, req[q].tok)
    <3>1. /\ req'[q].tok = req[q].tok /\ req'[q].elev = e
          /\ req'[q].late = (req[q].late \/ e \in out)
          /\ Valid(e) /\ e \notin blocklist
      BY <2>1 DEF Onward, ElevationHolds
    <3>2. e \in out => e \in dropped'
      BY <1>5, <3>1
    <3>3. req[q].late => req[q].tok \in dropped' \/ e \in dropped'
      BY <1>0 DEF LoggedOutStaysOut
    <3>4. QED
      BY <3>1, <3>2, <3>3
  <2>2. QED
    BY <1>0, <1>3, <1>8, <2>1, RequireElevatedShape DEF Ends
<1> HIDE DEF Unwritten
<1>9. CASE ElevateRole(q)
  BY <1>3, <1>7, <1>9, ElevateRoleShape DEF Ends
<1>10. CASE LogoutAccess(q)
  BY <1>0, <1>7, <1>10, GoesOn DEF LogoutAccess
<1>11. CASE RequireRole(q)
  BY <1>0, <1>3, <1>7, <1>11, RequireRoleShape DEF Ends
<1>12. ASSUME NEW u \in Users, NEW r \in Roles, FindTarget(q, u, r)
       PROVE  Unwritten(req'[q])
  BY <1>0, <1>3, <1>7, <1>12, FindTargetShape DEF Ends
<1>13. CASE CountAdmins(q)
  BY <1>0, <1>3, <1>7, <1>13, CountAdminsShape DEF Ends
<1>14. ASSUME NEW f \in Families, ReadConsent(q, f)
       PROVE  Unwritten(req'[q])
  BY <1>0, <1>3, <1>7, <1>14, ReadConsentShape DEF Ends
<1>15. CASE Audit(q)
  BY <1>0, <1>3, <1>7, <1>15, AuditShape DEF Ends
<1>16. QED
  BY <1>2, <1>3, <1>4, <1>6, <1>8, <1>9, <1>10, <1>11, <1>12, <1>13, <1>14, <1>15, Slots

-----------------------------------------------------------------------------
(* The theorems.                                                           *)

\* What holds in every state, and is enough to carry itself on.
IInv ==
  /\ TypeInv /\ InTime /\ ElevatedProven /\ PassedRole /\ ProvedRecently
  /\ AnotherStays /\ LastAdminStays /\ DumpsCovered
  /\ LoginStale /\ SessionsEnd /\ CameInValid /\ OutIsOver /\ LoggedOutStaysOut

LEMMA IInvInit == Init => IInv
<1> SUFFICES ASSUME Init PROVE IInv
  OBVIOUS
<1>1. \A p \in Procs : req[p] = Idle
  BY DEF Init
<1>2. TypeInv
  BY TypesInit
<1>3. InTime /\ ElevatedProven /\ SessionsEnd
  BY <1>1 DEF Init, InTime, ElevatedProven, SessionsEnd, Idle
<1>4. PassedRole /\ ProvedRecently /\ AnotherStays /\ DumpsConsented /\ LoginStale
      /\ CameInValid /\ LoggedOutStaysOut
  BY <1>1 DEF PassedRole, ProvedRecently, AnotherStays, DumpsConsented, LoginStale,
              CameInValid, LoggedOutStaysOut, Idle, Acting, Behind
<1>5. OutIsOver
  BY <1>1 DEF Init, OutIsOver, Idle
<1>6. LastAdminStays
  BY DEF Init, LastAdminStays, Admins
<1>7. DumpsAudited
  <2>1. ASSUME NEW f \in Families
        PROVE  Dumping(f) = {}
    BY <1>1 DEF Dumping, Idle
  <2>2. ASSUME NEW f \in Families
        PROVE  dumped[f] + Cardinality(Dumping(f)) <= audited[f]
    BY <2>1, FS_EmptySet DEF Init
  <2>3. QED
    BY <2>2 DEF DumpsAudited, Dumping
<1>8. QED
  BY <1>2, <1>3, <1>4, <1>5, <1>6, <1>7 DEF IInv, DumpsCovered

LEMMA IInvStep == IInv /\ [Next]_vars => IInv'
<1> SUFFICES ASSUME IInv, [Next]_vars PROVE IInv'
  OBVIOUS
<1>1. TypeInv'
  BY TypesStep DEF IInv
<1>2. CASE Next
  <2>1. InTime'
    BY <1>1, <1>2, InTimeStep DEF IInv
  <2>2. ElevatedProven' /\ PassedRole' /\ ProvedRecently'
    BY <1>2, ElevatedStep, PassedRoleStep, ProvedStep DEF IInv
  <2>3. AnotherStays' /\ LastAdminStays'
    BY <1>2, AnotherStep, LastAdminStep DEF IInv
  <2>4. DumpsCovered'
    BY <1>2, AuditedStep, ConsentedStep DEF IInv, DumpsCovered
  <2>5. LoginStale' /\ SessionsEnd' /\ CameInValid'
    BY <1>2, LoginStep, SessionsStep, CameInStep DEF IInv
  <2>6. OutIsOver' /\ LoggedOutStaysOut'
    BY <1>2, OutStep, LoggedOutStep DEF IInv
  <2>7. QED
    BY <1>1, <2>1, <2>2, <2>3, <2>4, <2>5, <2>6 DEF IInv
<1>3. CASE UNCHANGED vars
  <2> USE <1>3 DEF vars, IInv
  <2>1. InTime' /\ ElevatedProven' /\ PassedRole' /\ ProvedRecently'
    BY DEF InTime, ElevatedProven, PassedRole, ProvedRecently, Acting
  <2>2. AnotherStays' /\ LastAdminStays'
    BY DEF AnotherStays, LastAdminStays, Admins
  <2>3. DumpsCovered'
    BY DEF DumpsCovered, DumpsAudited, DumpsConsented
  <2>4. LoginStale' /\ SessionsEnd' /\ CameInValid'
    BY DEF LoginStale, SessionsEnd, CameInValid, Left
  <2>5. OutIsOver' /\ LoggedOutStaysOut'
    BY DEF OutIsOver, Over, LoggedOutStaysOut
  <2>6. QED
    BY <1>1, <2>1, <2>2, <2>3, <2>4, <2>5
<1>4. QED
  BY <1>2, <1>3

LEMMA Invariance == Spec => []IInv
  BY IInvInit, IInvStep, PTL DEF Spec

\* Tables, tokens, requests and history are well typed in every state.
THEOREM Types == Spec => []TypeOK
<1>1. IInv => TypeOK
  BY DEF IInv, TypeInv
<1>2. QED
  BY <1>1, Invariance, PTL

\* Nobody acts behind the chain of /admin without the role of now, or of when
\* the request passed RequireRole, and a password given to Elevate a while ago
\* (internal/middleware/admin.go:22-112).
THEOREM Acts == Spec => []ActsAsProven
<1>1. IInv => ActsAsProven
  BY DEF IInv, ActsAsProven, ActsInRole, PassedRole, Acting, Behind
<1>2. QED
  BY <1>1, Invariance, PTL

\* A system without an administrator has come from a stale count or from an
\* administrator who has deleted the account (internal/handlers/admin.go:211-223).
THEOREM LastAdmin == Spec => []LastAdminStays
<1>1. IInv => LastAdminStays
  BY DEF IInv
<1>2. QED
  BY <1>1, Invariance, PTL

\* Every dump has its row in the audit and its consent
\* (internal/handlers/admin.go:463-507).
THEOREM Dumps == Spec => []DumpsCovered
<1>1. IInv => DumpsCovered
  BY DEF IInv
<1>2. QED
  BY <1>1, Invariance, PTL

\* A token of someone who has left lapses, and one that has been logged out is
\* refused (internal/auth/jwt.go:55-60, internal/middleware/auth.go:54-61).
THEOREM TokensLapse == Spec => []TokensEnd
<1>1. ASSUME IInv PROVE StaleTokensDie
  <2> SUFFICES ASSUME NEW p \in Procs, req[p].tok # NoToken,
                      \/ req[p].tok.family # family[req[p].tok.user]
                      \/ role[req[p].tok.user] = "gone"
               PROVE  req[p].start < moved[req[p].tok.user] + AccessTTL + ServeMax
    BY DEF StaleTokensDie
  <2> DEFINE t == req[p].tok
  <2>0. TypeInv /\ TypeOK
    BY <1>1 DEF IInv, TypeInv
  <2>1. req[p].at \notin {"idle", "login"}
    BY <2>0 DEF TypeInv, WellFormed, Idle
  <2>2. t \in issued /\ t.user \in Users /\ t.exp \in Nat
    BY <2>0, <2>1, TokenTyped
  <2>3. t.aud = "session" /\ req[p].start < t.exp
    BY <1>1, <2>1 DEF IInv, CameInValid
  <2>4. t.exp <= moved[t.user] + AccessTTL + ServeMax
    BY <1>1, <2>2, <2>3 DEF IInv, SessionsEnd, Left
  <2>5. req[p].start \in Nat /\ moved[t.user] \in Nat /\ AccessTTL \in Nat /\ ServeMax \in Nat
    BY <2>0, <2>2, Constants DEF TypeOK, Request
  <2>6. QED
    BY <2>2, <2>3, <2>4, <2>5
<1>2. IInv => TokensEnd
  BY <1>1 DEF IInv, TokensEnd
<1>3. QED
  BY <1>2, Invariance, PTL

-----------------------------------------------------------------------------
(* The limiter.                                                            *)

LimiterTypes ==
  /\ instant \in 0..LastInstant /\ asked \in 0..MaxAsked /\ restarts \in Nat
  /\ entries \in [Replicas -> [Keys -> [count : 0..MaxPerWindow, resetAt : Int]]]
  /\ admitted \in SUBSET Ever /\ IsFiniteSet(admitted) /\ denied \in SUBSET Ever
  /\ \A a \in admitted : a.at <= instant /\ a.nth < asked

\* What r has admitted of k from s on.
Since(r, k, s) == {a \in admitted : a.replica = r /\ a.key = k /\ a.at >= s}

\* The count of a window that is open is that of requests admitted in it.
Counted ==
  \A r \in Replicas, k \in Keys : ~Expired(entries[r][k]) =>
    /\ entries[r][k].resetAt <= instant + Window
    /\ Cardinality(Since(r, k, entries[r][k].resetAt - Window)) >= entries[r][k].count

\* Each admitted request has a label: the life of the process that admitted it, which
\* of two half the windows of that life, taken in turn, and its place in the window.
Lives == 1..(Cardinality(Replicas) + restarts)

LabelTypes(life, turn, era, half, place) ==
  /\ life \in [Replicas -> Lives] /\ \A r, q \in Replicas : life[r] = life[q] => r = q
  /\ turn \in [Replicas -> [Keys -> {0, 1}]]
  /\ era \in [Ever -> Nat] /\ half \in [Ever -> {0, 1}] /\ place \in [Ever -> 1..MaxPerWindow]
  /\ \A a \in admitted : era[a] \in Lives

SameLabel(era, half, place, a, b) ==
  a.key = b.key /\ era[a] = era[b] /\ half[a] = half[b] /\ place[a] = place[b]

\* Two requests with one label are further apart than a window.
Apart(era, half, place) ==
  \A a, b \in admitted :
    a # b /\ SameLabel(era, half, place, a, b) => a.at > b.at + Window \/ b.at > a.at + Window

\* Where a request stands to the window of its process and key: in it, or before it,
\* and with the half of an older window a whole window before.
Stands(e, h, a, aHalf, aPlace) ==
  IF Expired(e)
  THEN a.at < instant /\ (aHalf # h => a.at + Window < instant)
  ELSE LET s == e.resetAt - Window IN
       IF aHalf = h THEN a.at + Window < s \/ (a.at >= s /\ aPlace <= e.count) ELSE a.at < s

Standing(life, turn, era, half, place) ==
  \A r \in Replicas, a \in admitted :
    era[a] = life[r] => Stands(entries[r][a.key], turn[r][a.key], a, half[a], place[a])

Labelled(life, turn, era, half, place) ==
  /\ LabelTypes(life, turn, era, half, place)
  /\ Apart(era, half, place)
  /\ Standing(life, turn, era, half, place)

LimitInv ==
  /\ LimiterTypes /\ Counted /\ DeniedWhenFull
  /\ \E life, turn, era, half, place : Labelled(life, turn, era, half, place)

LEMMA LimiterConstants ==
  /\ MaxPerWindow \in Nat /\ MaxPerWindow >= 1 /\ Window \in Nat /\ Window >= 1
  /\ LastInstant \in Nat /\ MaxAsked \in Nat /\ MaxRestarts \in Nat
  /\ IsFiniteSet(Replicas) /\ Cardinality(Replicas) \in Nat
  BY LimiterAssumption, FS_CardinalityType

LEMMA LimiterStart == LimiterInit => LimitInv
<1> SUFFICES ASSUME LimiterInit PROVE LimitInv
  OBVIOUS
<1> USE LimiterConstants
<1>1. LimiterTypes
  <2>1. IsFiniteSet({})
    BY FS_EmptySet
  <2>2. NoEntry \in [count : 0..MaxPerWindow, resetAt : Int]
    BY DEF NoEntry
  <2>3. QED
    BY <2>1, <2>2 DEF LimiterInit, LimiterTypes
<1>2. \A r \in Replicas, k \in Keys : Expired(entries[r][k])
  BY DEF LimiterInit, Expired, NoEntry
<1>3. Counted /\ DeniedWhenFull
  BY <1>2 DEF LimiterInit, Counted, DeniedWhenFull
<1>4. \E life, turn, era, half, place : Labelled(life, turn, era, half, place)
  <2>1. Cardinality(1..Cardinality(Replicas)) = Cardinality(Replicas) /\ IsFiniteSet(1..Cardinality(Replicas))
    BY FS_Interval
  <2>2. PICK life : life \in Bijection(Replicas, 1..Cardinality(Replicas))
    BY <2>1, FS_SameCardinalityBij DEF ExistsBijection
  <2>3. life \in [Replicas -> Lives] /\ \A r, q \in Replicas : life[r] = life[q] => r = q
    BY <2>2 DEF Bijection, Injection, IsInjective, LimiterInit, Lives
  <2> DEFINE turn == [r \in Replicas |-> [k \in Keys |-> 0]]
             zero == [a \in Ever |-> 0]
             one == [a \in Ever |-> 1]
  <2>4. LabelTypes(life, turn, one, zero, one)
    BY <2>3 DEF LabelTypes, LimiterInit
  <2>5. Apart(one, zero, one) /\ Standing(life, turn, one, zero, one)
    BY DEF Apart, Standing, LimiterInit
  <2>6. QED
    BY <2>4, <2>5 DEF Labelled
<1>5. QED
  BY <1>1, <1>3, <1>4 DEF LimitInv

\* Nothing is admitted or denied, and no entry is set but to one that has expired.
LEMMA LimiterCalm ==
  ASSUME LimitInv, instant' \in {instant, instant + 1}, instant' \in 0..LastInstant,
         restarts' = restarts, UNCHANGED <<admitted, denied, asked>>,
         entries' \in [Replicas -> [Keys -> [count : 0..MaxPerWindow, resetAt : Int]]],
         \A r \in Replicas, k \in Keys :
           \/ entries'[r][k] = entries[r][k]
           \/ Expired(entries[r][k]) /\ entries'[r][k] = NoEntry
  PROVE  LimitInv'
<1> USE LimiterConstants
<1>1. LimiterTypes'
  BY DEF LimitInv, LimiterTypes, Ever
<1>2. \A r \in Replicas, k \in Keys :
        ~Expired(entries[r][k])' => ~Expired(entries[r][k]) /\ entries'[r][k] = entries[r][k]
  BY DEF LimitInv, LimiterTypes, Expired, NoEntry
<1>3. Counted'
  <2> SUFFICES ASSUME NEW r \in Replicas, NEW k \in Keys, ~Expired(entries[r][k])'
               PROVE  /\ entries'[r][k].resetAt <= instant' + Window
                      /\ Cardinality(Since(r, k, entries[r][k].resetAt - Window)') >= entries'[r][k].count
    BY DEF Counted, Since
  <2>1. entries'[r][k] = entries[r][k] /\ ~Expired(entries[r][k])
    BY <1>2
  <2>2. entries[r][k].resetAt \in Int
    BY DEF LimitInv, LimiterTypes
  <2>3. Since(r, k, entries[r][k].resetAt - Window)' = Since(r, k, entries[r][k].resetAt - Window)
    BY <2>1 DEF Since
  <2>4. QED
    BY <2>1, <2>2, <2>3 DEF LimitInv, LimiterTypes, Counted
<1>4. DeniedWhenFull'
  BY DEF LimitInv, DeniedWhenFull
<1>5. PICK life, turn, era, half, place : Labelled(life, turn, era, half, place)
  BY DEF LimitInv
<1>6. LabelTypes(life, turn, era, half, place)' /\ Apart(era, half, place)'
  BY <1>5 DEF Labelled, LabelTypes, Apart, Lives
<1>7. Standing(life, turn, era, half, place)'
  <2> SUFFICES ASSUME NEW r \in Replicas, NEW a \in admitted, era[a] = life[r]
               PROVE  Stands(entries[r][a.key], turn[r][a.key], a, half[a], place[a])'
    BY DEF Standing
  <2> DEFINE e == entries[r][a.key]
  <2>1. /\ a.key \in Keys /\ a.at \in Nat /\ a.at <= instant /\ instant \in Nat
        /\ e.resetAt \in Int /\ e.count \in Nat
    BY DEF LimitInv, LimiterTypes, Ever
  <2>2. Stands(e, turn[r][a.key], a, half[a], place[a])
    BY <1>5 DEF Labelled, Standing
  <2>3. CASE ~Expired(entries[r][a.key])'
    BY <2>1, <2>2, <2>3, <1>2 DEF Stands, Expired
  <2>4. CASE Expired(entries[r][a.key])' /\ Expired(e)
    BY <2>1, <2>2, <2>4 DEF Stands, Expired
  <2>5. CASE Expired(entries[r][a.key])' /\ ~Expired(e)
    <3>1. entries'[r][a.key] = e
      BY <2>1, <2>5
    <3>2. instant <= e.resetAt /\ e.resetAt < instant'
      BY <2>1, <2>5, <3>1 DEF Expired
    <3>3. half[a] # turn[r][a.key] => a.at < e.resetAt - Window
      BY <2>2, <2>5 DEF Stands
    <3>4. instant' = instant + 1
      BY <3>2, <2>1
    <3>5. a.at < instant' /\ (half[a] # turn[r][a.key] => a.at + Window < instant')
      BY <3>2, <3>3, <3>4, <2>1
    <3>6. QED
      BY <3>5, <2>5 DEF Stands
  <2>6. QED
    BY <2>3, <2>4, <2>5
<1>8. QED
  BY <1>1, <1>3, <1>4, <1>6, <1>7 DEF LimitInv, Labelled

LEMMA SweepKeeps ==
  ASSUME LimitInv, NEW r \in Replicas, Cleanup(r)
  PROVE  LimitInv'
<1> USE LimiterConstants
<1>1. NoEntry \in [count : 0..MaxPerWindow, resetAt : Int]
  BY DEF NoEntry
<1>2. entries' = [entries EXCEPT ![r] = [k \in Keys |-> IF Expired(entries[r][k]) THEN NoEntry
                                                        ELSE entries[r][k]]]
  BY DEF Cleanup
<1>3. /\ entries' \in [Replicas -> [Keys -> [count : 0..MaxPerWindow, resetAt : Int]]]
      /\ \A q \in Replicas, k \in Keys :
           \/ entries'[q][k] = entries[q][k]
           \/ Expired(entries[q][k]) /\ entries'[q][k] = NoEntry
  BY <1>1, <1>2 DEF LimitInv, LimiterTypes
<1>4. QED
  BY <1>3, LimiterCalm DEF Cleanup, LimitInv, LimiterTypes

LEMMA PassKeeps ==
  ASSUME LimitInv, Pass
  PROVE  LimitInv'
<1>1. instant' = instant + 1 /\ instant' \in 0..LastInstant
  BY LimiterConstants DEF Pass, LimitInv, LimiterTypes
<1>2. entries' \in [Replicas -> [Keys -> [count : 0..MaxPerWindow, resetAt : Int]]]
      /\ \A q \in Replicas, k \in Keys : entries'[q][k] = entries[q][k]
  BY DEF Pass, LimitInv, LimiterTypes
<1>3. QED
  BY <1>1, <1>2, LimiterCalm DEF Pass

\* A new life admits nothing under the labels of an old one.
LEMMA RebootKeeps ==
  ASSUME LimitInv, NEW r \in Replicas, Reboot(r)
  PROVE  LimitInv'
<1> USE LimiterConstants
<1>0. /\ entries' = [entries EXCEPT ![r] = [k \in Keys |-> NoEntry]]
      /\ UNCHANGED <<instant, admitted, denied, asked>> /\ restarts' = restarts + 1
  BY DEF Reboot
<1>1. LimiterTypes'
  <2>1. NoEntry \in [count : 0..MaxPerWindow, resetAt : Int]
    BY DEF NoEntry
  <2>2. QED
    BY <1>0, <2>1 DEF LimitInv, LimiterTypes
<1>2. \A k \in Keys : Expired(entries[r][k])'
  BY <1>0 DEF LimitInv, LimiterTypes, Expired, NoEntry
<1>3. \A q \in Replicas \ {r} : entries'[q] = entries[q]
  BY <1>0 DEF LimitInv, LimiterTypes
<1>4. Counted'
  <2> SUFFICES ASSUME NEW q \in Replicas, NEW k \in Keys, ~Expired(entries[q][k])'
               PROVE  /\ entries'[q][k].resetAt <= instant' + Window
                      /\ Cardinality(Since(q, k, entries[q][k].resetAt - Window)') >= entries'[q][k].count
    BY DEF Counted, Since
  <2>1. entries'[q][k] = entries[q][k]
    BY <1>2, <1>3
  <2>2. ~Expired(entries[q][k])
    BY <2>1, <1>0 DEF Expired
  <2>3. Since(q, k, entries[q][k].resetAt - Window)' = Since(q, k, entries[q][k].resetAt - Window)
    BY <2>1, <1>0 DEF Since
  <2>4. QED
    BY <2>1, <2>2, <2>3, <1>0 DEF LimitInv, Counted
<1>5. DeniedWhenFull'
  BY <1>0 DEF LimitInv, DeniedWhenFull
<1>6. PICK life, turn, era, half, place : Labelled(life, turn, era, half, place)
  BY DEF LimitInv
<1>n. PICK new : new = Cardinality(Replicas) + restarts + 1
  OBVIOUS
<1> DEFINE life2 == [life EXCEPT ![r] = new]
<1>7. restarts \in Nat /\ Lives' = 1..new /\ Lives = 1..(new - 1)
  BY <1>0, <1>n DEF Lives, LimitInv, LimiterTypes
<1>8. /\ life \in [Replicas -> Lives] /\ \A q \in Replicas : life[q] # new
      /\ \A a \in admitted : era[a] \in Lives /\ era[a] # new
  BY <1>6, <1>7 DEF Labelled, LabelTypes
<1>9. LabelTypes(life2, turn, era, half, place)'
  <2>1. life2 \in [Replicas -> Lives']
    BY <1>7, <1>8, <1>n
  <2>2. \A p, q \in Replicas : life2[p] = life2[q] => p = q
    BY <1>6, <1>8 DEF Labelled, LabelTypes
  <2>3. \A a \in admitted : era[a] \in Lives'
    BY <1>7, <1>8, <1>n
  <2>4. QED
    BY <1>0, <1>6, <2>1, <2>2, <2>3 DEF Labelled, LabelTypes
<1>10. Apart(era, half, place)'
  BY <1>0, <1>6 DEF Labelled, Apart
<1>11. Standing(life2, turn, era, half, place)'
  <2> SUFFICES ASSUME NEW q \in Replicas, NEW a \in admitted, era[a] = life2[q]
               PROVE  Stands(entries[q][a.key], turn[q][a.key], a, half[a], place[a])'
    BY <1>0 DEF Standing
  <2>1. q # r /\ era[a] = life[q]
    BY <1>8
  <2>2. Stands(entries[q][a.key], turn[q][a.key], a, half[a], place[a])
    BY <2>1, <1>6 DEF Labelled, Standing
  <2>3. QED
    BY <2>1, <2>2, <1>0, <1>3 DEF Stands, Expired
<1>12. QED
  BY <1>1, <1>4, <1>5, <1>9, <1>10, <1>11 DEF LimitInv, Labelled

LEMMA AskedOne ==
  ASSUME LimitInv, asked < MaxAsked, NEW r \in Replicas, NEW k \in Keys
  PROVE  \E new \in Ever : /\ Ask(r, k) = {new} /\ new \notin admitted
                           /\ new.replica = r /\ new.key = k /\ new.at = instant /\ new.nth = asked
<1> DEFINE new == [replica |-> r, key |-> k, at |-> instant, nth |-> asked]
<1>1. new \in Ever
  BY LimiterConstants DEF LimitInv, LimiterTypes, Ever
<1>2. Ask(r, k) = {new}
  <2>1. new \in Ask(r, k)
    BY DEF Ask
  <2>2. ASSUME NEW x \in Ask(r, k) PROVE x = new
    BY <2>2 DEF Ask
  <2>3. QED
    BY <2>1, <2>2
<1>3. \A a \in admitted : a.nth < asked /\ a.nth \in Nat
  BY DEF LimitInv, LimiterTypes, Ever
<1>4. new \notin admitted
  <2>1. new.nth = asked /\ asked \in Nat
    BY DEF LimitInv, LimiterTypes
  <2>2. QED
    BY <1>3, <2>1
<1>5. QED
  BY <1>1, <1>2, <1>4

\* A request is admitted, by a new window or in the open one.
LEMMA AdmitKeeps ==
  ASSUME LimitInv, NEW r \in Replicas, NEW k \in Keys,
         NEW e2 \in [count : 0..MaxPerWindow, resetAt : Int],
         entries' = [entries EXCEPT ![r][k] = e2],
         admitted' = admitted \cup Ask(r, k), asked < MaxAsked, asked' = asked + 1,
         UNCHANGED <<denied, instant, restarts>>,
         \/ Expired(entries[r][k]) /\ e2.count = 1 /\ e2.resetAt = instant + Window
         \/ /\ ~Expired(entries[r][k]) /\ e2.count = entries[r][k].count + 1
            /\ e2.resetAt = entries[r][k].resetAt
  PROVE  LimitInv'
<1> USE LimiterConstants
<1>0. PICK new \in Ever :
        /\ Ask(r, k) = {new} /\ new \notin admitted
        /\ new.replica = r /\ new.key = k /\ new.at = instant /\ new.nth = asked
  BY AskedOne
<1>1. admitted' = admitted \cup {new} /\ instant' = instant
  BY <1>0
<1>2. /\ instant \in 0..LastInstant /\ asked \in Nat /\ IsFiniteSet(admitted)
      /\ entries[r][k].resetAt \in Int /\ entries[r][k].count \in Nat
      /\ e2.resetAt \in Int /\ e2.count \in Nat
  BY DEF LimitInv, LimiterTypes
<1>3. /\ entries'[r][k] = e2
      /\ \A q \in Replicas, j \in Keys : q # r \/ j # k => entries'[q][j] = entries[q][j]
  BY DEF LimitInv, LimiterTypes
<1>4. LimiterTypes'
  <2>1. IsFiniteSet(admitted')
    BY <1>1, <1>2, FS_AddElement
  <2>2. \A a \in admitted : a.at <= instant /\ a.nth < asked + 1
    BY DEF LimitInv, LimiterTypes, Ever
  <2>3. \A a \in admitted' : a.at <= instant' /\ a.nth < asked'
    BY <2>2, <1>0, <1>1, <1>2
  <2>4. entries' \in [Replicas -> [Keys -> [count : 0..MaxPerWindow, resetAt : Int]]]
    BY DEF LimitInv, LimiterTypes
  <2>5. QED
    BY <1>1, <2>1, <2>3, <2>4 DEF LimitInv, LimiterTypes
<1>5. e2.resetAt >= instant /\ e2.resetAt <= instant + Window
  BY <1>2 DEF LimitInv, Counted, Expired
<1>6. Counted'
  <2> SUFFICES ASSUME NEW q \in Replicas, NEW j \in Keys, ~Expired(entries[q][j])'
               PROVE  /\ entries'[q][j].resetAt <= instant' + Window
                      /\ Cardinality(Since(q, j, entries[q][j].resetAt - Window)') >= entries'[q][j].count
    BY DEF Counted
  <2>1. CASE q # r \/ j # k
    <3>1. entries'[q][j] = entries[q][j] /\ ~Expired(entries[q][j])
      BY <2>1, <1>1, <1>3 DEF Expired
    <3>2. Since(q, j, entries[q][j].resetAt - Window)' = Since(q, j, entries[q][j].resetAt - Window)
      BY <2>1, <3>1, <1>0, <1>1 DEF Since
    <3>3. QED
      BY <3>1, <3>2, <1>1 DEF LimitInv, Counted
  <2>2. CASE q = r /\ j = k
    <3> DEFINE S == Since(r, k, e2.resetAt - Window)
    <3>1. Since(q, j, entries[q][j].resetAt - Window)' = S \cup {new}
      BY <2>2, <1>0, <1>1, <1>2, <1>3, <1>5 DEF Since
    <3>2. IsFiniteSet(S) /\ new \notin S
      BY <1>0, <1>2, FS_Subset DEF Since
    <3>3. Cardinality(S \cup {new}) = Cardinality(S) + 1 /\ Cardinality(S) \in Nat
      BY <3>2, FS_AddElement, FS_CardinalityType
    <3>4. ~Expired(entries[r][k]) => Cardinality(S) >= entries[r][k].count
      BY <1>2 DEF LimitInv, Counted, Expired
    <3>5. Cardinality(S) + 1 >= e2.count
      BY <3>3, <3>4, <1>2
    <3>6. QED
      BY <3>1, <3>3, <3>5, <2>2, <1>1, <1>3, <1>5
  <2>3. QED
    BY <2>1, <2>2
<1>7. DeniedWhenFull'
  <2> SUFFICES ASSUME NEW d \in denied
               PROVE  Cardinality({a \in admitted' : /\ a.replica = d.replica /\ a.key = d.key
                                                     /\ a.at \in (d.at - Window)..d.at}) >= MaxPerWindow
    BY DEF DeniedWhenFull
  <2> DEFINE Of(A) == {a \in A : /\ a.replica = d.replica /\ a.key = d.key
                                 /\ a.at \in (d.at - Window)..d.at}
  <2>1. IsFiniteSet(admitted')
    BY <1>4 DEF LimiterTypes
  <2>2. Of(admitted) \subseteq Of(admitted') /\ Of(admitted') \subseteq admitted'
    BY <1>1
  <2>3. IsFiniteSet(Of(admitted')) /\ IsFiniteSet(Of(admitted))
    BY <2>1, <2>2, FS_Subset
  <2>4. Cardinality(Of(admitted)) <= Cardinality(Of(admitted'))
    BY <2>2, <2>3, FS_Subset
  <2>5. Cardinality(Of(admitted)) \in Nat /\ Cardinality(Of(admitted')) \in Nat
    BY <2>3, FS_CardinalityType
  <2>6. Cardinality(Of(admitted)) >= MaxPerWindow
    BY DEF LimitInv, DeniedWhenFull
  <2>7. QED
    BY <2>4, <2>5, <2>6
<1>8. PICK life, turn, era, half, place : Labelled(life, turn, era, half, place)
  BY DEF LimitInv
<1>9. PICK h : h = IF Expired(entries[r][k]) THEN 1 - turn[r][k] ELSE turn[r][k]
  OBVIOUS
<1> DEFINE turn2 == [turn EXCEPT ![r][k] = h]
           era2 == [era EXCEPT ![new] = life[r]]
           half2 == [half EXCEPT ![new] = h]
           place2 == [place EXCEPT ![new] = e2.count]
<1>10. /\ life[r] \in Lives /\ h \in {0, 1} /\ e2.count \in 1..MaxPerWindow
       /\ turn[r][k] \in {0, 1} /\ Lives' = Lives /\ Lives \subseteq Nat
  <2>1. LabelTypes(life, turn, era, half, place)
    BY <1>8 DEF Labelled
  <2>2. life[r] \in Lives /\ turn[r][k] \in {0, 1}
    BY <2>1 DEF LabelTypes
  <2>3. h \in {0, 1}
    BY <2>2, <1>9
  <2>4. QED
    BY <2>2, <2>3, <1>2 DEF Lives
<1>11. /\ era2[new] = life[r] /\ half2[new] = h /\ place2[new] = e2.count
       /\ \A a \in admitted : era2[a] = era[a] /\ half2[a] = half[a] /\ place2[a] = place[a]
  <2>1. admitted \subseteq Ever /\ new \in Ever
    BY <1>0 DEF LimitInv, LimiterTypes
  <2>2. era \in [Ever -> Nat] /\ half \in [Ever -> {0, 1}] /\ place \in [Ever -> 1..MaxPerWindow]
    BY <1>8 DEF Labelled, LabelTypes
  <2>3. QED
    BY <1>0, <2>1, <2>2
<1>12. /\ turn2[r][k] = h
       /\ \A q \in Replicas, j \in Keys : q # r \/ j # k => turn2[q][j] = turn[q][j]
  BY <1>8 DEF Labelled, LabelTypes
<1>13. LabelTypes(life, turn2, era2, half2, place2)'
  <2>1. turn2 \in [Replicas -> [Keys -> {0, 1}]] /\ era2 \in [Ever -> Nat]
    BY <1>8, <1>10 DEF Labelled, LabelTypes
  <2>2. half2 \in [Ever -> {0, 1}] /\ place2 \in [Ever -> 1..MaxPerWindow]
    BY <1>8, <1>10 DEF Labelled, LabelTypes
  <2>3. \A a \in admitted' : era2[a] \in Lives'
    BY <1>1, <1>8, <1>10, <1>11 DEF Labelled, LabelTypes
  <2>4. QED
    BY <1>8, <1>10, <2>1, <2>2, <2>3 DEF Labelled, LabelTypes
\* Where the requests of this process and key stood.
<1>14. \A a \in admitted :
         /\ a.at \in Nat /\ a.at <= instant
         /\ era[a] = life[r] /\ a.key = k => Stands(entries[r][k], turn[r][k], a, half[a], place[a])
  BY <1>8 DEF Labelled, Standing, LimitInv, LimiterTypes, Ever
<1>15. \A a \in admitted : era[a] = life[r] /\ a.key = k =>
         /\ half[a] = h => \/ a.at + Window < e2.resetAt - Window
                           \/ a.at >= e2.resetAt - Window /\ place[a] < e2.count
         /\ half[a] # h => a.at < e2.resetAt - Window
         /\ half[a] = h /\ place[a] = e2.count => a.at + Window < instant
  <2> SUFFICES ASSUME NEW a \in admitted, era[a] = life[r], a.key = k
               PROVE  /\ half[a] = h => \/ a.at + Window < e2.resetAt - Window
                                        \/ a.at >= e2.resetAt - Window /\ place[a] < e2.count
                      /\ half[a] # h => a.at < e2.resetAt - Window
                      /\ half[a] = h /\ place[a] = e2.count => a.at + Window < instant
    OBVIOUS
  <2>1. Stands(entries[r][k], turn[r][k], a, half[a], place[a]) /\ a.at \in Nat
    BY <1>14
  <2>2. half[a] \in {0, 1} /\ place[a] \in 1..MaxPerWindow
    BY <1>8 DEF Labelled, LabelTypes, LimitInv, LimiterTypes
  <2>3. CASE Expired(entries[r][k])
    <3>1. h = 1 - turn[r][k] /\ e2.resetAt - Window = instant
      BY <2>3, <1>2, <1>9
    <3>2. a.at < instant /\ (half[a] # turn[r][k] => a.at + Window < instant)
      BY <2>1, <2>3 DEF Stands
    <3>3. half[a] = h => half[a] # turn[r][k]
      BY <3>1, <2>2, <1>10
    <3>4. QED
      BY <3>1, <3>2, <3>3, <2>1, <1>2
  <2>4. CASE ~Expired(entries[r][k])
    <3>1. h = turn[r][k] /\ e2.resetAt = entries[r][k].resetAt /\ e2.count = entries[r][k].count + 1
      BY <2>4, <1>9
    <3>2. IF half[a] = h
          THEN \/ a.at + Window < e2.resetAt - Window
               \/ a.at >= e2.resetAt - Window /\ place[a] <= entries[r][k].count
          ELSE a.at < e2.resetAt - Window
      BY <2>1, <2>4, <3>1 DEF Stands
    <3>3. QED
      BY <3>1, <3>2, <2>1, <2>2, <1>2, <1>5
  <2>5. QED
    BY <2>3, <2>4
<1>16. Apart(era2, half2, place2)'
  <2>1. \A a \in admitted : SameLabel(era2, half2, place2, a, new) => new.at > a.at + Window
    BY <1>0, <1>11, <1>14, <1>15 DEF SameLabel
  <2>2. \A a, b \in admitted :
          SameLabel(era2, half2, place2, a, b) => SameLabel(era, half, place, a, b)
    BY <1>11 DEF SameLabel
  <2>3. \A a \in admitted :
          SameLabel(era2, half2, place2, new, a) => SameLabel(era2, half2, place2, a, new)
    BY DEF SameLabel
  <2>4. \A a, b \in admitted' : a # b /\ SameLabel(era2, half2, place2, a, b) =>
          a.at > b.at + Window \/ b.at > a.at + Window
    BY <1>1, <1>8, <2>1, <2>2, <2>3 DEF Labelled, Apart
  <2>5. QED
    BY <2>4 DEF Apart, SameLabel
<1>17. Standing(life, turn2, era2, half2, place2)'
  <2> SUFFICES ASSUME NEW q \in Replicas, NEW a \in admitted', era2[a] = life[q]
               PROVE  Stands(entries[q][a.key], turn2[q][a.key], a, half2[a], place2[a])'
    BY DEF Standing
  <2>0. ~Expired(entries[r][k])'
    BY <1>1, <1>2, <1>3, <1>5 DEF Expired
  <2>1. CASE a = new
    <3>1. q = r
      BY <2>1, <1>8, <1>11 DEF Labelled, LabelTypes
    <3>2. a.at = instant /\ a.key = k
      BY <2>1, <1>0
    <3>3. QED
      BY <2>0, <2>1, <3>1, <3>2, <1>2, <1>3, <1>5, <1>11, <1>12 DEF Stands
  <2>2. CASE a # new /\ q = r /\ a.key = k
    <3>1. a \in admitted /\ era[a] = life[r] /\ half2[a] = half[a] /\ place2[a] = place[a]
      BY <2>2, <1>1, <1>11
    <3>2. place[a] \in Nat
      BY <3>1, <1>8 DEF Labelled, LabelTypes, LimitInv, LimiterTypes
    <3>3. QED
      BY <2>0, <2>2, <3>1, <3>2, <1>2, <1>3, <1>12, <1>15 DEF Stands
  <2>3. CASE a # new /\ (q # r \/ a.key # k)
    <3>1. /\ a \in admitted /\ era[a] = life[q] /\ half2[a] = half[a] /\ place2[a] = place[a]
          /\ a.key \in Keys
      BY <2>3, <1>1, <1>11 DEF LimitInv, LimiterTypes, Ever
    <3>2. Stands(entries[q][a.key], turn[q][a.key], a, half[a], place[a])
      BY <3>1, <1>8 DEF Labelled, Standing
    <3>3. QED
      BY <2>3, <3>1, <3>2, <1>1, <1>3, <1>12 DEF Stands, Expired
  <2>4. QED
    BY <2>1, <2>2, <2>3
<1>18. QED
  BY <1>4, <1>6, <1>7, <1>13, <1>16, <1>17 DEF LimitInv, Labelled

\* 429: the window has as many as there may be, and began at most a window ago.
LEMMA DenyKeeps ==
  ASSUME LimitInv, NEW r \in Replicas, NEW k \in Keys,
         ~Expired(entries[r][k]), ~HasRoom(entries[r][k]),
         denied' = denied \cup Ask(r, k), asked < MaxAsked, asked' = asked + 1,
         UNCHANGED <<admitted, entries, instant, restarts>>
  PROVE  LimitInv'
<1> USE LimiterConstants
<1>0. PICK new \in Ever :
        /\ Ask(r, k) = {new} /\ new.replica = r /\ new.key = k /\ new.at = instant
  BY AskedOne
<1>1. LimiterTypes'
  BY <1>0 DEF LimitInv, LimiterTypes, Ever
<1>2. Counted'
  BY DEF LimitInv, Counted, Expired, Since
<1>3. DeniedWhenFull'
  <2> DEFINE Of(d) == {a \in admitted : /\ a.replica = d.replica /\ a.key = d.key
                                        /\ a.at \in (d.at - Window)..d.at}
             S == Since(r, k, entries[r][k].resetAt - Window)
  <2>1. /\ entries[r][k].resetAt \in Int /\ entries[r][k].count \in 0..MaxPerWindow
        /\ instant \in Nat /\ IsFiniteSet(admitted)
        /\ \A a \in admitted : a.at \in Nat /\ a.at <= instant
    BY DEF LimitInv, LimiterTypes, Ever
  <2>2. entries[r][k].resetAt >= instant /\ entries[r][k].count = MaxPerWindow
    BY <2>1 DEF Expired, HasRoom
  <2>3. S \subseteq Of(new) /\ Of(new) \subseteq admitted
    BY <1>0, <2>1, <2>2 DEF Since
  <2>4. IsFiniteSet(Of(new)) /\ IsFiniteSet(S)
    BY <2>1, <2>3, FS_Subset
  <2>5. /\ Cardinality(S) <= Cardinality(Of(new))
        /\ Cardinality(S) \in Nat /\ Cardinality(Of(new)) \in Nat
    BY <2>3, <2>4, FS_Subset, FS_CardinalityType
  <2>6. Cardinality(S) >= MaxPerWindow
    BY <2>2 DEF LimitInv, Counted
  <2>7. Cardinality(Of(new)) >= MaxPerWindow
    BY <2>5, <2>6
  <2>8. \A d \in denied' : Cardinality(Of(d)) >= MaxPerWindow
    BY <2>7, <1>0 DEF LimitInv, DeniedWhenFull
  <2>9. QED
    BY <2>8 DEF DeniedWhenFull
<1>4. PICK life, turn, era, half, place : Labelled(life, turn, era, half, place)
  BY DEF LimitInv
<1>5. LabelTypes(life, turn, era, half, place)' /\ Apart(era, half, place)'
  BY <1>4 DEF Labelled, LabelTypes, Apart, Lives
<1>6. Standing(life, turn, era, half, place)'
  BY <1>4 DEF Labelled, Standing, Stands, Expired
<1>7. QED
  BY <1>1, <1>2, <1>3, <1>5, <1>6 DEF LimitInv, Labelled

LEMMA AllowKeeps ==
  ASSUME LimitInv, NEW r \in Replicas, NEW k \in Keys, Allow(r, k)
  PROVE  LimitInv'
<1> USE LimiterConstants
<1> DEFINE e == entries[r][k]
<1>1. e \in [count : 0..MaxPerWindow, resetAt : Int] /\ instant \in Nat
  BY DEF LimitInv, LimiterTypes
<1>2. asked < MaxAsked /\ asked' = asked + 1 /\ UNCHANGED <<instant, restarts>>
  BY DEF Allow
<1>3. CASE /\ Expired(e)
           /\ entries' = [entries EXCEPT ![r][k] = [count |-> 1, resetAt |-> instant + Window]]
           /\ admitted' = admitted \cup Ask(r, k) /\ UNCHANGED denied
  <2> DEFINE e2 == [count |-> 1, resetAt |-> instant + Window]
  <2>1. e2 \in [count : 0..MaxPerWindow, resetAt : Int]
    BY <1>1
  <2>2. QED
    BY <1>2, <1>3, <2>1, AdmitKeeps
<1>4. CASE /\ ~Expired(e) /\ HasRoom(e)
           /\ entries' = [entries EXCEPT ![r][k].count = @ + 1]
           /\ admitted' = admitted \cup Ask(r, k) /\ UNCHANGED denied
  <2> DEFINE e2 == [e EXCEPT !.count = @ + 1]
  <2>1. e2 \in [count : 0..MaxPerWindow, resetAt : Int]
    BY <1>1, <1>4 DEF HasRoom
  <2>2. e2.count = e.count + 1 /\ e2.resetAt = e.resetAt
    BY <1>1
  <2>3. entries' = [entries EXCEPT ![r][k] = e2]
    BY <1>4
  <2>4. QED
    BY <1>2, <1>4, <2>1, <2>2, <2>3, AdmitKeeps
<1>5. CASE /\ ~Expired(e) /\ ~HasRoom(e)
           /\ denied' = denied \cup Ask(r, k) /\ UNCHANGED <<entries, admitted>>
  BY <1>2, <1>5, DenyKeeps
<1>6. QED
  BY <1>3, <1>4, <1>5 DEF Allow

\* Requests with one label are apart, so a window's length holds at most one of each.
LEMMA TwiceAtMost == LimitInv => TwiceTheLimit
<1> SUFFICES ASSUME LimitInv, NEW k \in Keys, NEW t \in 0..LastInstant
             PROVE  Cardinality({a \in admitted : a.key = k /\ a.at \in t..(t + Window)})
                      <= 2 * MaxPerWindow * (Cardinality(Replicas) + restarts)
  BY DEF TwiceTheLimit
<1> USE LimiterConstants
<1>1. PICK life, turn, era, half, place : Labelled(life, turn, era, half, place)
  BY DEF LimitInv
<1> DEFINE S == {a \in admitted : a.key = k /\ a.at \in t..(t + Window)}
           Halves == {0, 1} \X (1..MaxPerWindow)
           Labels == Lives \X Halves
           f == [a \in S |-> <<era[a], <<half[a], place[a]>>>>]
<1>2. restarts \in Nat /\ admitted \subseteq Ever
  BY DEF LimitInv, LimiterTypes
<1>3. f \in [S -> Labels]
  BY <1>1, <1>2 DEF Labelled, LabelTypes
<1>4. \A a, b \in S : f[a] = f[b] => a = b
  <2> SUFFICES ASSUME NEW a \in S, NEW b \in S, f[a] = f[b], a # b
               PROVE  FALSE
    OBVIOUS
  <2>1. SameLabel(era, half, place, a, b)
    BY DEF SameLabel
  <2>2. a.at > b.at + Window \/ b.at > a.at + Window
    BY <2>1, <1>1 DEF Labelled, Apart
  <2>3. a.at \in Nat /\ b.at \in Nat /\ t \in Nat
    BY <1>2 DEF Ever
  <2>4. QED
    BY <2>2, <2>3
<1>5. f \in Injection(S, Labels)
  BY <1>3, <1>4 DEF Injection, IsInjective
<1>6. \A n \in Nat : IsFiniteSet(1..n) /\ Cardinality(1..n) = n
  <2> SUFFICES ASSUME NEW n \in Nat PROVE IsFiniteSet(1..n) /\ Cardinality(1..n) = n
    OBVIOUS
  <2>1. IsFiniteSet(1..n) /\ Cardinality(1..n) = IF 1 > n THEN 0 ELSE n - 1 + 1
    BY FS_Interval
  <2>2. QED
    BY <2>1
<1>7. IsFiniteSet({0, 1}) /\ Cardinality({0, 1}) = 2
  <2>1. IsFiniteSet({0}) /\ Cardinality({0}) = 1
    BY FS_Singleton
  <2>2. Cardinality({0} \cup {1}) = 2 /\ IsFiniteSet({0} \cup {1})
    BY <2>1, FS_AddElement
  <2>3. {0} \cup {1} = {0, 1}
    OBVIOUS
  <2>4. QED
    BY <2>2, <2>3
<1>8. IsFiniteSet(Halves) /\ Cardinality(Halves) = 2 * MaxPerWindow
  <2>1. IsFiniteSet(1..MaxPerWindow) /\ Cardinality(1..MaxPerWindow) = MaxPerWindow
    BY <1>6
  <2>2. QED
    BY <1>7, <2>1, FS_Product
<1>9. /\ IsFiniteSet(Labels)
      /\ Cardinality(Labels) = (Cardinality(Replicas) + restarts) * (2 * MaxPerWindow)
  <2> HIDE DEF Halves
  <2>1. IsFiniteSet(Lives) /\ Cardinality(Lives) = Cardinality(Replicas) + restarts
    BY <1>2, <1>6 DEF Lives
  <2>2. /\ IsFiniteSet(Lives \X Halves)
        /\ Cardinality(Lives \X Halves) = Cardinality(Lives) * Cardinality(Halves)
    BY <1>8, <2>1, FS_Product
  <2>3. QED
    BY <1>8, <2>1, <2>2
<1>10. Cardinality(S) <= Cardinality(Labels)
  BY <1>5, <1>9, FS_Injection
<1>11. \A m, n \in Nat : m * n = n * m
  OBVIOUS
<1>12. 2 * MaxPerWindow * (Cardinality(Replicas) + restarts) = Cardinality(Labels)
  BY <1>2, <1>9, <1>11
<1>13. QED
  BY <1>10, <1>12

\* Within the length of a window a key is admitted at most twice as often as the limit
\* says by each replica and each restart, and a 429 goes only to a key that its replica
\* admitted as often as it may within the last window, for any limit, window and number
\* of replicas, keys and requests (internal/middleware/rate_limit.go:56-87).
THEOREM LimitHolds == LimiterSpec => []LimitKept
<1>1. LimitInv /\ [LimiterNext]_limiterVars => LimitInv'
  <2> SUFFICES ASSUME LimitInv, [LimiterNext]_limiterVars PROVE LimitInv'
    OBVIOUS
  <2>1. CASE UNCHANGED limiterVars
    <3>1. instant' \in {instant, instant + 1} /\ instant' \in 0..LastInstant
      BY <2>1 DEF limiterVars, LimitInv, LimiterTypes
    <3>2. QED
      BY <2>1, <3>1, LimiterCalm DEF limiterVars, LimitInv, LimiterTypes
  <2>2. QED
    BY <2>1, AllowKeeps, SweepKeeps, RebootKeeps, PassKeeps DEF LimiterNext
<1>2. LimitInv => LimitKept
  BY TwiceAtMost DEF LimitInv, LimitKept
<1>3. QED
  BY <1>1, <1>2, LimiterStart, PTL DEF LimiterSpec
=============================================================================
