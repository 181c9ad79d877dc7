------------------------------ MODULE Sessions ------------------------------
(***************************************************************************)
(* Passwords, refresh tokens and password-reset tokens: the handlers of    *)
(* internal/auth/handler.go and internal/auth/password_reset.go and the    *)
(* command cmd/resetpassword, over the three tables they share.            *)
(*                                                                         *)
(* None of these handlers opens a transaction: each SQL statement commits  *)
(* on its own, and other requests run between two statements.  So a        *)
(* request is a process that holds local data between statements, and one  *)
(* action is one statement together with the Go code up to the next one.   *)
(* A request may also be abandoned at any point: the statement fails, the  *)
(* request context is cancelled, or the server stops.  An answer that      *)
(* changes nothing (wrong password, unknown token) is a stuttering step.   *)
(*                                                                         *)
(* A password is represented by its generation: UpdatePassword never       *)
(* writes a generation twice, and bcrypt.CompareHashAndPassword succeeds   *)
(* exactly for the generation that was stored when the row was read.       *)
(***************************************************************************)
EXTENDS Naturals, FiniteSets

CONSTANTS
  Users,        \* accounts
  Procs,        \* slots for requests in flight
  Tokens,       \* refresh tokens that can be issued
  ResetTokens,  \* password-reset tokens that can be issued
  NoUser, NoToken, NoReset,
  MaxGen        \* bound on the number of password writes

ASSUME ConstantsAssumption ==
  /\ NoUser \notin Users
  /\ NoToken \notin Tokens
  /\ NoReset \notin ResetTokens
  /\ MaxGen \in Nat

VARIABLES
  password,  \* users.password_hash, as a generation
  lastGen,   \* the last generation written for any account
  refresh,   \* the refresh_tokens table
  reset,     \* the password_reset_tokens table
  req,       \* what each request in flight holds between two statements
  swept,     \* history: newest generation whose RevokeAllByUser has run
  acked,     \* history: newest generation whose handler reported success
  writes     \* history: password writes made under each reset token

vars == <<password, lastGen, refresh, reset, req, swept, acked, writes>>

Gens == 0 .. MaxGen

\* The three callers of UpdatePassword followed by RevokeAllByUser.
Setters == {"change", "reset", "cli"}

\* One row of refresh_tokens.  "dead" stands for revoked or expired: no
\* statement tells the two apart.  root, gen and raced are history: the token
\* the login of this session inserted, the password generation that login
\* proved, and whether a sweep ran while a request held the session.
RefreshRow ==
  [status : {"none", "active", "dead"}, user : Users \cup {NoUser},
   root : Tokens \cup {NoToken}, gen : Gens, raced : BOOLEAN]

NoRow == [status |-> "none", user |-> NoUser, root |-> NoToken,
          gen |-> 0, raced |-> FALSE]

\* One row of password_reset_tokens.  "gone" stands for deleted or expired.
ResetRow ==
  [status : {"none", "pending", "used", "gone"}, user : Users \cup {NoUser}]

\* A request between two statements: at names the statement it runs next.
Request ==
  [at : {"idle", "issue", "update", "sweep", "insert"},
   op : {"none", "login", "refresh", "forgot"} \cup Setters,
   user : Users \cup {NoUser}, gen : Gens, root : Tokens \cup {NoToken},
   raced : BOOLEAN, token : ResetTokens \cup {NoReset},
   seen : SUBSET ResetTokens]

Idle == [at |-> "idle", op |-> "none", user |-> NoUser, gen |-> 0,
         root |-> NoToken, raced |-> FALSE, token |-> NoReset, seen |-> {}]

Init ==
  /\ password = [u \in Users |-> 0]
  /\ lastGen = 0
  /\ refresh = [t \in Tokens |-> NoRow]
  /\ reset = [r \in ResetTokens |-> [status |-> "none", user |-> NoUser]]
  /\ req = [p \in Procs |-> Idle]
  /\ swept = [u \in Users |-> 0]
  /\ acked = [op \in Setters |-> [u \in Users |-> 0]]
  /\ writes = [r \in ResetTokens |-> 0]

-----------------------------------------------------------------------------
(* Login, Refresh, Logout.                                                 *)

\* Login: FindByLoginOrEmail reads the row and the hash in it accepts the
\* password that was sent.
LoginVerify(p, u) ==
  /\ req[p] = Idle
  /\ req' = [req EXCEPT ![p] = [Idle EXCEPT !.at = "issue", !.op = "login",
                                  !.user = u, !.gen = password[u]]]
  /\ UNCHANGED <<password, lastGen, refresh, reset, swept, acked, writes>>

\* Mutant of RefreshRevoke: the token is looked up and then revoked, without
\* the condition NOT revoked in the UPDATE.
RefreshRevokeUnconditional(p, t) ==
  /\ req[p] = Idle
  /\ refresh[t].status # "none"
  /\ refresh' = [refresh EXCEPT ![t].status = "dead"]
  /\ req' = [req EXCEPT ![p] =
       [Idle EXCEPT !.at = "issue", !.op = "refresh", !.user = refresh[t].user,
          !.gen = refresh[t].gen, !.root = refresh[t].root,
          !.raced = refresh[t].raced]]
  /\ UNCHANGED <<password, lastGen, reset, swept, acked, writes>>

\* Refresh: RevokeByHash kills the presented token if it is active, and only
\* then goes on.
RefreshRevoke(p, t) ==
  /\ req[p] = Idle
  /\ refresh[t].status = "active"
  /\ refresh' = [refresh EXCEPT ![t].status = "dead"]
  /\ req' = [req EXCEPT ![p] =
       [Idle EXCEPT !.at = "issue", !.op = "refresh", !.user = refresh[t].user,
          !.gen = refresh[t].gen, !.root = refresh[t].root,
          !.raced = refresh[t].raced]]
  /\ UNCHANGED <<password, lastGen, reset, swept, acked, writes>>

\* issueTokenPair, called by Login and Refresh: the INSERT of a new refresh
\* token.  (Refresh first reads the user again; that read decides nothing
\* here, and its failure is Abandon.)
IssueTokenPair(p, t) ==
  /\ req[p].at = "issue"
  /\ refresh[t].status = "none"
  /\ refresh' = [refresh EXCEPT ![t] =
       [status |-> "active", user |-> req[p].user,
        root |-> IF req[p].op = "login" THEN t ELSE req[p].root,
        gen |-> req[p].gen, raced |-> req[p].raced]]
  /\ req' = [req EXCEPT ![p] = Idle]
  /\ UNCHANGED <<password, lastGen, reset, swept, acked, writes>>

\* Logout: RevokeByHash of the refresh token in the body.
LogoutRevoke(t) ==
  /\ refresh[t].status = "active"
  /\ refresh' = [refresh EXCEPT ![t].status = "dead"]
  /\ UNCHANGED <<password, lastGen, reset, req, swept, acked, writes>>

-----------------------------------------------------------------------------
(* Asking for a reset: the goroutine started by Forgot.                    *)

\* sendResetEmail: the user exists and resetRepo.Create starts.  It is one
\* statement, but the rows its DELETE removes are those its snapshot sees.
ForgotSnapshot(p, u) ==
  /\ req[p] = Idle
  /\ req' = [req EXCEPT ![p] =
       [Idle EXCEPT !.at = "insert", !.op = "forgot", !.user = u,
          !.seen = {r \in ResetTokens :
                      reset[r].user = u /\ reset[r].status \in {"pending", "used"}}]]
  /\ UNCHANGED <<password, lastGen, refresh, reset, swept, acked, writes>>

\* Mutant of ForgotInsert: the new row is stored without its owner.
ForgotInsertOwnerless(p, r) ==
  /\ req[p].at = "insert"
  /\ reset[r].status = "none"
  /\ reset' = [s \in ResetTokens |->
       IF s = r THEN [status |-> "pending", user |-> NoUser]
       ELSE IF s \in req[p].seen THEN [reset[s] EXCEPT !.status = "gone"]
       ELSE reset[s]]
  /\ req' = [req EXCEPT ![p] = Idle]
  /\ UNCHANGED <<password, lastGen, refresh, swept, acked, writes>>

\* resetRepo.Create commits: the rows it saw are deleted, the new one is in.
ForgotInsert(p, r) ==
  /\ req[p].at = "insert"
  /\ reset[r].status = "none"
  /\ reset' = [s \in ResetTokens |->
       IF s = r THEN [status |-> "pending", user |-> req[p].user]
       ELSE IF s \in req[p].seen THEN [reset[s] EXCEPT !.status = "gone"]
       ELSE reset[s]]
  /\ req' = [req EXCEPT ![p] = Idle]
  /\ UNCHANGED <<password, lastGen, refresh, swept, acked, writes>>

-----------------------------------------------------------------------------
(* Setting a password: ChangePassword, Reset and cmd/resetpassword.        *)

\* ChangePassword: FindByID, and the stored hash accepts current_password.
ChangeVerify(p, u) ==
  /\ req[p] = Idle
  /\ req' = [req EXCEPT ![p] =
       [Idle EXCEPT !.at = "update", !.op = "change", !.user = u]]
  /\ UNCHANGED <<password, lastGen, refresh, reset, swept, acked, writes>>

\* cmd/resetpassword: the operator names an account and confirms.
CliConfirm(p, u) ==
  /\ req[p] = Idle
  /\ req' = [req EXCEPT ![p] =
       [Idle EXCEPT !.at = "update", !.op = "cli", !.user = u]]
  /\ UNCHANGED <<password, lastGen, refresh, reset, swept, acked, writes>>

\* Mutant of ResetConsume: the UPDATE lacks the condition used_at IS NULL.
ResetConsumeAgain(p, r) ==
  /\ req[p] = Idle
  /\ reset[r].status \in {"pending", "used"}
  /\ reset' = [reset EXCEPT ![r].status = "used"]
  /\ req' = [req EXCEPT ![p] =
       [Idle EXCEPT !.at = "update", !.op = "reset", !.user = reset[r].user,
          !.token = r]]
  /\ UNCHANGED <<password, lastGen, refresh, swept, acked, writes>>

\* Reset: Consume marks the token used if it is unused and unexpired.
ResetConsume(p, r) ==
  /\ req[p] = Idle
  /\ reset[r].status = "pending"
  /\ reset' = [reset EXCEPT ![r].status = "used"]
  /\ req' = [req EXCEPT ![p] =
       [Idle EXCEPT !.at = "update", !.op = "reset", !.user = reset[r].user,
          !.token = r]]
  /\ UNCHANGED <<password, lastGen, refresh, swept, acked, writes>>

\* UpdatePassword, whoever calls it: an unconditional write of the new hash.
UpdatePassword(p) ==
  /\ req[p].at = "update"
  /\ lastGen < MaxGen
  /\ lastGen' = lastGen + 1
  /\ password' = [password EXCEPT ![req[p].user] = lastGen + 1]
  /\ req' = [req EXCEPT ![p].at = "sweep", ![p].gen = lastGen + 1]
  /\ writes' = IF req[p].op = "reset"
               THEN [writes EXCEPT ![req[p].token] = @ + 1] ELSE writes
  /\ UNCHANGED <<refresh, reset, swept, acked>>

\* The handler of p reports success for the generation it wrote.
Report(p) ==
  LET op == req[p].op  u == req[p].user IN
  acked' = IF acked[op][u] < req[p].gen
           THEN [acked EXCEPT ![op][u] = req[p].gen] ELSE acked

\* Mutant of RevokeAllByUser: a single session of the account is revoked.
RevokeOneOfUser(p) ==
  LET u == req[p].user IN
  /\ req[p].at = "sweep"
  /\ \E one \in {t \in Tokens : refresh[t].user = u} :
       refresh' = [refresh EXCEPT ![one].status = "dead"]
  /\ req' = [req EXCEPT ![p] = Idle]
  /\ swept' = [swept EXCEPT ![u] = IF @ < req[p].gen THEN req[p].gen ELSE @]
  /\ Report(p)
  /\ UNCHANGED <<password, lastGen, reset, writes>>

\* RevokeAllByUser, then the 204 (or the success message of the command).
\* It reaches every row of the account, and none that a request has still to
\* insert: those sessions are marked as raced.
RevokeAllByUser(p) ==
  LET u == req[p].user IN
  /\ req[p].at = "sweep"
  /\ refresh' = [t \in Tokens |->
       IF refresh[t].user = u THEN [refresh[t] EXCEPT !.status = "dead"]
       ELSE refresh[t]]
  /\ req' = [q \in Procs |->
       IF q = p THEN Idle
       ELSE IF req[q].at = "issue" /\ req[q].user = u
            THEN [req[q] EXCEPT !.raced = TRUE]
       ELSE req[q]]
  /\ swept' = [swept EXCEPT ![u] = IF @ < req[p].gen THEN req[p].gen ELSE @]
  /\ Report(p)
  /\ UNCHANGED <<password, lastGen, reset, writes>>

\* ChangePassword drops the error of RevokeAllByUser and answers 204.
ChangeSweepFails(p) ==
  /\ req[p].at = "sweep" /\ req[p].op = "change"
  /\ req' = [req EXCEPT ![p] = Idle]
  /\ Report(p)
  /\ UNCHANGED <<password, lastGen, refresh, reset, swept, writes>>

-----------------------------------------------------------------------------
(* The environment.                                                        *)

\* A statement of p fails and the handler answers 500, its client goes away,
\* or the server stops.  Statements already run stay committed.
Abandon(p) ==
  /\ req[p] # Idle
  /\ req' = [req EXCEPT ![p] = Idle]
  /\ UNCHANGED <<password, lastGen, refresh, reset, swept, acked, writes>>

\* expires_at passes.
ExpireRefresh(t) ==
  /\ refresh[t].status = "active"
  /\ refresh' = [refresh EXCEPT ![t].status = "dead"]
  /\ UNCHANGED <<password, lastGen, reset, req, swept, acked, writes>>

ExpireReset(r) ==
  /\ reset[r].status = "pending"
  /\ reset' = [reset EXCEPT ![r].status = "gone"]
  /\ UNCHANGED <<password, lastGen, refresh, req, swept, acked, writes>>

Next ==
  \/ \E p \in Procs :
       \/ \E u \in Users :
            LoginVerify(p, u) \/ ChangeVerify(p, u) \/ CliConfirm(p, u)
              \/ ForgotSnapshot(p, u)
       \/ \E t \in Tokens : RefreshRevoke(p, t) \/ IssueTokenPair(p, t)
       \/ \E r \in ResetTokens : ResetConsume(p, r) \/ ForgotInsert(p, r)
       \/ UpdatePassword(p) \/ RevokeAllByUser(p) \/ ChangeSweepFails(p)
       \/ Abandon(p)
  \/ \E t \in Tokens : LogoutRevoke(t) \/ ExpireRefresh(t)
  \/ \E r \in ResetTokens : ExpireReset(r)

Spec == Init /\ [][Next]_vars

-----------------------------------------------------------------------------
(* Properties.                                                             *)

\* What a request holds fits the statement it runs next.
WellFormed(rq) ==
  /\ rq.at # "idle" => rq.user \in Users
  /\ rq.at = "issue" => rq.op \in {"login", "refresh"}
  /\ rq.at \in {"update", "sweep"} => rq.op \in Setters
  /\ rq.op = "reset" => rq.token \in ResetTokens
  /\ rq.op = "refresh" => rq.root \in Tokens

\* The tables: every row that was inserted has an owner.
TablesOK ==
  /\ password \in [Users -> Gens]
  /\ lastGen \in Gens
  /\ refresh \in [Tokens -> RefreshRow]
  /\ \A t \in Tokens :
       \/ refresh[t] = NoRow
       \/ /\ refresh[t].status # "none"
          /\ refresh[t].user \in Users /\ refresh[t].root \in Tokens
  /\ reset \in [ResetTokens -> ResetRow]
  /\ \A r \in ResetTokens : reset[r].status # "none" => reset[r].user \in Users

RequestsOK ==
  /\ req \in [Procs -> Request]
  /\ \A p \in Procs : WellFormed(req[p])
  /\ \A p \in Procs : \A r \in req[p].seen : reset[r].status # "none"

HistoryOK ==
  /\ swept \in [Users -> Gens]
  /\ acked \in [Setters -> [Users -> Gens]]
  /\ writes \in [ResetTokens -> Nat]

\* Type correctness of the tables, of what the requests hold between two
\* statements, and of the history.
TypeOK == TablesOK /\ RequestsOK /\ HistoryOK

Active(t) == refresh[t].status = "active"

\* p has revoked a token of session c and has not inserted its successor.
Rotating(p, c) == req[p].at = "issue" /\ req[p].op = "refresh" /\ req[p].root = c

\* Rotation keeps a session linear: however many Refresh, Logout and password
\* requests overlap, a login never has two usable tokens, a usable token and
\* a rotation under way, or two rotations under way.  This is what the
\* comment of RevokeByHash promises of concurrent calls with one token.
SessionLinear ==
  /\ \A t1, t2 \in Tokens :
       Active(t1) /\ Active(t2) /\ refresh[t1].root = refresh[t2].root => t1 = t2
  /\ \A t \in Tokens, p \in Procs : ~(Active(t) /\ Rotating(p, refresh[t].root))
  /\ \A p, q \in Procs, c \in Tokens : Rotating(p, c) /\ Rotating(q, c) => p = q

\* The first token of a session exists before any other token of it; with
\* SessionLinear this is inductive.
RootsIssued ==
  /\ \A t \in Tokens : refresh[t].status # "none" =>
       refresh[refresh[t].root].status # "none"
  /\ \A p \in Procs, c \in Tokens : Rotating(p, c) => refresh[c].status # "none"

\* A usable session that was opened with a password older than the last one
\* whose sessions were revoked was held by a request between its read and its
\* INSERT while RevokeAllByUser ran: that overlap is the only way for
\* a session to outlive a password.
StaleSessionsRaced ==
  \A t \in Tokens :
    Active(t) /\ refresh[t].gen < swept[refresh[t].user] => refresh[t].raced

\* What makes StaleSessionsRaced inductive: generations only grow along
\* update, sweep and login, and a request that holds a superseded session has
\* seen the sweep.
GenerationsOrdered ==
  /\ \A u \in Users : swept[u] <= password[u] /\ password[u] <= lastGen
  /\ \A p \in Procs :
       /\ req[p].at = "sweep" => req[p].gen <= password[req[p].user]
       /\ req[p].at = "issue" /\ req[p].gen < swept[req[p].user] => req[p].raced

\* A reset token sets a password at most once, whatever requests present it
\* together and wherever one of them is abandoned.
ResetWritesOnce == \A r \in ResetTokens : writes[r] <= 1

\* What makes ResetWritesOnce inductive: a token that has written is no longer
\* presentable, and one request at most holds it.
ResetTokensSpent ==
  /\ \A r \in ResetTokens : reset[r].status \in {"none", "pending"} =>
       writes[r] = 0 /\ \A p \in Procs : req[p].token # r
  /\ \A p, q \in Procs :
       req[p].token \in ResetTokens /\ req[p].token = req[q].token => p = q
  /\ \A p \in Procs : req[p].at = "update" /\ req[p].op = "reset" =>
       writes[req[p].token] = 0

\* When Reset answers 204 or cmd/resetpassword reports success, the sessions
\* of the account have been revoked for that password.
ResetAckMeansSwept ==
  \A op \in {"reset", "cli"}, u \in Users : acked[op][u] <= swept[u]

\* A reset does what its link and its answer promise: one password for a link,
\* and success only after the old sessions are gone
\* (internal/auth/password_reset.go:167-208).
ResetsSound == ResetWritesOnce /\ ResetAckMeansSwept

-----------------------------------------------------------------------------
(* Sessions implements SessionChains: a chain is named by the token its    *)
(* login inserted, and is open while a token or a rotation carries it.     *)

Held(c) == \/ \E t \in Tokens : Active(t) /\ refresh[t].root = c
           \/ \E p \in Procs : Rotating(p, c)

ChainOf == [c \in Tokens |->
  IF Held(c) THEN "open"
  ELSE IF refresh[c].root = c THEN "closed" ELSE "unopened"]

OwnerOf == [c \in Tokens |->
  IF refresh[c].root = c THEN refresh[c].user ELSE NoUser]

Chains == INSTANCE SessionChains
            WITH Chains <- Tokens, chain <- ChainOf, owner <- OwnerOf

\* A session that was closed by a logout, an expiry, a password change or
\* a failed rotation is never usable again, and never changes owner.
ImplementsChains == Chains!Spec
=============================================================================
