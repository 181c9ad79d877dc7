# finager-backend in TLA+

A specification of the backend of Finager (Go, PostgreSQL): the parts of the
system whose correctness depends on the order in which requests, jobs and SQL
statements run. Definitions are translated from the Go source, the SQL it sends
and `internal/database/schema.sql`; `PROJECT.json` maps each one to its lines.

1. The system · 2. Inventory · 3. How the code is modelled · 4. The modules ·
5. The runs · 6. Fairness · 7. What the runs disagree with · 8. The theorems ·
9. What is only model-checked, and what is left out · 10. Plan

## 1. The system

One or more replicas of an HTTP server (`cmd/api`) share one PostgreSQL
database. A request is a goroutine. What one request leaves for another is in
the tables: in memory there are only the rate limiters and, per replica, the
goroutine of the daily OFX reminder. Mails and rebuilds of the classifier are
goroutines that a handler starts and does not wait for.

**Statements commit by themselves.** Of the request handlers only four ever
open a transaction: creating a transaction with its tags
(`transaction.go:108`), `UpdateTags` (`:486`), `ApplyTagToSimilar` (`:222`) and
`DeleteAccount` (`user.go:188`); the support dump reads under REPEATABLE READ
(`dump.go:87`). Everything else is a sequence of statements, each on whatever
connection the pool gives it and each with a timeout of its own; the handler can be
interleaved with any other between two of them, fail at one of them with the
earlier ones in effect, be told that a statement failed which committed, or
stop for good. There are no explicit row locks, and no isolation
above READ COMMITTED among the writers. What protects an invariant is the condition in
a WHERE clause, a UNIQUE or foreign key, or nothing.

**How the parts interact.** Registration, login and refresh end in the same
`issueTokenPair`; an access token carries the user's family of that moment, and
the handlers of families, accounts and transactions take the family from the
token, not from the row. Registration with a signup invite decides the plan, the
plan the quotas and the history a list shows. Membership decides whose content a
deletion hands over or takes along, and which lists of accounts lose a user.
Imports of statements insert the rows from which the reminder job counts its
days and the list its pages; they read the classifier's state, which every edit
of a transaction's tags rebuilds in the background.

## 2. Inventory

Status: **M** modelled, **P** partly, **–** not modelled (section 9 says why).

| Part | State | Operations | What is hard about it | What makes it correct | |
|---|---|---|---|---|---|
| Sessions and passwords (`internal/auth`, `cmd/resetpassword`) | `refresh_tokens`, `password_reset_tokens`, `users.password_hash` | Login, Refresh, Logout, ChangePassword, Forgot, Reset, the command | two requests with one token; a sweep of the sessions between a request's read and its INSERT; a request that stops half way | a login is one linear chain of tokens; a reset link works once; success means the sessions are gone; a stale session has exactly one cause | M |
| Registration and signup invites (`auth/handler.go`, `handlers/admin.go`) | `signup_invites`, `families.plan`, `users`, `family_members` | Register, CreateInvite, RevokeInvite | claim, then create, then give back; each step can fail, commit unheard, or be the last | an invite creates one account; nobody gets the lifetime plan without one; a spent invite is accounted for | M |
| Families, invites, account deletion (`handlers/family_handler.go`, `handlers/me.go`, `repository/user.go`) | `families`, `users.family_id`, `family_members`, `family_invites`, `created_by` of accounts and transactions, `account_id` of transactions | Register into a family, CreateInvite, Join, RemoveMember, Delete, creation and deletion of content | a deletion of six statements against joins, removals and other deletions; foreign keys that cascade or refuse; tokens that name a former family; a transaction on an account of another family | no row names a deleted one; content stays with people of its family, and goes only with the account it is on; a deletion erases only its user | P |
| OFX reminder (`internal/jobs`, `repository/family.go`) | `families.ofx_reminder_sent_at`, the imports | the daily job on each replica | replicas that claim at once; a stop after the claim; one family's failure; a daily cap under which families wait | one mail per import; no claim forgotten; the cap; a stale family waits for ever only behind others that keep importing, going stale and taking the cap | M |
| Statement import (`handlers/transaction.go`, `repository/transaction.go`) | `transactions` of one account | Import (FindReconciliationMatch, Reconcile, BulkUpsert), Create, Delete | two imports of like files; a plan created or deleted in between; a failure in the middle and the same file again | what was answered with 200 is in the books; nothing is in the books twice | P |
| Access control (`internal/middleware`, `auth/jwt.go`, `auth/handler.go`) | `blocklist`, `users.role`, the tokens' claims | Authenticate, RequireRole, Elevate, RequireElevated, Logout | a token outlives what it says; roles, families and the blocklist change between two checks of one request | who acts behind `/admin` has the role of now and gave the password minutes ago; after Logout a token is dead | M |
| Billing and coupons (`internal/billing`) | `families.plan`, `coupons` | ApplyCoupon, SimulateUpgrade, SimulateDowngrade, the administration of coupons | check of the use count, then a separate increment whose error is dropped | a coupon is overspent by overlaps alone; no coupon lowers a limit | M |
| Accounts (`handlers/account.go`, `repository/account.go`) | `accounts`, `account_allowed_users` | Create, Update, Delete | count, then INSERT; a list deleted and written row by row; the empty list means everybody | the quota up to overlaps; the list that was asked for | M |
| Tags and merchant rules (`handlers/tag.go`, `handlers/ai_handler.go`, `repository/transaction.go`) | `tags`, `transaction_tags`, `merchant_mappings` | Update, Create, ApplySimilar, AutoTagBatch, an import's tags, rules | five writers of one transaction's tags | what a user tagged by hand stays | P |
| Classifier (`internal/classifier`) | `classifier_states` | Train, Classify, GetOrBuildForFamily, RebuildStateForFamily | overlapping rebuilds of snapshots of different age; a map scanned in a random order | the newest history wins; what families share holds no tag of one; the answer is that of naive Bayes | M |
| Parsers (`internal/csvparser`, `internal/ofxparser`) | none | CSV and OFX into rows with FITIDs | equal rows of one file; files that overlap | one FITID per movement, the same at every upload | M |
| Listing (`handlers/transaction.go`, `repository/transaction.go`) | none | GET /transactions | four reads while rows, lists and plans change; an order with ties | only what the user may see, all of it, once | P |
| Rate limiter (`middleware/rate_limit.go`) | a map under a mutex | Allow, cleanup | the end of a window, the sweep, a restart | at most twice `max` in the length of a window; 429 only when full | M |
| Migrations (`internal/migrations`, `cmd/migrate`) | `migrations` | Up | two processes; a stop between a migration and its record | the record is a beginning of the list and the schema is where it says | M |
| Administration, support dump (`handlers/admin.go`, `repository/dump.go`) | `users.role`, `admin_audit_log`, consent | UpdateUserRole, FamilyDump, SetSupportAccess | count the administrators, then write; consent, audit, dump as three statements | an administrator is left; no dump without consent and audit | P |
| Mailer, preferences (`internal/mailer`, `handlers/email_prefs.go`) | `users.email_reminders_opt_out` | send with timeout, Unsubscribe | a send that fails after delivery | (an outcome of its callers) | – |
| Profile and onboarding (`handlers/me.go`) | one row of `users` | Update, UpdateOnboarding | change of e-mail | confirmed by password | – |
| HTTP, configuration, database plumbing | none | routing, validation, output | – | – | – |
| Maintenance commands (`cmd/seed`, `cmd/reset`) | – | seed data, truncation, by hand | – | – | – |

The hazards of this code, each with the line where it bites and the properties
that would catch it, are the list `hazards` of `PROJECT.json`.

## 3. How the code is modelled

**A request is a process.** `req[p]` holds what a handler keeps in local
variables between two statements; its field `at` names the statement that comes
next. One action is one SQL statement with the Go code up to the next one, early
returns included. A handler that changes nothing (a wrong password, an unknown
token) is a stuttering step. `DeleteAccount` is the exception: it is one transaction
at READ COMMITTED, so its reads are actions and its writes appear together at the
commit, which the foreign keys can refuse. The claim of the reminder job is one statement
that reads a snapshot and then waits for row locks, so it is two actions.

**Failures are actions.** A statement fails and the handler takes its error
path; a statement commits and the caller is told it failed (the `Unheard`
actions: each repository call has a timeout); a request or process ends
between two statements (`Abandon`, `Crash`, `Stop`). An error that the code drops
(`_ =`) is an action that goes on.

**Excuses are named.** A property of a system without transactions often holds
unless two requests overlapped or a statement failed. The module then records in
a history variable which of them happened to which row (`raced`, `mixed`,
`excused`, `lag`, `dropped`, `since`), and the property says that nothing else
breaks the promise. What sets such a variable is the event itself, seen from
outside: a write that began while another was on the same row, an INSERT that
failed.

**Data.** Tokens, logins, families, FITIDs are model values. A password is the number
of its write, a time is an order or a count of days, what `FindReconciliationMatch`
computes of amounts and dates is the set of bank transactions a payment fits.
Variables called history in the modules are not in the code; they record what
a property is about (the generation a session was opened with, the users an
invite let in, the mails sent), and no guard reads them.

**Ids are not reused.** A row that was deleted does not come back under its id: the code
generates UUIDs and random tokens. So each constant set is also a bound on how
many rows of its kind a behaviour inserts.

## 4. The modules

| Module | Specifies | Composes |
|---|---|---|
| `SessionChains` | what the sessions promise, without tokens, requests or passwords: a chain is opened for a user, closed, and never opened again | abstract |
| `Sessions` | the handlers of sessions, passwords and reset links | implements `SessionChains` (`Chains == INSTANCE …`) |
| `InviteLives` | what a signup invite promises, without requests, families or statements: it is open, held, then spent on one account, lost or revoked | abstract |
| `Registration` | Register with and without a signup invite, and the administrator's invites | implements `InviteLives` (`Lives == INSTANCE …`); its claim, family and release are one action (`Found`) of `Membership` |
| `Membership` | who belongs to which family, and account deletion | takes `Registration`'s outcome as given |
| `OFXReminder` | the daily job on every replica | its `Import` is what `StatementImport` does to the tables, seen from outside |
| `StatementImport` | the import of statements into one account | – |
| `AccessControl` | tokens, the chain in front of `/admin`, roles, the support dump | its `Erase` and `Move` are what `Membership` does to a user, seen from outside |
| `Billing` | plans and coupons | – |
| `Accounts` | accounts, their quota and their lists | EXTENDS `Billing`: the plan that `CheckPlan` reads is the one that coupons change |
| `Tagging` | tags, rules, and the stored classifier | its `InsertRow` is an insertion of `StatementImport`'s `Upsert` |
| `NaiveBayes` | the classifier as an algorithm, with the definition it implements | – |
| `StatementFiles` | files of a bank, and the FITIDs the parsers give their lines | its `BulkUpsert` is the `Upsert` of `StatementImport`, where a FITID is given |
| `Listing` | one page of transactions as four reads, and a walk through the pages | – |
| `RateLimiter` | Allow and cleanup on each replica | – |
| `Migrations` | `cmd/migrate up` on several machines | – |

Each but the two abstract ones has an `MC…` module for TLC; the last five and `StatementImport` have
`MCParts` together, in which they share nothing. The theorems are in eight `…Proofs` modules, one for each component down
to `Tagging` (`AccountsProofs` is also `Billing`'s), with those of the parts in the module they are nearest
to: the limiter's in `AccessControlProofs` (both guard what comes in), the classifier's in `TaggingProofs`
(which stores it), the files' and the list's in `StatementImportProofs` (rows come from the one and go to
the other), the migrations' in `OFXReminderProofs` (both run beside the requests). `StatementImportProofs`
extends `MCParts`, whose specification is the six side by side, to prove the types of the small ones.

**`Sessions`.** `refresh` and `reset` are the two tables of tokens, `password`
the generation in `users.password_hash`. Login is `LoginVerify`,
`IssueTokenPair`; Refresh is `RefreshRevoke` (the conditional UPDATE of
`RevokeByHash`), `IssueTokenPair`. ChangePassword, Reset and
`cmd/resetpassword` start with `ChangeVerify`, `ResetConsume`, `CliConfirm` and
share `UpdatePassword` and `RevokeAllByUser`; only ChangePassword goes on when
the sweep fails (`ChangeSweepFails`). Forgot is `ForgotSnapshot` (the DELETE of
the pending tokens sees those of its snapshot) and `ForgotInsert`. `Abandon` ends a
request anywhere; expiry is the status `dead` or `gone`.

**`Registration`.** Register is `Begin`, `Claim`, `CreateFamily`, `CreateUser`,
`AddMember`, `SetUsedFamily`, with `GiveBack`/`ReleaseClaim` on the error paths
that have it and `HashFails` and `Crash`, which do not. `ClaimUnheard` and
`CreateUserUnheard` commit behind the caller's back. `stopped[i]` records what befell the
requests that held `i`. In the eyes of `InviteLives` (`LifeOf`, `HeirsOf`) an invite is spent once its
user is created, lost if it is claimed and held by nobody, and void, with nothing promised, once
a user was created unheard; the other statements of a request are steps of no invite.

**`Membership`.** `home` is `users.family_id`, `members` is `family_members`,
`authored` the triples of a family, a `created_by` in its accounts and
transactions, and the family whose account that is (its own for an account and, as a rule, for a
transaction; but Create takes `account_id` from the payload and asks nothing about it, so
`CreateContent` allows any family that has an account), `granted` the families that `signup_invites.used_by_family_id`
names, `claims` the access tokens issued. Registering with a family invite is
`RegisterRead`, `CreateUser`, `Enroll`, `MarkAsUsed`; joining is `JoinRead`, `AddMember`,
`UpdateFamilyID`, `MarkAsUsed`, where only the first statement looks at the
invite's state. An invite is made by `CreateInvite` (the check of
the quota) and `InsertInvite`. Deletion is `EraseBegin`, `EraseCount`, then
`EraseElect` and `EraseLeave` if others were counted, else `EraseLast`; `RowsGo` is
what the foreign keys to users and families take along, `Unrelated` what the one to accounts
leaves, `NamesNoneOf` and `NotAudited` are the ones that refuse, and `Rollback` is every way to end without a commit.
Removing a member and using one's content need a token of
the family, not the row: a user who left goes on for the token's lifetime.

**`OFXReminder`.** `run[r]` is the job of replica `r`: down, waiting for 19h,
claiming, or mailing the families it claimed one by one. `Selections` is the
CTE (stale, not reminded since, most recent first, `LIMIT` to what the cap
leaves), `Unmarked` the condition that the UPDATE checks again on locked rows.
Imports, deletions of imports, stops, restarts and the change of day come in between.

**`StatementImport`.** A request works through its file: `Match`/`NoMatch`/`MatchFails`
is `FindReconciliationMatch`, `Reconcile`/`ReconcileFails` the UPDATE and its
dropped error, `Upsert` one INSERT … ON CONFLICT of `BulkUpsert`, `Reply` the
200. Users plan payments and delete rows in between. `plan` and `posted` are the rows
of `transactions` that users and imports inserted.

**`AccessControl`.** `issued` is every token the server signed: its claims. A
request passes `Authenticate`, then `RequireRole` (which reads the row),
`RequireElevated`, and only then its own statements: `FindTarget`, `CountAdmins`,
`UpdateRole`, or `ReadConsent`, `Audit`, `Dump`. `Elevate` is `ElevateRole` and
`ElevateSign`, Logout `LogoutAccess` and `LogoutElevated`, where a failing INSERT
is a choice of `Block`. `Tick` is the clock; no request lives longer than
`ServeMax`, the write timeout of `cmd/api`. `since` says what others changed since
a request has read it.

**`Billing`, `Accounts`.** ApplyCoupon is `FindByCode`, `GrantPlan`,
`IncrementUsage` with `GrantFails` and `IncrementFails`. Creating an account is
`CheckPlan`, `CountAccounts`, `InsertAccount` and one `InsertAllowed` for each user of the
list; Update is `FindRow`, then the read of the list (`Rename`, `ChangeList`, or
`RenameBlind` when that read fails or is cut short, whose error the code drops), `ClearList`, and
again `InsertAllowed`. `Fail` ends it anywhere. `mixed[a]` says that the last
write of the list overlapped, failed, or was blind.

**`Tagging`.** A tag write is a database transaction: `BeginWrite` (the DELETE sees
rows), `CommitWrite` (the INSERT and `manually_tagged`, if `KeysHold`), `RollBack`.
Update, Create, ApplySimilar and AutoTagBatch plan such writes; an import inserts
its row and its tags as statements of their own (`InsertRow`, `InsertTag`).
`Learn` puts goroutines into `due`, `BeginBuild` starts one, `Train` reads the tags and the history
and learns what came in of them (`TrainedFrom`): neither read asks whether it was cut short, nor does that
of `AutoTagBatch` or of `SelectSimilar`, where a read that finds nothing looks like one that breaks off.
`Store` is the upsert of the family's row, `FindShared` and `WriteShared` the SELECT and the
UPDATE or INSERT of the row without a family. `GetModel`, `Inherit`,
`Adopt`, `BuildNow`, `Await` are `GetOrBuildForFamily`.

**The parts.** `StatementFiles`: the bank books movements, dated back or not; an
export shows some days; `Parse` gives each line of the table the bank's
identifier or a hash over what the line `Shows` and how often the file showed it before.
`Listing`: `ReadVisible`, `ReadPlan`, `CountRows`, `ReadRows` are the four reads of a page; the first and
the last take what comes in for all there is.
`RateLimiter`: `Allow` and `Cleanup` hold the mutex, so each is a step.
`Migrations`: `ReadApplied`, then `RunMigration` and `RecordMigration` for each pending
one. `NaiveBayes`: `TrainText` adds to the counts, `ScanClass` is one round of the loop over
the map; scores are exact fractions.

## 5. The runs

Each run asks one question. Where a run says `CHECK_DEADLOCK FALSE`, the model may
stop for lack of fresh ids (section 3), not because somebody waits: nothing in these
handlers waits for another request. `Sessions` and `OFXReminder` check
deadlock.

| Run | Question | Instance and why it is enough |
|---|---|---|
| `sessions` | Does a login stay one linear session, whatever overlaps? Does a session outlive a password only by overlapping the sweep? Does a reset link set one password, and does success mean that the sessions are gone? Do the handlers implement `SessionChains`? | One user, three requests, two login tokens, a reset link, two password writes. Three requests are two that fight over a token and one that sweeps; two tokens are a chain rotated once or two logins. What a row of another user would change is excluded by the theorems, which hold for any number of users, tokens and requests. |
| `registration_claims` | Does an invite create one account and the lifetime plan one family? Is every claim accounted for? Has an invite one life (`InviteLives`)? | Two overlapping requests, two logins, two invites, three families: both may hold an invite of their own or fight over one, and a family that is left behind leaves two. |
| `membership_moves` | Do all rows name rows? Does content stay with people of the family, and in it? Whom and what does a deletion take along? | Two users who move between two families on one invite, two overlapping requests: a deletion can overlap an arrival, a departure of the elected successor, or the other user's deletion, in which case they elect each other. Two rows of content are an account and, of the other family or user, a transaction on it. |
| `membership_shared_invite` | Does an invite let one user in? (violated) | Three users: the creator and two who present it. |
| `membership_erasable` | Can every account be deleted? (violated) | One user suffices. |
| `ofx_claims` | One mail per import, no claim forgotten, the cap held? | Two replicas, three families, a cap of two: one more family than mails a day, and a queue of two, in which the failure of one could lose the other. Stale after one day, ages up to two, so an older and a newer family differ; one import per family beyond its creation, so a family is due, imported again, and due again. `MaxLost = 3` bounds the claims that failures and stops leave without a mail: no guard reads them, and a further one asks less of the properties. |
| `ofx_fair` | For what reason alone can a stale family go unreminded for ever? | The same with two families that compete for one mail a day, without an end to their imports, and no symmetry. `Renumber` (in `MCOFXReminder`) lets two points in time that no `sent_at` tells apart any more have one number, so that two numbers serve any number of imports; the histories, which nothing here reads, are left out of the states (`VIEW`). |
| `access` | Does anybody act behind `/admin` without the role of now and a recent password? Is an administrator left? Does data leave without consent and audit? Do tokens end? | Two users of one family, a second family to move to, two requests at a time and five in all, three instants; access and elevated tokens live for one, a request up to one. Five requests are a login and an elevation of each of two administrators and one more, or login, elevation, logout and the use of what was logged out. |
| `accounts` | Are quotas and coupons overrun by overlap alone? Is the list of an account the one that was asked for? Does a coupon lower a limit? | One family, one coupon of one use or unlimited, two users, three accounts where FREE allows one, four requests, two at a time: two overlap, and two more change plan, coupon or list before or between. A second family would add another row to count, no other statement. |
| `tagging` | Do tags by hand stay? Does the stored classifier catch up? Is what families share free of their tags? | Two transactions, one tagged by hand and one that is to come or is there, a system tag and one of the family, two requests and two goroutines (a rebuild for the family and one for all, or two that overlap); one failure or stop, so that what follows it is seen to repair or keep it. |
| `tagging_new_family` | Does a new family begin with a pretrained classifier? (violated) | One request, while the shared classifier is there. |
| `parts` | Is what a 200 acknowledged in the books? Is nothing in them twice? One question for each of the five small parts (below) | The state spaces add up, since a behaviour is one of one part. Import: two imports of one or two transactions in either order, two planned payments that fit any of them. Two imports are what it takes to overlap; with two transactions and two payments the pairing can go wrong in each way: one payment for both, each the other's, one twice. `MaxExcuses = 2` bounds the transactions that failures and deletions touch: further ones only weaken what the properties demand. Files: four movements on two days, two amounts and the opening balance, two uploads: two equal movements, one dated back, and two files that overlap. Listing: three rows on two accounts, pages of one or two, one change; of the first tables that only differ by names one is enough (`MCListingInit`), and who asks for both accounts by name gets what he gets who asks for none (`MCBound`). Limiter: two requests per window, two keys, a window of one instant, four instants, six requests, a restart: three windows. Migrations: three, two machines, four runs. Classifier: three texts of up to two words, three classes, a word that `Tokenize` drops. |

Of the small parts `parts` asks: is a movement that a file has shown in the books once
(`EachMovementOnce`), does a list show what the user may see, all of it and once
(`PagesFaithful`), does the limiter keep its limit and deny only at it
(`LimitKept`), is the record of migrations one to go on from
(`SchemaFollowsRecord`), does Classify answer what naive Bayes with a margin
defines (`BestByMargin`).

The bounds: `MaxGen` (password writes), `MaxMembers` (the plan's limit),
`MaxContent` (rows in `authored`), `MaxAge` (days after which a family is as old
as can be), `MaxImports`, `MaxLost` (in `ofx_claims` alone), `MaxExcuses`,
`MaxRequests` (requests that come in), `MaxTime`, `LastDay`,
`LastInstant` (the clocks), `MaxFaults`, `MaxRestarts`, `MaxRuns`, `MaxChanges`, `MaxMovements`,
`MaxUploads`, `MaxAsked`, `MaxText`, `MaxDocs`; all others are the sizes of the constant
sets. The runs take from a few seconds (`membership_erasable`) to about three
minutes (`parts`, 2.6 million states, and `tagging`, 2.1 million) with two workers. These two tell
states apart by what a step or a property can still read (`VIEW MCView`): not by the plan of a write that is
over, the rows of a page that has been answered, or the transactions that a deleted row fitted. Symmetry is
declared where constants are interchangeable in Init and every action (in `parts` those of the import alone); `ofx_fair` has none, since it checks a liveness property.

Every property of a passing run has a mutant in `PROJECT.json`: a variant of one
operation, written beside it in its module, with which the run fails: RevokeByHash
without its condition, a reset token that is read and then marked, an invite
claimed without `used_at IS NULL`, a deletion that counts `family_members`
in place of `users`, a claim that does not check its rows again, a search for a
match that forgets a status, an elevated token of any audience, a count of administrators
that includes the one to go, a history that keeps what it should leave out.

## 6. Fairness

Only `OFXReminder` states a liveness property, and only its `FairSpec` has
fairness; the safety properties of all modules are properties of `Spec` alone. A
request handler promises its client an answer, nothing to anybody else, so there is no
liveness to check in the other modules: what `Tagging` promises of goroutines that it
starts and forgets is said of the moments when none is left (`CaughtUp`).

- Weak fairness of the end of a claim and of the handling of a queued family: each
  statement and each send has a timeout, so it ends, one way or the other. Which
  way is not promised: a fair behaviour may fail for ever, except for
- strong fairness of `ClaimSnapshot(Steady)` and `ClaimCommit(Steady)`: on one
  replica claims are not prevented for ever. Without it the property cannot hold,
  since a database that is down at each 19h reminds nobody.
- `[]<>UpAt19h(Steady)`: that replica is up at 19h again and again, however often it
  restarts in between. It also says that days go by.

No fairness is assumed of mails (a mail may always fail: the claim counts), of
imports, deletions, restarts, or of the other replica.

Under this fairness it is not true that every stale family is reminded in the end, and no
document says so: `ORDER BY last_ref DESC` (`family.go:218`) gives the day's mails to the families that went
stale last, and with two families and one mail a day TLC shows one that waits for ever
behind the other. `StaleFamilyClaimed` says that this is the only reason: a family that
stays due sees, again and again, the cap taken by others, and one of them imports, goes stale and is
reminded without end. Were the imports of a run finite, as a bound would make them, the
starvation could not be seen.

## 7. What the runs disagree with

Three runs check a sentence of the repository that the code does not keep; the
findings in `PROJECT.json` quote it.

- `membership_shared_invite` — Join and Register test the invite when they read
  it; `MarkAsUsed` tests it again, and its error is dropped.
- `membership_erasable` — `signup_invites.used_by_family_id` has no ON DELETE: a
  family founded with a signup invite cannot be deleted, nor its last user.
- `tagging_new_family` — a missing row reads as an empty state without an error
  (`classifier_state.go:46`), so the inheritance of the pretrained classifier that
  `documentation/ai_classifier.md:43` promises new families is never reached that way.

Elsewhere a property that holds has the exception in its statement:

- `StaleSessionsRaced` — ChangePassword and Reset revoke the tokens that exist
  ("Derruba todas as sessões", `password_reset.go:202`). A Login that verified the old
  password, or a Refresh that consumed an old token, inserts its own afterwards.
- `GrantsOnce` and the refinement of `InviteLives` — `ReleaseClaim` follows an INSERT that timed out after
  it committed: the account exists and the invite makes another.
- `CascadeOnlyLate` — the last user of a family deletes the account while
  somebody registers into it or joins: `users.family_id ON DELETE CASCADE` deletes
  the newcomer, but nobody who was counted.
- `ContentStays` — a transaction on an account of another family
  (`handlers/transaction.go:260`) goes with that account (`schema.sql:78`), and so with the last user of
  that family (`user.go:224`), although its own family stays.
- `StaleFamilyClaimed` — a family whose import is older waits behind those that went stale later,
  for ever if they fill the cap each day (section 6).
- `AckedRecorded` — two overlapping imports that find one planned payment both
  reconcile it (`transaction.go:204` has no condition on the status): the second FITID
  replaces the first, and the first bank transaction is in no row (`LostTo`). An import that
  overlaps nothing acknowledges a transaction whose `Reconcile` failed (`dropped`).
- `LastAdminStays` — two administrators demote each other on one count, and
  DELETE /me of an administrator counts nobody.
- `TokensEnd` — Logout answers 204 when the INSERT into `blocklist` has failed.
- `ListAsAsked` — the list of an account is rewritten by every Update; while it
  is empty the account is open, and a failure leaves it so.
- `CaughtUp` — a rebuild that has read earlier may store last, a failed read of the
  family's state (`trainer.go:93`) overwrites it with the shared one, and a history or a tag list
  that is cut short (`transaction.go:539`, `tag.go:38`: no `rows.Err`) is stored as if it were all.
- `PagesFaithful` — `ORDER BY date_posted` alone: rows of one day may be shown twice or never. And a
  read of the accounts (`account.go:69`) or the rows (`transaction.go:421`) that is cut short leaves
  some out with a 200, though nothing has changed.
- `EachMovementOnce` — the hash of a line covers the balance, which a movement dated
  back changes for the lines after it.

Seen while reading and part of no property: `CleanMerchantName` strips accents and the
ILIKE of `FindMatch` and `ApplyTagToSimilar` does not, so that a rule learned from an accented name
does not match the text it came from; and the repair of a nameless row by a later
import adds that import's suggested tags to those the row has.

## 8. The theorems

TLC checks the instances above; the theorems hold for all values of the
constants that satisfy the assumptions of their module, which TLC evaluates on every
run: the "no value" constants are not members of their sets, bounds and lifetimes are
naturals, in `OFXReminder` `Steady` is a replica and `MaxAge >= StaleAfter`. Sets
are finite only where something is counted: users and processes in `AccessControl`,
accounts and processes in `Accounts`, families in `OFXReminder` (the cap), goroutines in
`Tagging` (of which there is one at least), replicas in `RateLimiter`, rows in `Listing`.
The list has a day at least to list (`LastDay >= 1`), and, for `PartsTyped` alone, there is an account
that a row may be of.

Each proof has the form Init ⇒ I, I ∧ [Next] ⇒ I′, I ⇒ property, with one lemma or
step per action. What follows names each I and says why the property alone does not do.

- **`SessionsProofs`.** `TypeCorrect`. `SessionsLinear` by `LinearInv`:
  `SessionLinear` says nothing of a root no token carries yet, so a login could reuse
  one; `RootsIssued` excludes it. `StaleOnlyByOverlap` by `StaleInv`: that
  a token inserted late is marked `raced` rests on the generation its request holds
  being ordered with the sweep (`GenerationsOrdered`). `ResetTokenSetsOnePassword`
  by `ResetInv`: a token is pending, or held by one request that has not written,
  or spent (`ResetTokensSpent`). `ResetAcknowledged`, directly; the two are
  `ResetsAreSound`. `SessionsImplementChains`: under the mapping `ChainOf`,
  `OwnerOf` a login opens a chain, a rotation stutters (the chain is held by the token,
  then by the request, then by the next token), and whatever ends tokens or requests
  closes the chains they held, several at once for a sweep. It needs `LinearInv`: only
  because a chain has one holder does the end of a holder end the chain.
- **`RegistrationProofs`.** `TypeCorrect`; `InviteGrantsOnce`, that an invite makes one account and a
  revoked one none, by `ClaimsExclusive`: at most one request holds an invite,
  an invite held is claimed, and the holder that may still create has created nothing.
  `InvitesAddUp` by `Foundings` besides: a family that was founded on an invite is named by
  the row, or by the request that is yet to name it, or something befell that request.
  `RegistrationImplementsLives`: under `LifeOf`, `HeirsOf` each statement moves one invite along its
  life, or none. It needs both invariants: because an invite has one holder, the end of a holder
  leaves nobody who could still spend it; because a request past its user has the invite's account,
  its end leaves the invite spent and not lost.
- **`MembershipProofs`.** `TypeCorrect`, which contains the foreign keys
  (`RowsNameRows`). `ContentBelongs` by `BelongInv`: the users of a family and elected
  successors have been given tokens for it. `CascadesOnlyLate`, an action property, by `LateInv`:
  a deletion that counted nobody has every resident but its user in `late`.
  `ErasureKeepsContent`, an action property, by `OnlyErasures` (no other step erases a user) and
  `HandedOver` (each row is there after the change of author); what an `EraseLast` removes is of the
  family that goes or on an account of it.
- **`OFXReminderProofs`.** `TypeCorrect`; `MailsOnce` by `ClaimsUnique`: `sent_at` has
  passed each point that was claimed, and the queues of two replicas do not meet;
  `ClaimsKept`, inductive with the types. `CapHolds` by `Selected` and `CapCounted`: the
  families marked within the window, with those that claims under way may still mark, are
  counted against the cap and the claims that overlapped an uncommitted one.
  `RecordsFollow` (`Migrations`) by `MigrationsInv`: the record has no gap below what a process has
  passed (`Passed`), a record that a process does not know of and an effect without a record
  are excused or about to be recorded (`UnknownExcused`, `UnrecordedExcused`).
- **`StatementImportProofs`.** `TypeCorrect`, which contains UNIQUE of the FITID.
  `SingleEntry` by `NoDoubleUnderway`: what is said of inserted rows holds already of
  those queued. `AcksRecorded` by `KeptInv`: each transaction of a file is still to
  come, matched, queued, recorded, or excused, where `Overlaps` says that any two imports that run together
  are in `met`, and `Removals` that what a deleted row fitted is in `removed`.
  `PagesShowAll` (`Listing`) by `ListingInv`: what the request has read is so or marked as changed
  (`ReadOrChanged`), and the rows shown after k pages are, by `Progress`, as many as k pages hold,
  each once, and of later days than the others. Of a set with that property there is
  one for each size, so it is the same beginning of every order the database may choose
  (`SamePrefix`), which is why the next page continues it although rows of one day come in any order.
  `MovementsOnce` (`StatementFiles`) by `FilesInv`: the ledger is in the order of days (`LedgerOK`); a row is what the
  parser makes of some movement now, or of a line whose balance has changed since, with that day and amount (`RowsOK`),
  and of equal movements that were shown there are as many rows at least (`NothingMissing`).
  At its heart is that an export shows whole days: the equal lines of a
  file that come before one are all those of its day that the ledger has before it, so that any
  two files number them alike and equal lines of one file differ. The folds of the parsers are taken apart into
  recursive functions on the positions of a file.
  `PartsTyped` (`MCParts`) by `PartsInv`, which is `FilesInv` and `ListingInv` with the bounds of a page
  (`ListingBounds`), a number of its own for each request the limiter answered (`AnswersCount`), and
  that what a machine is about to record is a migration of the list (`RunnersTyped`).
- **`AccountsProofs`.** `TypeCorrect`, which contains the foreign keys of the lists.
  `LimitsHold` by `UsesTaken` and `PlacesTaken`: `LimitsByOverlap` says nothing of
  the requests under way; a coupon's uses with the requests that are yet to count one, and a
  family's accounts with the requests that have counted and are yet to insert, stay below
  the limit plus the requests that can be in flight next to one. `CouponsNeverLower`, an
  action property, by `CouponsAllowed`: a request is only under way for a coupon that
  exists, and a coupon that exists brings a plan administrators may give. `ListsHold` by
  `ListsOK`: while one request alone writes a list, what is there and what it is yet to
  delete and insert make up the list it was asked for.
- **`AccessControlProofs`.** `Types`; the other theorems of `AccessControl` by one invariant, `IInv`. A request
  behind the chain has passed with the role as it was read (`PassedRole`) on an
  elevated token whose password was proved within `ElevTTL` (`ElevatedProven`,
  `ProvedRecently`): `Acts`. Unless it is excused, a demotion that is decided leaves another
  administrator (`AnotherStays`): `LastAdmin`. A request that has written its audit
  row has a row of its own, under the consent it read: `Dumps`. Session
  tokens of someone who left end `AccessTTL` and a request's length later, since none is signed
  on the old row but by a login that had read it (`LoginStale`, `SessionsEnd`,
  `CameInValid`), and what is logged out stays out (`LoggedOutStaysOut`): `TokensLapse`.
  `LimitHolds` (`RateLimiter`) by `LimitInv`: the admitted requests can be labelled with the life of
  their process, one of two halves its windows take in turn, and a place in the window, so
  that two requests with one label are more than a window apart (`Apart`). A window's length
  then holds at most one request of each label, and there are twice the limit for each life. The labels are not in the code; the
  invariant says that they exist.
- **`TaggingProofs`.** `TypeCorrect`, which contains the foreign keys of tags in use and of rules.
  `SharedStaysSound` by `SharedInv`: a rebuild for all families has read system tags only
  (`ForAllPure`), and the rows with the rebuilds about to insert one are at most the goroutines
  (`RowsBounded`). `HandTagsStay` by `HandInv`: a tag by hand is marked so in its row
  (`HandMarked`), a request only writes tags of its own choice (`WritesOwn`), what it read still
  holds while nobody overlaps it (`AloneSees`), and it spares what is marked (`SparesHand`).
  `ClassifierCatchesUp` by `LearnInv`: of the rebuilds under way the newest has read the tags
  there are or will, and the row has them if none is under way (`NewestFresh`, `RowFresh`),
  rebuilds having read in the order they are numbered (`ReadInOrder`).
  `AnswersByMargin` (`NaiveBayes`) by `BayesInv`: the counts are those of the texts (`StatsCount`), and
  half way through a scan the two classes kept are the best two of those seen, in whatever
  order the map brought them (`BestTwo`). At the end the second best speaks for all others: if the
  best is the margin above it, it is above each. That scores compare as fractions do is arithmetic
  on their numerators and denominators, which the provers need told step by step.

## 9. What is only model-checked, and what is left out

Every safety property of the passing runs, and each of the two refinements, has a theorem. Only model-checked are:

- `StaleFamilyClaimed`: liveness under fairness and ENABLED are beyond the prover;
- the three violated properties, which no proof could show.

The library's induction theorems take an operator as a parameter, which the provers cannot
instantiate. Where a fold is proved about (`MovementsOnce`, `AnswersByMargin`), the induction is
over a set of numbers: `Climb` says that a set with 0, and with n + 1 for each n of it, has all naturals, and
rests on the least element (`Least`) that well-foundedness gives.

Left out of the modelled parts:

- the bodies of requests and answers, validation, logs, the text of mails, and
  the queries that only read;
- the clock: tokens and invites expire at any moment; `imported_at`, taken by
  the API, and `sent_at`, taken by the database, are one clock in `OFXReminder`;
- rows with other statuses than those an import asks for and the repair of empty
  names (`StatementImport`), the choice among an e-mail's
  recipients (`OFXReminder`), the e-mail an invite is addressed to (`Membership`);
- the deletion of the account of an administrator who created signup invites, which
  the foreign key `signup_invites.created_by` refuses;
- in `Registration` the dropped errors of FindByLogin and FindByEmail
  (auth/handler.go:141, 148): an error reads as "free", and the UNIQUE keys refuse later;
- in `Accounts` the last-user branch of a deletion (user.go:219-247): `EraseUser` is of a
  user whom others of the family outlive, and the branch is in `Membership`;
- in `Membership` the failure of a transaction by serialization or deadlock is one
  of the reasons of `Rollback`; the locks themselves are not represented;
- signatures, bcrypt and hashes: a token is its claims, a hash is what it was taken
  of; two access tokens signed for one user within a second are one string in the code as in
  `AccessControl`;
- colours, names and uniqueness of tags, the normalisation of merchant names, and
  confidence beyond "a class it knows, or none" (`Tagging`); rounding of
  logarithms (`NaiveBayes`);
- the filters of a list that only narrow it, Summary and Projection, which are single
  queries (`Listing`);
- what a dump redacts, its notice by mail, the overview and activity of the
  administration;
- dates, numbers, encodings and XML of a file (`StatementFiles`); the text of each
  migration (`Migrations`), taken to be atomic and repeatable as its statements are.

Not modelled at all: the mailer and the e-mail preferences (a send is one attempt whose
outcome is an action of its caller, Unsubscribe one idempotent UPDATE), profile and
onboarding (one UPDATE of one row each), the plumbing, which keeps nothing between two requests, and the
maintenance commands, which are run by hand on a database without traffic.

## 10. Plan

Done, in this order: `Sessions` with its abstract specification and refinement,
`Registration`, `Membership`, `OFXReminder`, `StatementImport`, `AccessControl`,
`Billing` with `Accounts`, `Tagging`, the parts; the theorems of each, last those of
`NaiveBayes`, `StatementFiles` and the parts' types; `InviteLives` with the refinement. To come:

1. An abstract specification of a deletion in `Membership`: one step in which a user goes and
   everything that is named goes or changes hands, the transaction of six statements shown to be that step.
2. One of the reminder: an import is pending, claimed, mailed or lost, as `OFXReminder` has it per family.
3. The quota of members, which `CheckPlan` compares when an invite is created and nobody when it is
   used (`billing/service.go:120`): a property of `Membership` with a plan, once the docs say what is promised.

## Running it

```
tlc -config Sessions.cfg MCSessions.tla              # a run: "module" and "cfg" of PROJECT.json
tlapm SessionsProofs.tla                              # the proofs of a component
```
