------------------------------- MODULE Billing -------------------------------
(***************************************************************************)
(* Plans and coupons (internal/billing/service.go,                         *)
(* internal/repository/coupon.go, and the coupon half of                   *)
(* internal/handlers/admin.go).  ApplyCoupon reads the row of the coupon,  *)
(* decides, gives the family its plan and then counts the use, in three    *)
(* statements without a transaction; the error of the last one is dropped. *)
(*                                                                         *)
(* The dates of a subscription are written and shown but nothing decides   *)
(* by them, and its status is never anything but ACTIVE: neither is a      *)
(* variable.  A family never goes.                                         *)
(***************************************************************************)
EXTENDS Naturals, FiniteSets

CONSTANTS
  Families, Coupons,
  Procs,          \* slots for requests in flight
  NoFamily, NoCoupon,
  Unlimited,      \* max_uses IS NULL
  Maxima,         \* what an administrator gives as max_uses
  MaxRequests     \* bound of the model

ASSUME BillingAssumption ==
  /\ NoFamily \notin Families /\ NoCoupon \notin Coupons
  /\ Maxima \subseteq Nat /\ Unlimited \notin Nat
  /\ MaxRequests \in Nat
  /\ IsFiniteSet(Procs) /\ Procs # {}

VARIABLES
  plan,      \* families.plan
  coupon,    \* the table coupons
  apply,     \* ApplyCoupon in flight
  started,   \* requests that have come in
  granted,   \* history: plans given for each coupon
  lost,      \* history: increments of times_used that failed
  peak       \* history: the largest max_uses the coupon has had

billingVars == <<plan, coupon, apply, started, granted, lost, peak>>

Plans == {"FREE", "PRO", "LIFETIME_FREE"}
AllowedCouponPlans == {"PRO", "LIFETIME_FREE"}

\* GetPlanLimits: what a plan without limits is.
IsPro(pl) == pl \in {"PRO", "LIFETIME_FREE"}

Coupon == [exists : BOOLEAN, plan : Plans, active : BOOLEAN, expired : BOOLEAN,
           max : Nat \cup {Unlimited}, used : Nat]
NoRow == [exists |-> FALSE, plan |-> "PRO", active |-> FALSE, expired |-> FALSE,
          max |-> Unlimited, used |-> 0]

Applying == [at : {"idle", "grant", "count"}, family : Families \cup {NoFamily},
             coupon : Coupons \cup {NoCoupon}]
NotApplying == [at |-> "idle", family |-> NoFamily, coupon |-> NoCoupon]

BillingInit ==
  /\ plan \in [Families -> {"FREE", "LIFETIME_FREE"}]
  /\ coupon = [c \in Coupons |-> NoRow]
  /\ apply = [p \in Procs |-> NotApplying]
  /\ started = 0
  /\ granted = [c \in Coupons |-> 0] /\ lost = [c \in Coupons |-> 0]
  /\ peak = [c \in Coupons |-> 0]

ComesIn == started < MaxRequests /\ started' = started + 1

Higher(m, n) == IF Unlimited \in {m, n} THEN Unlimited ELSE IF m > n THEN m ELSE n

-----------------------------------------------------------------------------
(* The administration of coupons.                                          *)

\* Mutant of CreateCoupon: the plan is stored as it came.
CreateCouponAnyPlan(c, pl, n) ==
  /\ ComesIn
  /\ ~coupon[c].exists
  /\ coupon' = [coupon EXCEPT ![c] = [NoRow EXCEPT !.exists = TRUE, !.plan = pl,
                                                   !.active = TRUE, !.max = n]]
  /\ peak' = [peak EXCEPT ![c] = n]
  /\ UNCHANGED <<plan, apply, granted, lost>>

\* A coupon is active from the start, whatever the payload says; a code that is
\* taken fails on UNIQUE.
CreateCoupon(c, pl, n) ==
  /\ ComesIn
  /\ pl \in AllowedCouponPlans
  /\ ~coupon[c].exists
  /\ coupon' = [coupon EXCEPT ![c] = [NoRow EXCEPT !.exists = TRUE, !.plan = pl,
                                                   !.active = TRUE, !.max = n]]
  /\ peak' = [peak EXCEPT ![c] = n]
  /\ UNCHANGED <<plan, apply, granted, lost>>

\* UpdateCoupon: one UPDATE for active and one for the limits.  A request may
\* bring both; nothing carries over from the first to the second, and the
\* second may fail or be missing, so each is a request of its own.
UpdateActive(c, b) ==
  /\ ComesIn
  /\ coupon[c].exists
  /\ coupon' = [coupon EXCEPT ![c].active = b]
  /\ UNCHANGED <<plan, apply, granted, lost, peak>>

\* COALESCE: a limit can be changed, never taken away.  A date in the past
\* expires the coupon, one in the future revives it.
UpdateLimits(c, n, past) ==
  /\ ComesIn
  /\ coupon[c].exists
  /\ n # Unlimited \/ coupon[c].max = Unlimited
  /\ coupon' = [coupon EXCEPT ![c].max = n, ![c].expired = past]
  /\ peak' = [peak EXCEPT ![c] = Higher(@, n)]
  /\ UNCHANGED <<plan, apply, granted, lost>>

\* expires_at goes by.
Expire(c) ==
  /\ coupon[c].exists /\ ~coupon[c].expired
  /\ coupon' = [coupon EXCEPT ![c].expired = TRUE]
  /\ UNCHANGED <<plan, apply, started, granted, lost, peak>>

-----------------------------------------------------------------------------
(* ApplyCoupon.                                                            *)

\* Mutant of Usable: one use too many passes.
UsableOnceMore(row) ==
  /\ row.exists /\ row.active /\ ~row.expired
  /\ ~(row.max # Unlimited /\ row.used > row.max)

\* What the row must say when it is read.
Usable(row) ==
  /\ row.exists /\ row.active /\ ~row.expired
  /\ ~(row.max # Unlimited /\ row.used >= row.max)

\* FindByCode and the checks on what it has read.
FindByCode(p, f, c) ==
  /\ ComesIn
  /\ apply[p] = NotApplying
  /\ Usable(coupon[c])
  /\ apply' = [apply EXCEPT ![p] = [at |-> "grant", family |-> f, coupon |-> c]]
  /\ UNCHANGED <<plan, coupon, granted, lost, peak>>

\* UpdatePlan: whatever plan the family has is replaced.
GrantPlan(p) ==
  LET c == apply[p].coupon IN
  /\ apply[p].at = "grant"
  /\ plan' = [plan EXCEPT ![apply[p].family] = coupon[c].plan]
  /\ granted' = [granted EXCEPT ![c] = @ + 1]
  /\ apply' = [apply EXCEPT ![p].at = "count"]
  /\ UNCHANGED <<coupon, started, lost, peak>>

\* The UPDATE of the family fails: 400, and nothing has happened.
GrantFails(p) ==
  /\ apply[p].at = "grant"
  /\ apply' = [apply EXCEPT ![p] = NotApplying]
  /\ UNCHANGED <<plan, coupon, started, granted, lost, peak>>

\* times_used = times_used + 1, in the database.
IncrementUsage(p) ==
  LET c == apply[p].coupon IN
  /\ apply[p].at = "count"
  /\ coupon' = [coupon EXCEPT ![c].used = @ + 1]
  /\ apply' = [apply EXCEPT ![p] = NotApplying]
  /\ UNCHANGED <<plan, started, granted, lost, peak>>

\* The increment fails, and the answer is 200 all the same; or the server stops.
IncrementFails(p) ==
  LET c == apply[p].coupon IN
  /\ apply[p].at = "count"
  /\ lost' = [lost EXCEPT ![c] = @ + 1]
  /\ apply' = [apply EXCEPT ![p] = NotApplying]
  /\ UNCHANGED <<plan, coupon, started, granted, peak>>

-----------------------------------------------------------------------------
(* The two endpoints that stand for the payment provider.                  *)

SimulateUpgrade(f) ==
  /\ ComesIn
  /\ plan' = [plan EXCEPT ![f] = "PRO"]
  /\ UNCHANGED <<coupon, apply, granted, lost, peak>>

SimulateDowngrade(f) ==
  /\ ComesIn
  /\ plan' = [plan EXCEPT ![f] = "FREE"]
  /\ UNCHANGED <<coupon, apply, granted, lost, peak>>

BillingNext ==
  \/ \E c \in Coupons, pl \in Plans, n \in Maxima \cup {Unlimited} : CreateCoupon(c, pl, n)
  \/ \E c \in Coupons, b \in BOOLEAN : UpdateActive(c, b)
  \/ \E c \in Coupons, n \in Maxima \cup {Unlimited}, past \in BOOLEAN : UpdateLimits(c, n, past)
  \/ \E c \in Coupons : Expire(c)
  \/ \E p \in Procs, f \in Families, c \in Coupons : FindByCode(p, f, c)
  \/ \E p \in Procs : GrantPlan(p) \/ GrantFails(p) \/ IncrementUsage(p) \/ IncrementFails(p)
  \/ \E f \in Families : SimulateUpgrade(f) \/ SimulateDowngrade(f)

-----------------------------------------------------------------------------
(* Properties.                                                             *)

BillingTypeOK ==
  /\ plan \in [Families -> Plans]
  /\ coupon \in [Coupons -> Coupon]
  /\ apply \in [Procs -> Applying]
  /\ \A p \in Procs : apply[p].at # "idle" => apply[p].coupon \in Coupons
                                          /\ apply[p].family \in Families
  /\ started \in Nat
  /\ granted \in [Coupons -> Nat] /\ lost \in [Coupons -> Nat]
  /\ peak \in [Coupons -> Nat \cup {Unlimited}]

InFlight(c, stages) == {p \in Procs : apply[p].at \in stages /\ apply[p].coupon = c}

\* Every plan given for a coupon is counted in times_used, is about to be, or is
\* one whose increment failed: overlapping requests lose no use
\* (internal/repository/coupon.go:115-123).
GrantsCounted ==
  \A c \in Coupons :
    granted[c] = coupon[c].used + lost[c] + Cardinality(InFlight(c, {"count"}))

\* A coupon gives more plans than its largest max_uses only as far as requests
\* overlap or increments fail: by at most the requests in flight besides one,
\* and the increments that were lost (internal/billing/service.go:151-173).
OverspentByOverlap ==
  \A c \in Coupons : peak[c] # Unlimited =>
    granted[c] <= peak[c] + lost[c] + Cardinality(Procs) - 1

\* What makes it inductive: a request in flight takes the place of the use it is to
\* count, and no coupon that exists allows more than its largest max_uses.
UsesTaken ==
  \A c \in Coupons :
    /\ coupon[c].exists /\ peak[c] # Unlimited =>
         coupon[c].max # Unlimited /\ coupon[c].max <= peak[c]
    /\ peak[c] # Unlimited =>
         coupon[c].used + Cardinality(InFlight(c, {"grant", "count"}))
           <= peak[c] + Cardinality(Procs) - 1

\* Only plans that administrators may give are given, by coupons that exist.
CouponsAllowed ==
  /\ \A c \in Coupons : coupon[c].exists => coupon[c].plan \in AllowedCouponPlans
  /\ \A c \in Coupons : ~coupon[c].exists => coupon[c] = NoRow
  /\ \A p \in Procs : apply[p].at # "idle" => coupon[apply[p].coupon].exists

\* A family keeps what a plan without limits allows until it is downgraded: the
\* coupon that replaces LIFETIME_FREE by PRO takes away the name, not a limit
\* (internal/billing/service.go:157-169, internal/handlers/admin.go:381).
NoCouponLowersLimits ==
  [][\A f \in Families : IsPro(plan[f]) /\ ~IsPro(plan'[f]) => SimulateDowngrade(f)]_billingVars
=============================================================================
