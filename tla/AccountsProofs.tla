--------------------------- MODULE AccountsProofs ---------------------------
(***************************************************************************)
(* Proofs about Accounts and Billing, for any number of families, coupons, *)
(* accounts and requests, and any limits.                                  *)
(***************************************************************************)
EXTENDS Accounts, FiniteSetTheorems, TLAPS

\* A request that is no step of Billing leaves its variables, but may count as
\* one that has come in.
NoBilling == UNCHANGED <<plan, coupon, apply, granted, lost, peak>>

LEMMA NoRowOK == NoRow \in Coupon /\ NotApplying \in Applying
  BY BillingAssumption DEF NoRow, Coupon, Plans, NotApplying, Applying

LEMMA BillingTypes == BillingTypeOK /\ BillingNext => BillingTypeOK'
<1> SUFFICES ASSUME BillingTypeOK, BillingNext PROVE BillingTypeOK'
  OBVIOUS
<1> USE BillingAssumption
<1>0. Maxima \cup {Unlimited} \subseteq Nat \cup {Unlimited}
  OBVIOUS
<1>1. ASSUME ComesIn PROVE started' \in Nat
  BY <1>1 DEF ComesIn, BillingTypeOK
<1>2. ASSUME NEW c \in Coupons, NEW pl \in Plans, NEW n \in Maxima \cup {Unlimited},
             CreateCoupon(c, pl, n)
      PROVE  BillingTypeOK'
  <2> DEFINE row == [NoRow EXCEPT !.exists = TRUE, !.plan = pl, !.active = TRUE, !.max = n]
  <2>1. row \in Coupon
    BY <1>0 DEF NoRow, Coupon
  <2>2. coupon' = [coupon EXCEPT ![c] = row] /\ peak' = [peak EXCEPT ![c] = n]
    BY <1>2 DEF CreateCoupon
  <2> HIDE DEF row
  <2>3. coupon' \in [Coupons -> Coupon]
    BY <2>1, <2>2 DEF BillingTypeOK
  <2>4. peak' \in [Coupons -> Nat \cup {Unlimited}]
    BY <1>0, <2>2 DEF BillingTypeOK
  <2>5. UNCHANGED <<plan, apply, granted, lost>> /\ started' \in Nat
    BY <1>1, <1>2 DEF CreateCoupon
  <2>6. QED
    BY <2>3, <2>4, <2>5 DEF BillingTypeOK
<1>3. ASSUME NEW c \in Coupons, NEW b \in BOOLEAN, UpdateActive(c, b)
      PROVE  BillingTypeOK'
  BY <1>1, <1>3 DEF UpdateActive, BillingTypeOK, Coupon
<1>4. ASSUME NEW c \in Coupons, NEW n \in Maxima \cup {Unlimited}, NEW past \in BOOLEAN,
             UpdateLimits(c, n, past)
      PROVE  BillingTypeOK'
  <2> DEFINE row == [coupon[c] EXCEPT !.max = n, !.expired = past]
  <2>a. row \in Coupon
    <3>1. coupon[c] \in Coupon /\ n \in Nat \cup {Unlimited} /\ past \in BOOLEAN
      BY <1>0 DEF BillingTypeOK
    <3>2. [coupon[c] EXCEPT !.max = n] \in Coupon
      BY ONLY <3>1 DEF Coupon
    <3>3. [[coupon[c] EXCEPT !.max = n] EXCEPT !.expired = past] \in Coupon
      BY <3>1, <3>2 DEF Coupon
    <3>4. row = [[coupon[c] EXCEPT !.max = n] EXCEPT !.expired = past]
      OBVIOUS
    <3>5. QED
      BY <3>3, <3>4
  <2>b. coupon' = [coupon EXCEPT ![c] = row]
    BY <1>4 DEF UpdateLimits
  <2> HIDE DEF row
  <2>1. coupon' \in [Coupons -> Coupon]
    BY <2>a, <2>b DEF BillingTypeOK
  <2>2. Higher(peak[c], n) \in Nat \cup {Unlimited}
    BY <1>0 DEF Higher, BillingTypeOK
  <2>3. QED
    BY <1>1, <1>4, <2>1, <2>2 DEF UpdateLimits, BillingTypeOK
<1>5. ASSUME NEW c \in Coupons, Expire(c)
      PROVE  BillingTypeOK'
  BY <1>5 DEF Expire, BillingTypeOK, Coupon
<1>6. ASSUME NEW p \in Procs, NEW f \in Families, NEW c \in Coupons, FindByCode(p, f, c)
      PROVE  BillingTypeOK'
  BY <1>1, <1>6 DEF FindByCode, BillingTypeOK, Applying
<1>7. ASSUME NEW p \in Procs, GrantPlan(p)
      PROVE  BillingTypeOK'
  <2>1. apply[p].coupon \in Coupons /\ apply[p].family \in Families
        /\ coupon[apply[p].coupon].plan \in Plans
    BY <1>7 DEF GrantPlan, BillingTypeOK, Coupon
  <2>2. plan' \in [Families -> Plans]
    BY <1>7, <2>1 DEF GrantPlan, BillingTypeOK
  <2>3. granted' \in [Coupons -> Nat]
    BY <1>7, <2>1 DEF GrantPlan, BillingTypeOK
  <2>4. apply' = [apply EXCEPT ![p].at = "count"]
    BY <1>7 DEF GrantPlan
  <2>5. apply' \in [Procs -> Applying]
    BY <2>4 DEF BillingTypeOK, Applying
  <2>6. \A q \in Procs : apply'[q].coupon = apply[q].coupon /\ apply'[q].family = apply[q].family
                         /\ (q # p => apply'[q].at = apply[q].at)
    BY <2>4 DEF BillingTypeOK, Applying
  <2>7. apply[p].at # "idle"
    BY <1>7 DEF GrantPlan
  <2>8. UNCHANGED <<coupon, started, lost, peak>>
    BY <1>7 DEF GrantPlan
  <2>9. QED
    BY <2>2, <2>3, <2>5, <2>6, <2>7, <2>8 DEF BillingTypeOK
<1>8. ASSUME NEW p \in Procs, GrantFails(p)
      PROVE  BillingTypeOK'
  BY <1>8, NoRowOK DEF GrantFails, BillingTypeOK, NotApplying
<1>9. ASSUME NEW p \in Procs, IncrementUsage(p)
      PROVE  BillingTypeOK'
  <2> DEFINE c == apply[p].coupon
             row == [coupon[c] EXCEPT !.used = @ + 1]
  <2>1. c \in Coupons
    BY <1>9 DEF IncrementUsage, BillingTypeOK
  <2>2. row \in Coupon
    BY <2>1 DEF BillingTypeOK, Coupon
  <2>3. coupon' = [coupon EXCEPT ![c] = row]
    BY <1>9 DEF IncrementUsage
  <2> HIDE DEF row
  <2>4. coupon' \in [Coupons -> Coupon]
    BY <2>1, <2>2, <2>3 DEF BillingTypeOK
  <2>5. QED
    BY <1>9, <2>4, NoRowOK DEF IncrementUsage, BillingTypeOK, NotApplying
<1>10. ASSUME NEW p \in Procs, IncrementFails(p)
       PROVE  BillingTypeOK'
  <2>1. apply[p].coupon \in Coupons
    BY <1>10 DEF IncrementFails, BillingTypeOK
  <2>2. QED
    BY <1>10, <2>1, NoRowOK DEF IncrementFails, BillingTypeOK, NotApplying
<1>11. ASSUME NEW f \in Families, SimulateUpgrade(f) \/ SimulateDowngrade(f)
       PROVE  BillingTypeOK'
  BY <1>1, <1>11 DEF SimulateUpgrade, SimulateDowngrade, BillingTypeOK, Plans
<1>12. QED
  BY <1>2, <1>3, <1>4, <1>5, <1>6, <1>7, <1>8, <1>9, <1>10, <1>11 DEF BillingNext

LEMMA BillingStays ==
  ASSUME BillingTypeOK, NoBilling, started' = started \/ ComesIn
  PROVE  BillingTypeOK'
<1>1. started' \in Nat
  BY DEF ComesIn, BillingTypeOK
<1>2. QED
  BY <1>1 DEF NoBilling, BillingTypeOK

-----------------------------------------------------------------------------
(* Types of Accounts.                                                      *)

ReqOK == req \in [Procs -> Request]
         /\ \A p \in Procs : WellFormed(req[p]) /\ (req[p] = Idle \/ apply[p] = NotApplying)
AccountOK == account \in [Accounts -> Account] /\ gone \subseteq Users
             /\ \A a \in Accounts : /\ account[a].allowed \cap gone = {}
                                    /\ ~account[a].exists => account[a] = Nothing
HistoryOK == want \in [Accounts -> SUBSET Users] /\ mixed \in [Accounts -> BOOLEAN]
             /\ paid \subseteq Families

TypeInv == BillingTypeOK /\ ReqOK /\ AccountOK /\ HistoryOK

LEMMA TypeInvIsTypeOK == TypeInv <=> TypeOK /\ \A p \in Procs : WellFormed(req[p])
  BY DEF TypeInv, TypeOK, ReqOK, AccountOK, HistoryOK

LEMMA IdleOK == Idle \in Request /\ WellFormed(Idle) /\ Nothing \in Account
  BY DEF Idle, Request, WellFormed, Nothing, Account

\* A request that is under way has its slot for itself.
LEMMA OwnSlot ==
  ASSUME ReqOK, NEW p \in Procs, req[p].at # "idle"
  PROVE  apply[p] = NotApplying /\ req[p].user \in Users
  BY DEF ReqOK, Idle, WellFormed, Request

\* The request of one slot changes.
LEMMA OneSlot ==
  ASSUME ReqOK, NEW p \in Procs, NEW r \in Request, WellFormed(r),
         req' = [req EXCEPT ![p] = r], apply' = apply,
         r = Idle \/ apply[p] = NotApplying
  PROVE  ReqOK'
  BY DEF ReqOK, WellFormed

LEMMA FinishOK ==
  ASSUME ReqOK, NEW p \in Procs, Finish(p), apply' = apply
  PROVE  ReqOK'
  BY IdleOK, OneSlot DEF Finish

LEMMA StillAlone ==
  ASSUME NEW r \in Request, r.alone = TRUE
  PROVE  [r EXCEPT !.alone = TRUE] = r
  BY DEF Request

LEMMA NothingAsItIs ==
  /\ [Nothing EXCEPT !.allowed = {}] = Nothing /\ [Nothing EXCEPT !.by = NoUser] = Nothing
<1>1. \A r \in Account : (r.allowed = {} => [r EXCEPT !.allowed = {}] = r)
                        /\ (r.by = NoUser => [r EXCEPT !.by = NoUser] = r)
  BY DEF Account
<1>2. Nothing.allowed = {} /\ Nothing.by = NoUser
  BY DEF Nothing
<1>3. QED
  BY <1>1, <1>2, IdleOK

\* Besides the request that wrote, others only learn that they are not alone.
LEMMA WroteOK ==
  ASSUME ReqOK, NEW p \in Procs, NEW a \in Accounts, NEW r \in Request, WellFormed(r),
         Wrote(p, a, r), apply' = apply, r = Idle \/ apply[p] = NotApplying
  PROVE  ReqOK'
<1>1. ASSUME NEW q \in Procs, q # p
      PROVE  /\ req'[q] \in Request /\ WellFormed(req'[q])
             /\ req[q] = Idle => req'[q] = Idle
  <2> DEFINE alone == req[q].alone /\ req[q].account # a
  <2>1. req'[q] = [req[q] EXCEPT !.alone = alone]
    BY <1>1 DEF Wrote
  <2>2. req[q] \in Request /\ WellFormed(req[q]) /\ alone \in BOOLEAN
    BY DEF ReqOK, Request
  <2>3. req[q] = Idle => alone = TRUE
    BY AccountsAssumption DEF Idle
  <2> HIDE DEF alone
  <2>4. req'[q] \in Request
    BY <2>1, <2>2 DEF Request
  <2>5. WellFormed(req'[q])
    BY <2>1, <2>2 DEF Request, WellFormed
  <2>6. req[q] = Idle => req'[q] = Idle
    <3>1. Idle.alone = TRUE
      BY DEF Idle
    <3>2. [Idle EXCEPT !.alone = TRUE] = Idle
      BY <3>1, IdleOK, StillAlone
    <3>3. QED
      BY <2>1, <2>3, <3>2
  <2>7. QED
    BY <2>4, <2>5, <2>6
<1>2. req'[p] = r
  BY DEF Wrote
<1>3. req' \in [Procs -> Request]
  BY <1>1, <1>2 DEF Wrote
<1>4. QED
  BY <1>1, <1>2, <1>3 DEF ReqOK

\* Every statement of a request keeps the types.
LEMMA TypeStep == TypeInv /\ Next => TypeInv'
<1> SUFFICES ASSUME TypeInv, Next PROVE TypeInv'
  OBVIOUS
<1> USE AccountsAssumption
<1>1. BillingTypeOK /\ ReqOK /\ AccountOK /\ HistoryOK
  BY DEF TypeInv
<1>2. CASE BillingStep
  <2>1. BillingTypeOK'
    BY <1>1, <1>2, BillingTypes DEF BillingStep
  <2>2. ReqOK'
    BY <1>1, <1>2 DEF BillingStep, ReqOK
  <2>3. AccountOK' /\ HistoryOK'
    BY <1>1, <1>2 DEF BillingStep, AccountOK, HistoryOK
  <2>4. QED
    BY <2>1, <2>2, <2>3 DEF TypeInv
<1>3. ASSUME NEW p \in Procs, NEW u \in Users, NEW f \in Families, NEW L \in SUBSET Users,
             CheckPlan(p, u, f, L)
      PROVE  TypeInv'
  <2> DEFINE stage == IF IsPro(plan[f]) THEN "insert" ELSE "count"
             r == [Idle EXCEPT !.at = stage, !.user = u, !.family = f, !.list = L, !.asks = TRUE]
  <2>1. stage \in {"insert", "count"}
    OBVIOUS
  <2>3. req' = [req EXCEPT ![p] = r] /\ apply[p] = NotApplying /\ NoBilling /\ ComesIn
        /\ UNCHANGED <<account, gone, want, mixed, paid>>
    BY <1>3 DEF CheckPlan, NoBilling
  <2> HIDE DEF stage
  <2>4. r \in Request /\ WellFormed(r)
    BY <2>1 DEF Idle, Request, WellFormed
  <2> HIDE DEF r
  <2>5. ReqOK' /\ BillingTypeOK'
    BY <1>1, <2>3, <2>4, OneSlot, BillingStays DEF NoBilling
  <2>6. QED
    BY <1>1, <2>3, <2>5 DEF TypeInv, AccountOK, HistoryOK
<1>4. ASSUME NEW p \in Procs, CountAccounts(p)
      PROVE  TypeInv'
  <2> DEFINE r == [req[p] EXCEPT !.at = "insert"]
  <2>1. r \in Request /\ WellFormed(r)
    BY <1>1, <1>4 DEF CountAccounts, ReqOK, Request, WellFormed
  <2>2. apply[p] = NotApplying /\ NoBilling /\ started' = started
        /\ UNCHANGED <<account, gone, want, mixed, paid>>
    BY <1>1, <1>4, OwnSlot DEF CountAccounts, NoBilling, billingVars
  <2>3. Finish(p) \/ req' = [req EXCEPT ![p] = r]
    BY <1>4 DEF CountAccounts
  <2> HIDE DEF r
  <2>4. ReqOK' /\ BillingTypeOK'
    BY <1>1, <2>1, <2>2, <2>3, OneSlot, FinishOK, BillingStays DEF NoBilling
  <2>5. QED
    BY <1>1, <2>2, <2>4 DEF TypeInv, AccountOK, HistoryOK
<1>5. ASSUME NEW p \in Procs, NEW a \in Accounts, InsertAccount(p, a)
      PROVE  TypeInv'
  <2> DEFINE row == [exists |-> TRUE, family |-> req[p].family, by |-> req[p].user,
                     allowed |-> {}]
             r == IF req[p].list = {} THEN Idle
                  ELSE [req[p] EXCEPT !.at = "list", !.account = a]
  <2>1. req[p] \in Request /\ req[p].user \in Users /\ WellFormed(req[p])
    BY <1>1, <1>5, OwnSlot DEF InsertAccount, ReqOK
  <2>2. apply[p] = NotApplying /\ NoBilling /\ started' = started /\ UNCHANGED <<gone, paid>>
    BY <1>1, <1>5, OwnSlot DEF InsertAccount, NoBilling, billingVars
  <2>3. row \in Account
    BY <2>1 DEF Account, Request
  <2>4. r \in Request /\ WellFormed(r)
    BY <2>1, IdleOK DEF Request, WellFormed
  <2>5. CASE req[p].user \in gone
    BY <1>1, <1>5, <2>2, <2>5, FinishOK, BillingStays
    DEF InsertAccount, NoBilling, TypeInv, AccountOK, HistoryOK
  <2>6. CASE req[p].user \notin gone
    <3>1. /\ account' = [account EXCEPT ![a] = row] /\ want' = [want EXCEPT ![a] = req[p].list]
          /\ mixed' = [mixed EXCEPT ![a] = FALSE] /\ Wrote(p, a, r)
      BY <1>5, <2>6 DEF InsertAccount
    <3>2. AccountOK'
      BY <1>1, <2>2, <2>3, <3>1 DEF AccountOK
    <3>3. HistoryOK'
      BY <1>1, <2>1, <2>2, <3>1 DEF HistoryOK, Request
    <3> HIDE DEF r
    <3>4. ReqOK' /\ BillingTypeOK'
      BY <1>1, <2>2, <2>4, <3>1, WroteOK, BillingStays DEF NoBilling
    <3>5. QED
      BY <3>2, <3>3, <3>4 DEF TypeInv
  <2>7. QED
    BY <2>5, <2>6
<1>6. ASSUME NEW p \in Procs, NEW u \in Users, NEW a \in Accounts, FindRow(p, u, a)
      PROVE  TypeInv'
  <2> DEFINE free == Writing(a) = {}
             r == [Idle EXCEPT !.at = "read", !.user = u, !.family = account[a].family,
                               !.account = a, !.alone = free]
  <2>1. free \in BOOLEAN /\ account[a].family \in Families \cup {NoFamily}
    BY <1>1 DEF AccountOK, Account
  <2>2. req' = [req EXCEPT ![p] = r] /\ apply[p] = NotApplying /\ NoBilling /\ ComesIn
        /\ UNCHANGED <<account, gone, want, mixed, paid>>
    BY <1>6 DEF FindRow, NoBilling
  <2> HIDE DEF free
  <2>3. r \in Request /\ WellFormed(r)
    BY <2>1 DEF Idle, Request, WellFormed
  <2> HIDE DEF r
  <2>4. ReqOK' /\ BillingTypeOK'
    BY <1>1, <2>2, <2>3, OneSlot, BillingStays DEF NoBilling
  <2>5. QED
    BY <1>1, <2>2, <2>4 DEF TypeInv, AccountOK, HistoryOK
<1>7. ASSUME NEW p \in Procs, req[p].at = "read", NEW read, NEW N \in SUBSET Users,
             NEW asks \in BOOLEAN, NEW alone \in BOOLEAN, Decide(p, read, N, asks, alone)
      PROVE  TypeInv'
  <2> DEFINE r == [req[p] EXCEPT !.at = "write", !.list = N, !.asks = asks, !.alone = alone]
  <2>1. req[p] \in Request /\ WellFormed(req[p])
    BY <1>1 DEF ReqOK
  <2>2. apply[p] = NotApplying /\ NoBilling /\ started' = started
        /\ UNCHANGED <<account, gone, want, mixed, paid>>
    BY <1>1, <1>7, OwnSlot DEF Decide, NoBilling, billingVars
  <2>3. Finish(p) \/ req' = [req EXCEPT ![p] = r]
    BY <1>7 DEF Decide
  <2>4. r \in Request /\ r.at = "write" /\ r.user = req[p].user /\ r.account = req[p].account
    <3> DEFINE r1 == [req[p] EXCEPT !.at = "write"]
               r2 == [r1 EXCEPT !.list = N]
               r3 == [r2 EXCEPT !.asks = asks]
               r4 == [r3 EXCEPT !.alone = alone]
    <3>1. r1 \in Request /\ r1.at = "write" /\ r1.user = req[p].user
          /\ r1.account = req[p].account
      BY <2>1 DEF Request
    <3> HIDE DEF r1
    <3>2. r2 \in Request /\ r2.at = "write" /\ r2.user = req[p].user
          /\ r2.account = req[p].account
      BY <3>1 DEF Request
    <3> HIDE DEF r2
    <3>3. r3 \in Request /\ r3.at = "write" /\ r3.user = req[p].user
          /\ r3.account = req[p].account
      BY <3>2 DEF Request
    <3> HIDE DEF r3
    <3>4. r4 \in Request /\ r4.at = "write" /\ r4.user = req[p].user
          /\ r4.account = req[p].account
      BY <3>3 DEF Request
    <3>5. r = r4
      BY DEF r1, r2, r3
    <3>6. QED
      BY <3>4, <3>5
  <2> HIDE DEF r
  <2>5. WellFormed(r)
    BY <1>7, <2>1, <2>4 DEF WellFormed
  <2>6. ReqOK' /\ BillingTypeOK'
    BY <1>1, <2>2, <2>3, <2>4, <2>5, OneSlot, FinishOK, BillingStays DEF NoBilling
  <2>7. QED
    BY <1>1, <2>2, <2>6 DEF TypeInv, AccountOK, HistoryOK
<1>8. ASSUME NEW p \in Procs,
             \/ Rename(p) \/ (\E read \in SUBSET Users : RenameBlind(p, read))
             \/ \E L \in SUBSET Users, read \in SUBSET Users : ChangeList(p, L, read)
      PROVE  TypeInv'
  <2>1. req[p].at = "read"
    BY <1>8 DEF Rename, RenameBlind, ChangeList
  <2>2. account[req[p].account].allowed \in SUBSET Users /\ req[p].alone \in BOOLEAN
    BY <1>1, <2>1 DEF ReqOK, WellFormed, Request, AccountOK, Account
  <2>3. CASE Rename(p)
    BY <1>7, <2>1, <2>2, <2>3 DEF Rename
  <2>4. CASE \E read \in SUBSET Users : RenameBlind(p, read)
    BY <1>7, <2>1, <2>4 DEF RenameBlind
  <2>5. CASE \E L \in SUBSET Users, read \in SUBSET Users : ChangeList(p, L, read)
    BY <1>7, <2>1, <2>2, <2>5 DEF ChangeList
  <2>6. QED
    BY <1>8, <2>3, <2>4, <2>5
<1>9. ASSUME NEW p \in Procs, ClearList(p)
      PROVE  TypeInv'
  <2> DEFINE a == req[p].account
             r == IF req[p].list = {} THEN Idle ELSE [req[p] EXCEPT !.at = "list"]
  <2>1. req[p] \in Request /\ WellFormed(req[p]) /\ a \in Accounts
    BY <1>1, <1>9 DEF ClearList, ReqOK, WellFormed
  <2>2. apply[p] = NotApplying /\ NoBilling /\ started' = started /\ UNCHANGED <<gone, paid>>
    BY <1>1, <1>9, OwnSlot DEF ClearList, NoBilling, billingVars
  <2>3. r \in Request /\ WellFormed(r)
    BY <1>9, <2>1, IdleOK DEF ClearList, Request, WellFormed
  <2>4. account' = [account EXCEPT ![a].allowed = {}] /\ Asked(p, a) /\ Wrote(p, a, r)
    BY <1>9 DEF ClearList, Done
  <2>5. mixed' \in [Accounts -> BOOLEAN]
    BY <1>1, <1>9, <2>1 DEF ClearList, Done, HistoryOK, Request
  <2>6. want' \in [Accounts -> SUBSET Users]
    BY <1>1, <2>1, <2>4 DEF Asked, HistoryOK, Request
  <2>7. AccountOK'
    <3>1. ~account[a].exists => [account[a] EXCEPT !.allowed = {}] = Nothing
      BY <1>1, <2>1, NothingAsItIs DEF AccountOK
    <3>2. [account[a] EXCEPT !.allowed = {}] \in Account
      BY <1>1, <2>1 DEF AccountOK, Account
    <3>3. account' = [account EXCEPT ![a] = [account[a] EXCEPT !.allowed = {}]]
      BY <2>4
    <3>4. [account[a] EXCEPT !.allowed = {}].allowed = {}
          /\ [account[a] EXCEPT !.allowed = {}].exists = account[a].exists
      BY <1>1, <2>1 DEF AccountOK, Account
    <3>5. QED
      BY <1>1, <2>1, <2>2, <3>1, <3>2, <3>3, <3>4 DEF AccountOK
  <2> HIDE DEF r
  <2>8. ReqOK' /\ BillingTypeOK'
    BY <1>1, <2>1, <2>2, <2>3, <2>4, WroteOK, BillingStays DEF NoBilling
  <2>9. QED
    BY <1>1, <2>2, <2>5, <2>6, <2>7, <2>8 DEF TypeInv, HistoryOK
<1>10. ASSUME NEW p \in Procs, NEW u \in Users, InsertAllowed(p, u)
       PROVE  TypeInv'
  <2> DEFINE a == req[p].account
             left == req[p].list \ {u}
             r == IF left = {} THEN Idle ELSE [req[p] EXCEPT !.list = left]
             row == [account[a] EXCEPT !.allowed = @ \cup {u}]
  <2>1. req[p] \in Request /\ WellFormed(req[p]) /\ a \in Accounts
    BY <1>1, <1>10 DEF InsertAllowed, ReqOK, WellFormed
  <2>2. apply[p] = NotApplying /\ NoBilling /\ started' = started
        /\ UNCHANGED <<gone, want, paid>>
    BY <1>1, <1>10, OwnSlot DEF InsertAllowed, NoBilling, billingVars
  <2>3. r \in Request /\ WellFormed(r)
    BY <1>10, <2>1, IdleOK DEF InsertAllowed, Request, WellFormed
  <2>4. mixed' \in [Accounts -> BOOLEAN]
    BY <1>1, <1>10, <2>1 DEF InsertAllowed, Done, HistoryOK, Request
  <2>5. CASE ~account[a].exists \/ u \in gone \/ u \in account[a].allowed
    BY <1>1, <1>10, <2>2, <2>4, <2>5, FinishOK, BillingStays
    DEF InsertAllowed, NoBilling, TypeInv, AccountOK, HistoryOK
  <2>6. CASE ~(~account[a].exists \/ u \in gone \/ u \in account[a].allowed)
    <3>1. account' = [account EXCEPT ![a] = row] /\ Wrote(p, a, r)
      BY <1>10, <2>6 DEF InsertAllowed, Done
    <3>2. row \in Account /\ row.exists = account[a].exists
          /\ row.allowed = account[a].allowed \cup {u}
      BY <1>1, <2>1 DEF AccountOK, Account
    <3> HIDE DEF r, row
    <3>3. AccountOK'
      BY <1>1, <2>1, <2>2, <2>6, <3>1, <3>2 DEF AccountOK
    <3>4. ReqOK' /\ BillingTypeOK'
      BY <1>1, <2>1, <2>2, <2>3, <3>1, WroteOK, BillingStays DEF NoBilling
    <3>5. QED
      BY <1>1, <2>2, <2>4, <3>3, <3>4 DEF TypeInv, HistoryOK
  <2>7. QED
    BY <2>5, <2>6
<1>11. ASSUME NEW p \in Procs, Fail(p)
       PROVE  TypeInv'
  <2>1. NoBilling /\ started' = started /\ UNCHANGED <<account, gone, want, paid>> /\ Finish(p)
    BY <1>11 DEF Fail, NoBilling, billingVars
  <2>2. mixed' \in [Accounts -> BOOLEAN]
    BY <1>1, <1>11 DEF Fail, HistoryOK
  <2>3. QED
    BY <1>1, <2>1, <2>2, FinishOK, BillingStays DEF NoBilling, TypeInv, AccountOK, HistoryOK
<1>12. ASSUME NEW u \in Users, NEW a \in Accounts, Delete(u, a)
       PROVE  TypeInv'
  <2>1. NoBilling /\ ComesIn /\ UNCHANGED <<gone, req, want, mixed, paid>>
        /\ account' = [account EXCEPT ![a] = Nothing]
    BY <1>12 DEF Delete, NoBilling
  <2>2. AccountOK'
    BY <1>1, <2>1, IdleOK DEF AccountOK, Nothing
  <2>3. BillingTypeOK'
    BY <1>1, <2>1, BillingStays
  <2>4. QED
    BY <1>1, <2>1, <2>2, <2>3 DEF NoBilling, TypeInv, ReqOK, HistoryOK
<1>13. ASSUME NEW u \in Users, NEW v \in Users, EraseUser(u, v)
       PROVE  TypeInv'
  <2>1. NoBilling /\ ComesIn /\ UNCHANGED <<req, want, mixed, paid>> /\ gone' = gone \cup {u}
    BY <1>13 DEF EraseUser, NoBilling
  <2>2. ASSUME NEW a \in Accounts
        PROVE  /\ account'[a] \in Account /\ account'[a].exists = account[a].exists
               /\ account'[a].allowed = account[a].allowed \ {u}
               /\ account[a] = Nothing => account'[a] = Nothing
    <3> DEFINE r1 == [account[a] EXCEPT !.allowed = @ \ {u}]
               by == IF r1.by = u THEN v ELSE r1.by
               r2 == [r1 EXCEPT !.by = by]
    <3>1. r1 \in Account /\ r1.exists = account[a].exists /\ r1.by = account[a].by
          /\ r1.allowed = account[a].allowed \ {u}
      BY <1>1 DEF AccountOK, Account
    <3>2. account'[a] = r2
      BY <1>13 DEF EraseUser
    <3>3. account[a] = Nothing => r1 = Nothing
      <4>1. Nothing.allowed \ {u} = {}
        BY DEF Nothing
      <4>2. QED
        BY <4>1, NothingAsItIs
    <3>4. by \in Users \cup {NoUser}
      BY <3>1 DEF Account
    <3>5. r1 = Nothing => by = NoUser
      BY DEF Nothing
    <3> HIDE DEF r1, by
    <3>6. r2 \in Account /\ r2.exists = r1.exists /\ r2.allowed = r1.allowed
      BY <3>1, <3>4 DEF Account
    <3>7. r1 = Nothing => r2 = Nothing
      BY <3>5, NothingAsItIs
    <3>8. QED
      BY <3>1, <3>2, <3>3, <3>6, <3>7
  <2>3. AccountOK'
    <3>1. account' \in [Accounts -> Account]
      BY <1>13, <2>2 DEF EraseUser
    <3>2. QED
      BY <1>1, <2>1, <2>2, <3>1 DEF AccountOK
  <2>4. BillingTypeOK'
    BY <1>1, <2>1, BillingStays
  <2>5. QED
    BY <1>1, <2>1, <2>3, <2>4 DEF NoBilling, TypeInv, ReqOK, HistoryOK
<1>14. QED
  BY <1>2, <1>3, <1>4, <1>5, <1>6, <1>8, <1>9, <1>10, <1>11, <1>12, <1>13 DEF Next

LEMMA TypeStays == TypeInv /\ UNCHANGED vars => TypeInv'
  BY DEF TypeInv, vars, billingVars, BillingTypeOK, ReqOK, AccountOK, HistoryOK

LEMMA TypeInit == Init => TypeInv
<1> SUFFICES ASSUME Init PROVE TypeInv
  OBVIOUS
<1>1. BillingTypeOK
  BY NoRowOK DEF Init, BillingInit, BillingTypeOK, Plans, NotApplying
<1>2. ReqOK /\ AccountOK /\ HistoryOK
  BY IdleOK DEF Init, ReqOK, AccountOK, HistoryOK, Nothing
<1>3. QED
  BY <1>1, <1>2 DEF TypeInv

\* TypeOK holds of every reachable state: the slots serve one request, and lists
\* hold users that exist, of accounts that exist.
THEOREM TypeCorrect == Spec => []TypeOK
<1>1. Spec => []TypeInv
  BY TypeInit, TypeStep, TypeStays, PTL DEF Spec
<1>2. TypeInv => TypeOK
  BY TypeInvIsTypeOK
<1>3. QED
  BY <1>1, <1>2, PTL

-----------------------------------------------------------------------------
(* Coupons.                                                                *)

\* What the coupons need of the types.
CouponInv == BillingTypeOK /\ CouponsAllowed

LEMMA CouponsAllowedInit == BillingInit => CouponsAllowed
  BY DEF BillingInit, CouponsAllowed, NoRow, NotApplying

LEMMA CouponsAllowedStep == CouponInv /\ BillingNext => CouponsAllowed'
<1> SUFFICES ASSUME CouponInv, BillingNext PROVE CouponsAllowed'
  OBVIOUS
<1>1. BillingTypeOK /\ CouponsAllowed
  BY DEF CouponInv
<1>2. ASSUME NEW c \in Coupons, NEW pl \in Plans, NEW n \in Maxima \cup {Unlimited},
             CreateCoupon(c, pl, n)
      PROVE  CouponsAllowed'
  <2> DEFINE row == [NoRow EXCEPT !.exists = TRUE, !.plan = pl, !.active = TRUE, !.max = n]
  <2>1. row.exists /\ row.plan \in AllowedCouponPlans
    BY <1>2 DEF CreateCoupon, NoRow
  <2>2. coupon' = [coupon EXCEPT ![c] = row] /\ apply' = apply
    BY <1>2 DEF CreateCoupon
  <2> HIDE DEF row
  <2>3. QED
    BY <1>1, <2>1, <2>2 DEF CouponsAllowed, BillingTypeOK
<1>3. ASSUME NEW c \in Coupons, coupon[c].exists, NEW row \in Coupon,
             row.exists /\ row.plan = coupon[c].plan,
             coupon' = [coupon EXCEPT ![c] = row],
             apply' = apply \/ \E p \in Procs : apply' = [apply EXCEPT ![p] = NotApplying]
      PROVE  CouponsAllowed'
  <2>1. \A d \in Coupons : /\ coupon'[d].exists = coupon[d].exists
                           /\ coupon'[d].plan = coupon[d].plan
                           /\ ~coupon[d].exists => coupon'[d] = coupon[d]
    BY <1>1, <1>3 DEF BillingTypeOK
  <2>2. \A p \in Procs : apply'[p].at # "idle" => apply'[p] = apply[p]
    BY <1>1, <1>3 DEF BillingTypeOK, NotApplying
  <2>3. QED
    BY <1>1, <2>1, <2>2 DEF CouponsAllowed, BillingTypeOK
<1>4. ASSUME NEW c \in Coupons, NEW b \in BOOLEAN, UpdateActive(c, b)
      PROVE  CouponsAllowed'
  <2> DEFINE row == [coupon[c] EXCEPT !.active = b]
  <2>1. row \in Coupon /\ row.exists = coupon[c].exists /\ row.plan = coupon[c].plan
    BY <1>1 DEF BillingTypeOK, Coupon
  <2>2. coupon[c].exists /\ coupon' = [coupon EXCEPT ![c] = row] /\ apply' = apply
    BY <1>4 DEF UpdateActive
  <2> HIDE DEF row
  <2>3. QED
    BY <1>3, <2>1, <2>2
<1>5. ASSUME NEW c \in Coupons, NEW n \in Maxima \cup {Unlimited}, NEW past \in BOOLEAN,
             UpdateLimits(c, n, past)
      PROVE  CouponsAllowed'
  <2> DEFINE row1 == [coupon[c] EXCEPT !.max = n]
             row == [row1 EXCEPT !.expired = past]
  <2>1. row1 \in Coupon /\ row1.exists = coupon[c].exists /\ row1.plan = coupon[c].plan
    BY <1>1, BillingAssumption DEF BillingTypeOK, Coupon
  <2>2. coupon[c].exists /\ coupon' = [coupon EXCEPT ![c] = row] /\ apply' = apply
    BY <1>5 DEF UpdateLimits
  <2> HIDE DEF row1
  <2>3. row \in Coupon /\ row.exists = coupon[c].exists /\ row.plan = coupon[c].plan
    BY <2>1 DEF Coupon
  <2> HIDE DEF row
  <2>4. QED
    BY <1>3, <2>2, <2>3
<1>6. ASSUME NEW c \in Coupons, Expire(c)
      PROVE  CouponsAllowed'
  <2> DEFINE row == [coupon[c] EXCEPT !.expired = TRUE]
  <2>1. row \in Coupon /\ row.exists = coupon[c].exists /\ row.plan = coupon[c].plan
    BY <1>1 DEF BillingTypeOK, Coupon
  <2>2. coupon[c].exists /\ coupon' = [coupon EXCEPT ![c] = row] /\ apply' = apply
    BY <1>6 DEF Expire
  <2> HIDE DEF row
  <2>3. QED
    BY <1>3, <2>1, <2>2
<1>7. ASSUME NEW p \in Procs, NEW f \in Families, NEW c \in Coupons, FindByCode(p, f, c)
      PROVE  CouponsAllowed'
  BY <1>1, <1>7 DEF FindByCode, Usable, CouponsAllowed, BillingTypeOK
<1>8. ASSUME NEW p \in Procs, GrantPlan(p) \/ GrantFails(p) \/ IncrementFails(p)
      PROVE  CouponsAllowed'
  <2>1. coupon' = coupon
    BY <1>8 DEF GrantPlan, GrantFails, IncrementFails
  <2>2. \A q \in Procs : apply'[q].at # "idle" =>
          apply[q].at # "idle" /\ apply'[q].coupon = apply[q].coupon
    BY <1>1, <1>8 DEF GrantPlan, GrantFails, IncrementFails, BillingTypeOK, Applying, NotApplying
  <2>3. QED
    BY <1>1, <2>1, <2>2 DEF CouponsAllowed
<1>9. ASSUME NEW p \in Procs, IncrementUsage(p)
      PROVE  CouponsAllowed'
  <2> DEFINE c == apply[p].coupon
             row == [coupon[c] EXCEPT !.used = @ + 1]
  <2>1. c \in Coupons /\ coupon[c].exists
    BY <1>1, <1>9 DEF IncrementUsage, BillingTypeOK, CouponsAllowed
  <2>2. row \in Coupon
    BY <1>1, <2>1 DEF BillingTypeOK, Coupon
  <2>3. row.exists = coupon[c].exists /\ row.plan = coupon[c].plan
    BY <1>1, <2>1, Zenon DEF BillingTypeOK, Coupon
  <2>4. coupon' = [coupon EXCEPT ![c] = row] /\ apply' = [apply EXCEPT ![p] = NotApplying]
    BY <1>9 DEF IncrementUsage
  <2> HIDE DEF c, row
  <2>5. QED
    BY <1>3, <2>1, <2>2, <2>3, <2>4
<1>10. ASSUME NEW f \in Families, SimulateUpgrade(f) \/ SimulateDowngrade(f)
       PROVE  CouponsAllowed'
  BY <1>1, <1>10 DEF SimulateUpgrade, SimulateDowngrade, CouponsAllowed
<1>11. QED
  BY <1>2, <1>4, <1>5, <1>6, <1>7, <1>8, <1>9, <1>10 DEF BillingNext

\* What a step of the composition is for the variables of Billing.
LEMMA StepOfBilling == Next => BillingNext \/ NoBilling
  BY DEF Next, BillingStep, CheckPlan, CountAccounts, InsertAccount, FindRow, Decide, Rename,
         ClearList, Fail, RenameBlind, ChangeList, InsertAllowed, Delete, EraseUser,
         billingVars, NoBilling

LEMMA CouponsAllowedAlways == Spec => [](TypeInv /\ CouponsAllowed)
<1>1. Init => TypeInv /\ CouponsAllowed
  BY TypeInit, CouponsAllowedInit DEF Init
<1>2. TypeInv /\ CouponsAllowed /\ [Next]_vars => (TypeInv /\ CouponsAllowed)'
  <2> SUFFICES ASSUME TypeInv, CouponsAllowed, [Next]_vars PROVE (TypeInv /\ CouponsAllowed)'
    OBVIOUS
  <2>1. TypeInv'
    BY TypeStep, TypeStays
  <2>2. BillingNext \/ NoBilling
    BY StepOfBilling DEF vars, billingVars, NoBilling
  <2>3. CouponsAllowed'
    BY <2>2, CouponsAllowedStep DEF CouponInv, TypeInv, NoBilling, CouponsAllowed
  <2>4. QED
    BY <2>1, <2>3
<1>3. QED
  BY <1>1, <1>2, PTL DEF Spec

\* No step but a downgrade takes the plan without limits from a family: the plan a
\* coupon brings has none, for every coupon administrators can have made.
THEOREM CouponsNeverLower == Spec => NoCouponLowersLimits
<1> DEFINE A == \A f \in Families : IsPro(plan[f]) /\ ~IsPro(plan'[f]) => SimulateDowngrade(f)
<1>1. ASSUME TypeInv, CouponsAllowed, Next
      PROVE  A
  <2>1. BillingTypeOK
    BY <1>1 DEF TypeInv
  <2>2. CASE NoBilling
    BY <2>2 DEF NoBilling
  <2>3. ASSUME NEW p \in Procs, GrantPlan(p)
        PROVE  A
    <3>1. coupon[apply[p].coupon].plan \in AllowedCouponPlans
      BY <1>1, <2>1, <2>3 DEF GrantPlan, CouponsAllowed, BillingTypeOK
    <3>2. plan' = [plan EXCEPT ![apply[p].family] = coupon[apply[p].coupon].plan]
      BY <2>3 DEF GrantPlan
    <3>3. QED
      BY <2>1, <3>1, <3>2 DEF BillingTypeOK, AllowedCouponPlans, IsPro
  <2>4. ASSUME NEW f \in Families, SimulateUpgrade(f)
        PROVE  A
    BY <2>1, <2>4 DEF SimulateUpgrade, BillingTypeOK, IsPro
  <2>5. ASSUME NEW f \in Families, SimulateDowngrade(f)
        PROVE  A
    <3>1. plan' = [plan EXCEPT ![f] = "FREE"]
      BY <2>5 DEF SimulateDowngrade
    <3>2. QED
      BY <2>1, <2>5, <3>1 DEF BillingTypeOK
  <2>6. ASSUME BillingNext, \A p \in Procs : ~GrantPlan(p),
               \A f \in Families : ~SimulateUpgrade(f) /\ ~SimulateDowngrade(f)
        PROVE  A
    <3>1. plan' = plan
      BY <2>6 DEF BillingNext, CreateCoupon, UpdateActive, UpdateLimits, Expire, FindByCode,
                  GrantFails, IncrementUsage, IncrementFails
    <3>2. QED
      BY <3>1
  <2>7. QED
    BY <1>1, <2>2, <2>3, <2>4, <2>5, <2>6, StepOfBilling
<1>2. ASSUME TypeInv, CouponsAllowed, [Next]_vars
      PROVE  [A]_billingVars
  BY <1>1, <1>2 DEF vars
<1>3. QED
  BY <1>2, CouponsAllowedAlways, PTL DEF Spec, NoCouponLowersLimits

-----------------------------------------------------------------------------
(* The uses of coupons.                                                    *)

LEMMA ProcsSize == Cardinality(Procs) \in Nat /\ Cardinality(Procs) >= 1
  BY BillingAssumption, FS_CardinalityType, FS_EmptySet

LEMMA SlotsSize ==
  ASSUME NEW S \in SUBSET Procs
  PROVE  IsFiniteSet(S) /\ Cardinality(S) \in Nat /\ Cardinality(S) <= Cardinality(Procs)
  BY BillingAssumption, FS_Subset, FS_CardinalityType

\* A request ends: it is taken from every set of requests in flight it was in.
LEMMA LeavesFlight ==
  ASSUME BillingTypeOK, NEW p \in Procs, apply' = [apply EXCEPT ![p] = NotApplying],
         NEW c \in Coupons, NEW S \in SUBSET {"grant", "count"}
  PROVE  InFlight(c, S)' = InFlight(c, S) \ {p}
<1>1. \A q \in Procs : apply'[q] = IF q = p THEN NotApplying ELSE apply[q]
  BY DEF BillingTypeOK
<1>2. NotApplying.at \notin S
  BY DEF NotApplying
<1>3. QED
  BY <1>1, <1>2 DEF InFlight

\* GrantsCounted and UsesTaken, for one coupon.
UseOK(c) == /\ granted[c] = coupon[c].used + lost[c] + Cardinality(InFlight(c, {"count"}))
            /\ coupon[c].exists /\ peak[c] # Unlimited =>
                 coupon[c].max # Unlimited /\ coupon[c].max <= peak[c]
            /\ peak[c] # Unlimited =>
                 coupon[c].used + Cardinality(InFlight(c, {"grant", "count"}))
                   <= peak[c] + Cardinality(Procs) - 1

LEMMA UsesAreUseOK == GrantsCounted /\ UsesTaken <=> \A c \in Coupons : UseOK(c)
  BY DEF GrantsCounted, UsesTaken, UseOK

\* Nothing about the coupon changes.
LEMMA SameUse ==
  ASSUME NEW c \in Coupons, UseOK(c), granted'[c] = granted[c], lost'[c] = lost[c],
         peak'[c] = peak[c], coupon'[c].used = coupon[c].used,
         coupon'[c].exists = coupon[c].exists, coupon'[c].max = coupon[c].max,
         InFlight(c, {"count"})' = InFlight(c, {"count"}),
         InFlight(c, {"grant", "count"})' = InFlight(c, {"grant", "count"})
  PROVE  UseOK(c)'
  BY DEF UseOK

LEMMA UsesInit == BillingInit => GrantsCounted /\ UsesTaken
<1> SUFFICES ASSUME BillingInit, NEW c \in Coupons PROVE UseOK(c)
  BY UsesAreUseOK
<1>1. InFlight(c, {"count"}) = {} /\ InFlight(c, {"grant", "count"}) = {}
  BY DEF BillingInit, InFlight, NotApplying
<1>2. coupon[c].used = 0 /\ ~coupon[c].exists /\ granted[c] = 0 /\ lost[c] = 0 /\ peak[c] = 0
  BY DEF BillingInit, NoRow
<1>3. QED
  BY <1>1, <1>2, ProcsSize, FS_EmptySet DEF UseOK

LEMMA UsesStep == CouponInv /\ GrantsCounted /\ UsesTaken /\ BillingNext
                    => (GrantsCounted /\ UsesTaken)'
<1> SUFFICES ASSUME CouponInv, \A c \in Coupons : UseOK(c), BillingNext,
                    NEW d \in Coupons
             PROVE  UseOK(d)'
  BY UsesAreUseOK DEF GrantsCounted, UsesTaken, UseOK
<1>1. BillingTypeOK /\ CouponsAllowed /\ UseOK(d)
  BY DEF CouponInv
<1>2. /\ coupon[d].used \in Nat /\ granted[d] \in Nat /\ lost[d] \in Nat
      /\ peak[d] \in Nat \cup {Unlimited} /\ coupon[d].max \in Nat \cup {Unlimited}
  BY <1>1 DEF BillingTypeOK, Coupon
<1>3. /\ IsFiniteSet(InFlight(d, {"count"})) /\ IsFiniteSet(InFlight(d, {"grant", "count"}))
      /\ Cardinality(InFlight(d, {"count"})) \in Nat
      /\ Cardinality(InFlight(d, {"grant", "count"})) \in Nat
      /\ Cardinality(InFlight(d, {"grant", "count"})) <= Cardinality(Procs)
  BY SlotsSize DEF InFlight
<1>4. ASSUME apply' = apply
      PROVE  /\ InFlight(d, {"count"})' = InFlight(d, {"count"})
             /\ InFlight(d, {"grant", "count"})' = InFlight(d, {"grant", "count"})
  BY <1>4 DEF InFlight
<1>5. ASSUME NEW c \in Coupons, NEW pl \in Plans, NEW n \in Maxima \cup {Unlimited},
             CreateCoupon(c, pl, n)
      PROVE  UseOK(d)'
  <2> DEFINE row == [NoRow EXCEPT !.exists = TRUE, !.plan = pl, !.active = TRUE, !.max = n]
  <2>1. row.exists /\ row.used = 0 /\ row.max = n
    BY <1>5 DEF CreateCoupon, NoRow
  <2>2. /\ coupon' = [coupon EXCEPT ![c] = row] /\ peak' = [peak EXCEPT ![c] = n]
        /\ UNCHANGED <<apply, granted, lost>> /\ ~coupon[c].exists
    BY <1>5 DEF CreateCoupon
  <2> HIDE DEF row
  <2>3. CASE d = c
    <3>1. InFlight(d, {"grant", "count"}) = {} /\ InFlight(d, {"count"}) = {}
      BY <1>1, <2>2, <2>3 DEF InFlight, CouponsAllowed
    <3>2. coupon'[d] = row /\ peak'[d] = n /\ granted'[d] = granted[d] /\ lost'[d] = lost[d]
      BY <1>1, <2>2, <2>3 DEF BillingTypeOK
    <3>3. coupon[d].used = 0
      BY <1>1, <2>2, <2>3 DEF CouponsAllowed, NoRow
    <3>4. n # Unlimited => n \in Nat
      BY BillingAssumption
    <3>5. granted[d] = lost[d] + 0
      <4>1. Cardinality(InFlight(d, {"count"})) = 0
        BY <3>1, FS_EmptySet
      <4>2. QED
        BY <1>1, <1>2, <3>3, <4>1 DEF UseOK
    <3>6. Cardinality(InFlight(d, {"grant", "count"})') = 0
          /\ Cardinality(InFlight(d, {"count"})') = 0
      BY <1>4, <2>2, <3>1, FS_EmptySet
    <3>7. (granted[d] = coupon[d].used + lost[d] + Cardinality(InFlight(d, {"count"})))'
      BY <1>2, <2>1, <3>2, <3>5, <3>6
    <3>8. n # Unlimited => n <= n /\ 0 + 0 <= n + Cardinality(Procs) - 1
      BY <3>4, ProcsSize
    <3>9. QED
      BY <2>1, <3>2, <3>6, <3>7, <3>8 DEF UseOK
  <2>4. CASE d # c
    BY <1>1, <1>4, <2>2, <2>4, SameUse DEF BillingTypeOK
  <2>5. QED
    BY <2>3, <2>4
<1>6. ASSUME NEW c \in Coupons, NEW row, coupon' = [coupon EXCEPT ![c] = row],
             row.used = coupon[c].used, row.exists = coupon[c].exists, row.max = coupon[c].max,
             UNCHANGED <<apply, granted, lost, peak>>
      PROVE  UseOK(d)'
  <2>1. coupon'[d].used = coupon[d].used /\ coupon'[d].exists = coupon[d].exists
        /\ coupon'[d].max = coupon[d].max
    BY <1>1, <1>6 DEF BillingTypeOK
  <2>2. QED
    BY <1>1, <1>4, <1>6, <2>1, SameUse
<1>a. ASSUME NEW c \in Coupons, NEW b \in BOOLEAN, UpdateActive(c, b)
      PROVE  UseOK(d)'
  <2> DEFINE row == [coupon[c] EXCEPT !.active = b]
  <2>1. row.used = coupon[c].used /\ row.exists = coupon[c].exists /\ row.max = coupon[c].max
    BY <1>1 DEF BillingTypeOK, Coupon
  <2>2. coupon' = [coupon EXCEPT ![c] = row] /\ UNCHANGED <<apply, granted, lost, peak>>
    BY <1>a DEF UpdateActive
  <2> HIDE DEF row
  <2>3. QED
    BY <1>6, <2>1, <2>2
<1>b. ASSUME NEW c \in Coupons, Expire(c)
      PROVE  UseOK(d)'
  <2> DEFINE row == [coupon[c] EXCEPT !.expired = TRUE]
  <2>1. row.used = coupon[c].used /\ row.exists = coupon[c].exists /\ row.max = coupon[c].max
    BY <1>1 DEF BillingTypeOK, Coupon
  <2>2. coupon' = [coupon EXCEPT ![c] = row] /\ UNCHANGED <<apply, granted, lost, peak>>
    BY <1>b DEF Expire
  <2> HIDE DEF row
  <2>3. QED
    BY <1>6, <2>1, <2>2
<1>7. ASSUME NEW c \in Coupons, NEW n \in Maxima \cup {Unlimited}, NEW past \in BOOLEAN,
             UpdateLimits(c, n, past)
      PROVE  UseOK(d)'
  <2> DEFINE row1 == [coupon[c] EXCEPT !.max = n]
             row == [row1 EXCEPT !.expired = past]
  <2>1. row1 \in Coupon /\ row1.exists = coupon[c].exists /\ row1.used = coupon[c].used
        /\ row1.max = n
    BY <1>1, BillingAssumption DEF BillingTypeOK, Coupon
  <2>2. /\ coupon' = [coupon EXCEPT ![c] = row] /\ peak' = [peak EXCEPT ![c] = Higher(@, n)]
        /\ UNCHANGED <<apply, granted, lost>>
    BY <1>7 DEF UpdateLimits
  <2> HIDE DEF row1
  <2>3. row.exists = coupon[c].exists /\ row.used = coupon[c].used /\ row.max = n
    BY <2>1 DEF Coupon
  <2> HIDE DEF row
  <2>4. CASE d = c
    <3>1. coupon'[d] = row /\ peak'[d] = Higher(peak[d], n) /\ granted'[d] = granted[d]
          /\ lost'[d] = lost[d]
      BY <1>1, <2>2, <2>4 DEF BillingTypeOK
    <3>2. peak'[d] # Unlimited => /\ peak[d] # Unlimited /\ n # Unlimited
                                  /\ peak'[d] \in Nat /\ peak'[d] >= peak[d] /\ peak'[d] >= n
      BY <1>2, <3>1, BillingAssumption DEF Higher
    <3>3. peak[d] # Unlimited => peak[d] \in Nat
      BY <1>2
    <3>4. n # Unlimited => n \in Nat
      BY BillingAssumption
    <3>5. QED
      BY <1>1, <1>2, <1>3, <1>4, <2>2, <2>3, <2>4, <3>1, <3>2, <3>3, <3>4, ProcsSize DEF UseOK
  <2>5. CASE d # c
    BY <1>1, <1>4, <2>2, <2>5, SameUse DEF BillingTypeOK
  <2>6. QED
    BY <2>4, <2>5
<1>8. ASSUME NEW p \in Procs, NEW f \in Families, NEW c \in Coupons, FindByCode(p, f, c)
      PROVE  UseOK(d)'
  <2>1. /\ apply' = [apply EXCEPT ![p] = [at |-> "grant", family |-> f, coupon |-> c]]
        /\ UNCHANGED <<coupon, granted, lost, peak>> /\ apply[p].at = "idle"
    BY <1>8 DEF FindByCode, NotApplying
  <2>2. InFlight(d, {"count"})' = InFlight(d, {"count"})
    BY <1>1, <2>1 DEF InFlight, BillingTypeOK
  <2>3. d # c => InFlight(d, {"grant", "count"})' = InFlight(d, {"grant", "count"})
    BY <1>1, <2>1 DEF InFlight, BillingTypeOK
  <2>4. CASE d # c
    BY <1>1, <2>1, <2>2, <2>3, <2>4, SameUse
  <2>5. CASE d = c
    <3>1. /\ Cardinality(InFlight(d, {"grant", "count"})') \in Nat
          /\ Cardinality(InFlight(d, {"grant", "count"})') <= Cardinality(Procs)
      BY SlotsSize DEF InFlight
    <3>2. coupon[d].exists /\ (coupon[d].max # Unlimited => coupon[d].used < coupon[d].max)
      BY <1>2, <1>8, <2>5 DEF FindByCode, Usable
    <3>3. peak[d] # Unlimited =>
            coupon[d].used + Cardinality(InFlight(d, {"grant", "count"})')
              <= peak[d] + Cardinality(Procs) - 1
      BY <1>1, <1>2, <3>1, <3>2, ProcsSize DEF UseOK
    <3>4. QED
      BY <1>1, <2>1, <2>2, <3>3 DEF UseOK
  <2>6. QED
    BY <2>4, <2>5
<1>9. ASSUME NEW p \in Procs, GrantPlan(p)
      PROVE  UseOK(d)'
  <2> DEFINE c == apply[p].coupon
  <2>1. /\ apply' = [apply EXCEPT ![p].at = "count"] /\ granted' = [granted EXCEPT ![c] = @ + 1]
        /\ UNCHANGED <<coupon, lost, peak>> /\ apply[p].at = "grant"
    BY <1>9 DEF GrantPlan
  <2>2. \A q \in Procs : /\ apply'[q].coupon = apply[q].coupon
                         /\ apply'[q].at = IF q = p THEN "count" ELSE apply[q].at
    BY <1>1, <2>1 DEF BillingTypeOK, Applying
  <2>3. InFlight(d, {"grant", "count"})' = InFlight(d, {"grant", "count"})
    BY <2>1, <2>2 DEF InFlight
  <2>4. CASE d # c
    <3>1. InFlight(d, {"count"})' = InFlight(d, {"count"}) /\ granted'[d] = granted[d]
      BY <1>1, <2>1, <2>2, <2>4 DEF InFlight, BillingTypeOK
    <3>2. QED
      BY <1>1, <2>1, <2>3, <3>1, SameUse
  <2>5. CASE d = c
    <3>1. InFlight(d, {"count"})' = InFlight(d, {"count"}) \cup {p}
          /\ p \notin InFlight(d, {"count"})
      BY <2>1, <2>2, <2>5 DEF InFlight
    <3>2. Cardinality(InFlight(d, {"count"})') = Cardinality(InFlight(d, {"count"})) + 1
      BY <1>3, <3>1, FS_AddElement
    <3>3. granted'[d] = granted[d] + 1
      BY <1>1, <2>1, <2>5 DEF BillingTypeOK
    <3>4. (granted[d] = coupon[d].used + lost[d] + Cardinality(InFlight(d, {"count"})))'
      BY <1>1, <1>2, <1>3, <2>1, <3>2, <3>3 DEF UseOK
    <3>5. QED
      BY <1>1, <2>1, <2>3, <3>4 DEF UseOK
  <2>6. QED
    BY <2>4, <2>5
<1>10. ASSUME NEW p \in Procs, GrantFails(p)
       PROVE  UseOK(d)'
  <2>1. /\ apply' = [apply EXCEPT ![p] = NotApplying] /\ UNCHANGED <<coupon, granted, lost, peak>>
        /\ apply[p].at = "grant"
    BY <1>10 DEF GrantFails
  <2>2. p \notin InFlight(d, {"count"})
    BY <2>1 DEF InFlight
  <2>3. InFlight(d, {"count"})' = InFlight(d, {"count"})
    <3>1. InFlight(d, {"count"})' = InFlight(d, {"count"}) \ {p}
      BY <1>1, <2>1, LeavesFlight
    <3>2. QED
      BY <2>2, <3>1
  <2>4. Cardinality(InFlight(d, {"grant", "count"})') \in Nat
        /\ Cardinality(InFlight(d, {"grant", "count"})')
              <= Cardinality(InFlight(d, {"grant", "count"}))
    <3>1. InFlight(d, {"grant", "count"})' = InFlight(d, {"grant", "count"}) \ {p}
      BY <1>1, <2>1, LeavesFlight
    <3>2. QED
      BY <1>3, <3>1, FS_Subset, FS_CardinalityType
  <2>5. QED
    BY <1>1, <1>2, <1>3, <2>1, <2>3, <2>4, ProcsSize DEF UseOK
<1>11. ASSUME NEW p \in Procs, apply[p].at = "count", apply' = [apply EXCEPT ![p] = NotApplying],
              apply[p].coupon = d
       PROVE  \A S \in {{"count"}, {"grant", "count"}} :
                Cardinality(InFlight(d, S)') = Cardinality(InFlight(d, S)) - 1
  <2> SUFFICES ASSUME NEW S \in {{"count"}, {"grant", "count"}}
               PROVE  Cardinality(InFlight(d, S)') = Cardinality(InFlight(d, S)) - 1
    OBVIOUS
  <2>1. InFlight(d, S)' = InFlight(d, S) \ {p}
    BY <1>1, <1>11, LeavesFlight
  <2>2. p \in InFlight(d, S)
    BY <1>11 DEF InFlight
  <2>3. IsFiniteSet(InFlight(d, S))
    BY <1>3
  <2>4. QED
    BY <2>1, <2>2, <2>3, FS_RemoveElement
<1>12. ASSUME NEW p \in Procs, apply' = [apply EXCEPT ![p] = NotApplying], apply[p].coupon # d
       PROVE  /\ InFlight(d, {"count"})' = InFlight(d, {"count"})
              /\ InFlight(d, {"grant", "count"})' = InFlight(d, {"grant", "count"})
  <2>1. p \notin InFlight(d, {"count"}) /\ p \notin InFlight(d, {"grant", "count"})
    BY <1>12 DEF InFlight
  <2>2. InFlight(d, {"count"})' = InFlight(d, {"count"}) \ {p}
    BY <1>1, <1>12, LeavesFlight
  <2>3. InFlight(d, {"grant", "count"})' = InFlight(d, {"grant", "count"}) \ {p}
    BY <1>1, <1>12, LeavesFlight
  <2>4. QED
    BY <2>1, <2>2, <2>3
<1>13. ASSUME NEW p \in Procs, IncrementUsage(p)
       PROVE  UseOK(d)'
  <2> DEFINE c == apply[p].coupon
             row == [coupon[c] EXCEPT !.used = @ + 1]
  <2>1. c \in Coupons /\ coupon[c] \in Coupon
    BY <1>1, <1>13 DEF IncrementUsage, BillingTypeOK
  <2>2. row.used = coupon[c].used + 1 /\ row.exists = coupon[c].exists /\ row.max = coupon[c].max
    BY ONLY <2>1 DEF Coupon
  <2>3. /\ coupon' = [coupon EXCEPT ![c] = row] /\ apply' = [apply EXCEPT ![p] = NotApplying]
        /\ apply[p].at = "count" /\ UNCHANGED <<granted, lost, peak>>
    BY <1>13 DEF IncrementUsage
  <2> HIDE DEF row
  <2>4. CASE d # c
    <3>1. coupon'[d] = coupon[d]
      BY <1>1, <2>3, <2>4 DEF BillingTypeOK
    <3>2. QED
      BY <1>1, <1>12, <2>3, <2>4, <3>1, SameUse
  <2>5. CASE d = c
    <3>1. coupon'[d] = row
      BY <1>1, <2>3, <2>5 DEF BillingTypeOK
    <3>2. /\ Cardinality(InFlight(d, {"count"})') = Cardinality(InFlight(d, {"count"})) - 1
          /\ Cardinality(InFlight(d, {"grant", "count"})')
               = Cardinality(InFlight(d, {"grant", "count"})) - 1
      BY <1>11, <2>3, <2>5
    <3>3. (granted[d] = coupon[d].used + lost[d] + Cardinality(InFlight(d, {"count"})))'
      BY <1>1, <1>2, <1>3, <2>2, <2>3, <2>5, <3>1, <3>2 DEF UseOK
    <3>4. peak[d] # Unlimited =>
            coupon'[d].used + Cardinality(InFlight(d, {"grant", "count"})')
              <= peak[d] + Cardinality(Procs) - 1
      BY <1>1, <1>2, <1>3, <2>2, <2>5, <3>1, <3>2, ProcsSize DEF UseOK
    <3>5. QED
      BY <1>1, <2>2, <2>3, <2>5, <3>1, <3>3, <3>4 DEF UseOK
  <2>6. QED
    BY <2>4, <2>5
<1>14. ASSUME NEW p \in Procs, IncrementFails(p)
       PROVE  UseOK(d)'
  <2> DEFINE c == apply[p].coupon
  <2>1. /\ apply' = [apply EXCEPT ![p] = NotApplying] /\ lost' = [lost EXCEPT ![c] = @ + 1]
        /\ apply[p].at = "count" /\ UNCHANGED <<coupon, granted, peak>>
    BY <1>14 DEF IncrementFails
  <2>2. CASE d # c
    <3>1. lost'[d] = lost[d]
      BY <1>1, <2>1, <2>2 DEF BillingTypeOK
    <3>2. QED
      BY <1>1, <1>12, <2>1, <2>2, <3>1, SameUse
  <2>3. CASE d = c
    <3>1. lost'[d] = lost[d] + 1
      BY <1>1, <2>1, <2>3 DEF BillingTypeOK
    <3>2. /\ Cardinality(InFlight(d, {"count"})') = Cardinality(InFlight(d, {"count"})) - 1
          /\ Cardinality(InFlight(d, {"grant", "count"})')
               = Cardinality(InFlight(d, {"grant", "count"})) - 1
      BY <1>11, <2>1, <2>3
    <3>3. (granted[d] = coupon[d].used + lost[d] + Cardinality(InFlight(d, {"count"})))'
      BY <1>1, <1>2, <1>3, <2>1, <3>1, <3>2 DEF UseOK
    <3>4. peak[d] # Unlimited =>
            coupon[d].used + Cardinality(InFlight(d, {"grant", "count"})')
              <= peak[d] + Cardinality(Procs) - 1
      BY <1>1, <1>2, <1>3, <3>2, ProcsSize DEF UseOK
    <3>5. QED
      BY <1>1, <2>1, <3>3, <3>4 DEF UseOK
  <2>4. QED
    BY <2>2, <2>3
<1>15. ASSUME NEW f \in Families, SimulateUpgrade(f) \/ SimulateDowngrade(f)
       PROVE  UseOK(d)'
  BY <1>1, <1>4, <1>15, SameUse DEF SimulateUpgrade, SimulateDowngrade
<1>16. QED
  BY <1>5, <1>a, <1>b, <1>7, <1>8, <1>9, <1>10, <1>13, <1>14, <1>15 DEF BillingNext

LEMMA UsesBound == BillingTypeOK /\ GrantsCounted /\ UsesTaken => OverspentByOverlap
<1> SUFFICES ASSUME BillingTypeOK, GrantsCounted, UsesTaken, NEW c \in Coupons,
                    peak[c] # Unlimited
             PROVE  granted[c] <= peak[c] + lost[c] + Cardinality(Procs) - 1
  BY DEF OverspentByOverlap
<1>1. coupon[c].used \in Nat /\ granted[c] \in Nat /\ lost[c] \in Nat /\ peak[c] \in Nat
  BY DEF BillingTypeOK, Coupon
<1>2. /\ Cardinality(InFlight(c, {"count"})) \in Nat
      /\ Cardinality(InFlight(c, {"grant", "count"})) \in Nat
      /\ Cardinality(InFlight(c, {"count"})) <= Cardinality(InFlight(c, {"grant", "count"}))
  <2>1. InFlight(c, {"count"}) \subseteq InFlight(c, {"grant", "count"})
    BY DEF InFlight
  <2>2. InFlight(c, {"count"}) \subseteq Procs /\ InFlight(c, {"grant", "count"}) \subseteq Procs
    BY DEF InFlight
  <2>3. QED
    BY <2>1, <2>2, SlotsSize, FS_Subset
<1>3. QED
  BY <1>1, <1>2, ProcsSize DEF GrantsCounted, UsesTaken

-----------------------------------------------------------------------------
(* The number of accounts.                                                 *)

\* Requests that have counted and are yet to insert.
Inserting(f) == {p \in Procs : req[p].at = "insert" /\ req[p].family = f}

\* PlacesTaken, for one family.
PlaceOK(f) == Cardinality(AccountsOf(f)) + Cardinality(Inserting(f))
                <= FreeMaxAccounts + Cardinality(Procs) - 1

LEMMA PlacesArePlaceOK ==
  PlacesTaken <=> /\ \A f \in Families : IsPro(plan[f]) => f \in paid
                  /\ \A f \in Families \ paid : PlaceOK(f)
  BY DEF PlacesTaken, PlaceOK, Inserting

LEMMA PlaceSize ==
  ASSUME NEW f
  PROVE  /\ IsFiniteSet(AccountsOf(f)) /\ Cardinality(AccountsOf(f)) \in Nat
         /\ IsFiniteSet(Inserting(f)) /\ Cardinality(Inserting(f)) \in Nat
         /\ Cardinality(Inserting(f)) <= Cardinality(Procs)
<1>1. AccountsOf(f) \subseteq Accounts /\ Inserting(f) \subseteq Procs
  BY DEF AccountsOf, Inserting
<1>2. QED
  BY <1>1, SlotsSize, AccountsAssumption, FS_Subset, FS_CardinalityType

\* A family for which there are no more accounts and inserts than there were.
LEMMA PlaceStays ==
  ASSUME NEW f, PlaceOK(f), AccountsOf(f)' \subseteq AccountsOf(f),
         Inserting(f)' \subseteq Inserting(f)
  PROVE  PlaceOK(f)'
<1>1. /\ Cardinality(AccountsOf(f)') \in Nat /\ Cardinality(Inserting(f)') \in Nat
      /\ Cardinality(AccountsOf(f)') <= Cardinality(AccountsOf(f))
      /\ Cardinality(Inserting(f)') <= Cardinality(Inserting(f))
  BY PlaceSize, FS_Subset, FS_CardinalityType
<1>2. QED
  BY <1>1, PlaceSize, ProcsSize, AccountsAssumption DEF PlaceOK

LEMMA PlacesInit == Init => PlacesTaken
<1> SUFFICES ASSUME Init PROVE PlacesTaken
  OBVIOUS
<1>1. \A f \in Families : AccountsOf(f) = {} /\ Inserting(f) = {}
  BY DEF Init, AccountsOf, Inserting, Nothing, Idle
<1>2. \A f \in Families : Cardinality(AccountsOf(f)) = 0 /\ Cardinality(Inserting(f)) = 0
  BY <1>1, FS_EmptySet
<1>3. \A f \in Families : PlaceOK(f)
  BY <1>2, ProcsSize, AccountsAssumption DEF PlaceOK
<1>4. QED
  BY <1>3, PlacesArePlaceOK DEF Init

LEMMA PlacesStep == TypeInv /\ PlacesTaken /\ Next => PlacesTaken'
<1> SUFFICES ASSUME TypeInv, PlacesTaken, Next PROVE PlacesTaken'
  OBVIOUS
<1>1. BillingTypeOK /\ ReqOK /\ AccountOK /\ HistoryOK
  BY DEF TypeInv
<1>2. /\ \A f \in Families : IsPro(plan[f]) => f \in paid
      /\ \A f \in Families \ paid : PlaceOK(f)
  BY PlacesArePlaceOK
\* A step that is no step of Billing leaves plans and paid.
<1>3. ASSUME plan' = plan, paid' = paid,
             \A f \in Families \ paid : PlaceOK(f)'
      PROVE  PlacesTaken'
  BY <1>2, <1>3 DEF PlacesTaken, PlaceOK, Inserting
<1>4. ASSUME plan' = plan, paid' = paid,
             \A a \in Accounts : account'[a].exists =>
               account[a].exists /\ account'[a].family = account[a].family,
             \A q \in Procs : req'[q].at = "insert" =>
               req[q].at = "insert" /\ req'[q].family = req[q].family
      PROVE  PlacesTaken'
  <2>1. \A f \in Families : AccountsOf(f)' \subseteq AccountsOf(f)
                           /\ Inserting(f)' \subseteq Inserting(f)
    BY <1>4 DEF AccountsOf, Inserting
  <2>2. QED
    BY <1>2, <1>3, <1>4, <2>1, PlaceStays
<1>5. ASSUME NEW p \in Procs, NEW a \in Accounts, NEW r, Wrote(p, a, r)
      PROVE  /\ req'[p] = r
             /\ \A q \in Procs \ {p} : req'[q].at = req[q].at /\ req'[q].family = req[q].family
  <2>1. req'[p] = r
    BY <1>5 DEF Wrote
  <2>2. ASSUME NEW q \in Procs \ {p}
        PROVE  req'[q].at = req[q].at /\ req'[q].family = req[q].family
    <3> DEFINE alone == req[q].alone /\ req[q].account # a
    <3>1. req'[q] = [req[q] EXCEPT !.alone = alone]
      BY <1>5 DEF Wrote
    <3>2. req[q] \in Request
      BY <1>1 DEF ReqOK
    <3> HIDE DEF alone
    <3>3. QED
      BY <3>1, <3>2 DEF Request
  <2>3. QED
    BY <2>1, <2>2
<1>6. ASSUME NEW p \in Procs, Finish(p)
      PROVE  \A q \in Procs : req'[q].at = "insert" => q # p /\ req'[q] = req[q]
  BY <1>1, <1>6 DEF Finish, ReqOK, Idle
<1>7. CASE BillingStep
  <2>1. UNCHANGED <<account, req>> /\ paid' = paid \cup {f \in Families : IsPro(plan'[f])}
    BY <1>7 DEF BillingStep
  <2>2. \A f \in Families : AccountsOf(f)' = AccountsOf(f) /\ Inserting(f)' = Inserting(f)
    BY <2>1 DEF AccountsOf, Inserting
  <2>3. \A f \in Families \ paid' : PlaceOK(f)'
    BY <1>2, <2>1, <2>2, PlaceStays
  <2>4. \A f \in Families : IsPro(plan'[f]) => f \in paid'
    BY <2>1
  <2>5. QED
    BY <2>3, <2>4 DEF PlacesTaken, PlaceOK, Inserting
<1>8. ASSUME NEW p \in Procs, NEW u \in Users, NEW f \in Families, NEW L \in SUBSET Users,
             CheckPlan(p, u, f, L)
      PROVE  PlacesTaken'
  <2> DEFINE stage == IF IsPro(plan[f]) THEN "insert" ELSE "count"
             r == [Idle EXCEPT !.at = stage, !.user = u, !.family = f, !.list = L, !.asks = TRUE]
  <2>1. req' = [req EXCEPT ![p] = r] /\ UNCHANGED <<plan, account, paid>>
    BY <1>8 DEF CheckPlan
  <2>2. r.at = stage /\ r.family = f
    BY DEF Idle
  <2> HIDE DEF r
  <2>3. \A q \in Procs : req'[q] = IF q = p THEN r ELSE req[q]
    BY <1>1, <2>1 DEF ReqOK
  <2>4. \A g \in Families \ paid : AccountsOf(g)' \subseteq AccountsOf(g)
                                   /\ Inserting(g)' \subseteq Inserting(g)
    BY <1>2, <2>1, <2>2, <2>3 DEF AccountsOf, Inserting
  <2>5. QED
    BY <1>2, <1>3, <2>1, <2>4, PlaceStays
<1>9. ASSUME NEW p \in Procs, CountAccounts(p)
      PROVE  PlacesTaken'
  <2>1. UNCHANGED <<plan, account, paid>> /\ req[p].at = "count"
    BY <1>9 DEF CountAccounts, billingVars
  <2>2. CASE Finish(p)
    BY <1>4, <1>6, <2>1, <2>2
  <2>3. CASE ~Finish(p)
    <3>1. /\ ~(Cardinality(AccountsOf(req[p].family)) >= FreeMaxAccounts)
          /\ req' = [req EXCEPT ![p].at = "insert"]
      BY <1>9, <2>3 DEF CountAccounts
    <3>2. \A q \in Procs : /\ req'[q].family = req[q].family
                           /\ q # p => req'[q].at = req[q].at
      BY <1>1, <3>1 DEF ReqOK, Request
    <3>3. ASSUME NEW g \in Families \ paid PROVE PlaceOK(g)'
      <4>1. AccountsOf(g)' = AccountsOf(g)
        BY <2>1 DEF AccountsOf
      <4>2. CASE g = req[p].family
        <5>1. Cardinality(Inserting(g)') \in Nat /\ Cardinality(Inserting(g)') <= Cardinality(Procs)
          BY SlotsSize DEF Inserting
        <5>2. Cardinality(AccountsOf(g)) < FreeMaxAccounts
          BY <3>1, <4>2, PlaceSize, AccountsAssumption
        <5>3. QED
          BY <4>1, <5>1, <5>2, PlaceSize, ProcsSize, AccountsAssumption DEF PlaceOK
      <4>3. CASE g # req[p].family
        <5>1. Inserting(g)' \subseteq Inserting(g)
          BY <3>2, <4>3 DEF Inserting
        <5>2. QED
          BY <1>2, <4>1, <5>1, PlaceStays
      <4>4. QED
        BY <4>2, <4>3
    <3>4. QED
      BY <1>3, <2>1, <3>3
  <2>4. QED
    BY <2>2, <2>3
<1>10. ASSUME NEW p \in Procs, NEW a \in Accounts, InsertAccount(p, a)
       PROVE  PlacesTaken'
  <2> DEFINE r == IF req[p].list = {} THEN Idle
                  ELSE [req[p] EXCEPT !.at = "list", !.account = a]
             row == [exists |-> TRUE, family |-> req[p].family, by |-> req[p].user, allowed |-> {}]
  <2>1. UNCHANGED <<plan, paid>> /\ req[p].at = "insert" /\ ~account[a].exists
    BY <1>10 DEF InsertAccount, billingVars
  <2>2. CASE req[p].user \in gone
    <3>1. UNCHANGED account /\ Finish(p)
      BY <1>10, <2>2 DEF InsertAccount
    <3>2. QED
      BY <1>4, <1>6, <2>1, <3>1
  <2>3. CASE req[p].user \notin gone
    <3>1. account' = [account EXCEPT ![a] = row] /\ Wrote(p, a, r)
      BY <1>10, <2>3 DEF InsertAccount
    <3>2. r.at # "insert"
      BY <1>1 DEF Idle, ReqOK, Request
    <3> HIDE DEF r
    <3>3. \A q \in Procs : IF q = p THEN req'[q].at # "insert"
                           ELSE req'[q].at = req[q].at /\ req'[q].family = req[q].family
      BY <1>5, <3>1, <3>2
    <3>4. ASSUME NEW g \in Families \ paid PROVE PlaceOK(g)'
      <4>1. CASE g = req[p].family
        <5>1. AccountsOf(g)' = AccountsOf(g) \cup {a} /\ a \notin AccountsOf(g)
          BY <1>1, <2>1, <3>1, <4>1 DEF AccountsOf, AccountOK
        <5>2. Inserting(g)' = Inserting(g) \ {p} /\ p \in Inserting(g)
          BY <2>1, <3>3, <4>1 DEF Inserting
        <5>3. /\ Cardinality(AccountsOf(g)') = Cardinality(AccountsOf(g)) + 1
              /\ Cardinality(Inserting(g)') = Cardinality(Inserting(g)) - 1
          BY <5>1, <5>2, PlaceSize, FS_AddElement, FS_RemoveElement
        <5>4. QED
          BY <1>2, <5>3, PlaceSize, ProcsSize, AccountsAssumption DEF PlaceOK
      <4>2. CASE g # req[p].family
        <5>1. AccountsOf(g)' \subseteq AccountsOf(g)
          BY <1>1, <3>1, <4>2 DEF AccountsOf, AccountOK
        <5>2. Inserting(g)' \subseteq Inserting(g)
          BY <3>3 DEF Inserting
        <5>3. QED
          BY <1>2, <5>1, <5>2, PlaceStays
      <4>3. QED
        BY <4>1, <4>2
    <3>5. QED
      BY <1>3, <2>1, <3>4
  <2>4. QED
    BY <2>2, <2>3
<1>11. ASSUME NEW p \in Procs, NEW u \in Users, NEW a \in Accounts, FindRow(p, u, a)
       PROVE  PlacesTaken'
  <2> DEFINE free == Writing(a) = {}
             r == [Idle EXCEPT !.at = "read", !.user = u, !.family = account[a].family,
                               !.account = a, !.alone = free]
  <2>1. req' = [req EXCEPT ![p] = r] /\ UNCHANGED <<plan, account, paid>>
    BY <1>11 DEF FindRow
  <2>2. r.at = "read"
    BY DEF Idle
  <2> HIDE DEF r
  <2>3. QED
    BY <1>1, <1>4, <2>1, <2>2 DEF ReqOK
<1>12. ASSUME NEW p \in Procs, NEW read, NEW N, NEW asks, NEW alone,
              Decide(p, read, N, asks, alone)
       PROVE  PlacesTaken'
  <2>1. UNCHANGED <<plan, account, paid>>
    BY <1>12 DEF Decide, billingVars
  <2>2. CASE Finish(p)
    BY <1>4, <1>6, <2>1, <2>2
  <2>3. CASE ~Finish(p)
    <3>1. req' = [req EXCEPT ![p].at = "write", ![p].list = N, ![p].asks = asks,
                             ![p].alone = alone]
      BY <1>12, <2>3 DEF Decide
    <3>2. \A q \in Procs \ {p} : req'[q] = req[q]
      BY <1>1, <3>1 DEF ReqOK
    <3>3. req'[p].at = "write"
      BY <1>1, <3>1 DEF ReqOK, Request
    <3>4. QED
      BY <1>4, <2>1, <3>2, <3>3
  <2>4. QED
    BY <2>2, <2>3
<1>13. ASSUME NEW p \in Procs,
              \/ Rename(p) \/ (\E read \in SUBSET Users : RenameBlind(p, read))
              \/ \E L \in SUBSET Users, read \in SUBSET Users : ChangeList(p, L, read)
       PROVE  PlacesTaken'
  BY <1>12, <1>13 DEF Rename, RenameBlind, ChangeList
<1>14. ASSUME NEW p \in Procs, ClearList(p)
       PROVE  PlacesTaken'
  <2> DEFINE a == req[p].account
             r == IF req[p].list = {} THEN Idle ELSE [req[p] EXCEPT !.at = "list"]
  <2>1. /\ UNCHANGED <<plan, paid>> /\ Wrote(p, a, r) /\ a \in Accounts
        /\ account' = [account EXCEPT ![a].allowed = {}]
    BY <1>1, <1>14 DEF ClearList, Done, billingVars, ReqOK, WellFormed
  <2>2. r.at # "insert"
    BY <1>1 DEF Idle, ReqOK, Request
  <2>3. \A b \in Accounts : /\ account'[b].exists = account[b].exists
                            /\ account'[b].family = account[b].family
    BY <1>1, <2>1 DEF AccountOK, Account
  <2> HIDE DEF r
  <2>4. QED
    BY <1>4, <1>5, <2>1, <2>2, <2>3
<1>15. ASSUME NEW p \in Procs, NEW u \in Users, InsertAllowed(p, u)
       PROVE  PlacesTaken'
  <2> DEFINE a == req[p].account
             left == req[p].list \ {u}
             r == IF left = {} THEN Idle ELSE [req[p] EXCEPT !.list = left]
             row == [account[a] EXCEPT !.allowed = @ \cup {u}]
  <2>1. UNCHANGED <<plan, paid>> /\ req[p].at = "list" /\ a \in Accounts
    BY <1>1, <1>15 DEF InsertAllowed, billingVars, ReqOK, WellFormed
  <2>2. CASE ~account[a].exists \/ u \in gone \/ u \in account[a].allowed
    <3>1. UNCHANGED account /\ Finish(p)
      BY <1>15, <2>2 DEF InsertAllowed
    <3>2. QED
      BY <1>4, <1>6, <2>1, <3>1
  <2>3. CASE ~(~account[a].exists \/ u \in gone \/ u \in account[a].allowed)
    <3>1. account' = [account EXCEPT ![a] = row] /\ Wrote(p, a, r)
      BY <1>15, <2>3 DEF InsertAllowed, Done
    <3>2. r.at # "insert"
      BY <1>1, <2>1 DEF Idle, ReqOK, Request
    <3>3. row.exists = account[a].exists /\ row.family = account[a].family
      BY <1>1, <2>1 DEF AccountOK, Account
    <3> HIDE DEF r, row
    <3>4. \A b \in Accounts : /\ account'[b].exists = account[b].exists
                              /\ account'[b].family = account[b].family
      BY <1>1, <3>1, <3>3 DEF AccountOK
    <3>5. QED
      BY <1>4, <1>5, <2>1, <3>1, <3>2, <3>4
  <2>4. QED
    BY <2>2, <2>3
<1>16. ASSUME NEW p \in Procs, Fail(p)
       PROVE  PlacesTaken'
  <2>1. UNCHANGED <<plan, account, paid>> /\ Finish(p)
    BY <1>16 DEF Fail, billingVars
  <2>2. QED
    BY <1>4, <1>6, <2>1
<1>17. ASSUME NEW u \in Users, NEW a \in Accounts, Delete(u, a)
       PROVE  PlacesTaken'
  <2>1. UNCHANGED <<plan, req, paid>> /\ account' = [account EXCEPT ![a] = Nothing]
    BY <1>17 DEF Delete
  <2>2. \A b \in Accounts : account'[b].exists =>
          account[b].exists /\ account'[b].family = account[b].family
    BY <1>1, <2>1 DEF AccountOK, Nothing
  <2>3. QED
    BY <1>4, <2>1, <2>2
<1>18. ASSUME NEW u \in Users, NEW v \in Users, EraseUser(u, v)
       PROVE  PlacesTaken'
  <2>1. UNCHANGED <<plan, req, paid>>
    BY <1>18 DEF EraseUser
  <2>2. ASSUME NEW b \in Accounts
        PROVE  account'[b].exists = account[b].exists /\ account'[b].family = account[b].family
    <3> DEFINE r1 == [account[b] EXCEPT !.allowed = @ \ {u}]
               by == IF r1.by = u THEN v ELSE r1.by
               r2 == [r1 EXCEPT !.by = by]
    <3>1. r1 \in Account /\ r1.exists = account[b].exists /\ r1.family = account[b].family
      BY <1>1 DEF AccountOK, Account
    <3>2. account'[b] = r2
      BY <1>18 DEF EraseUser
    <3> HIDE DEF r1, by
    <3>3. r2.exists = r1.exists /\ r2.family = r1.family
      BY <3>1 DEF Account
    <3>4. QED
      BY <3>1, <3>2, <3>3
  <2>3. QED
    BY <1>4, <2>1, <2>2
<1>19. QED
  BY <1>7, <1>8, <1>9, <1>10, <1>11, <1>13, <1>14, <1>15, <1>16, <1>17, <1>18 DEF Next

LEMMA PlacesBound == PlacesTaken => QuotaByOverlap
<1> SUFFICES ASSUME PlacesTaken, NEW f \in Families \ paid
             PROVE  Cardinality(AccountsOf(f)) <= FreeMaxAccounts + Cardinality(Procs) - 1
  BY DEF QuotaByOverlap
<1>1. PlaceOK(f)
  BY PlacesArePlaceOK
<1>2. QED
  BY <1>1, PlaceSize, ProcsSize, AccountsAssumption DEF PlaceOK

\* A family that never had more than the plan FREE has at most as many accounts too
\* many, and a coupon gives at most as many plans too many, besides those whose count
\* was lost, as requests can be in flight next to one: for any limits, any number of
\* families, coupons, accounts and requests.
THEOREM LimitsHold == Spec => []LimitsByOverlap
<1> DEFINE LimitsInv == TypeInv /\ CouponsAllowed /\ GrantsCounted /\ UsesTaken /\ PlacesTaken
<1>1. Init => LimitsInv
  BY TypeInit, CouponsAllowedInit, UsesInit, PlacesInit DEF Init
<1>2. LimitsInv /\ [Next]_vars => LimitsInv'
  <2> SUFFICES ASSUME LimitsInv, [Next]_vars PROVE LimitsInv'
    OBVIOUS
  <2>1. TypeInv'
    BY TypeStep, TypeStays
  <2>2. BillingNext \/ NoBilling
    BY StepOfBilling DEF vars, billingVars, NoBilling
  <2>3. CouponsAllowed'
    BY <2>2, CouponsAllowedStep DEF CouponInv, TypeInv, NoBilling, CouponsAllowed
  <2>4. GrantsCounted' /\ UsesTaken'
    <3>1. CASE BillingNext
      BY <3>1, UsesStep DEF CouponInv, TypeInv
    <3>2. CASE NoBilling
      BY <3>2 DEF NoBilling, GrantsCounted, UsesTaken, InFlight
    <3>3. QED
      BY <2>2, <3>1, <3>2
  <2>5. PlacesTaken'
    <3>1. CASE Next
      BY <3>1, PlacesStep
    <3>2. CASE UNCHANGED vars
      BY <3>2 DEF vars, billingVars, PlacesTaken, AccountsOf
    <3>3. QED
      BY <3>1, <3>2
  <2>6. QED
    BY <2>1, <2>3, <2>4, <2>5
<1>3. LimitsInv => LimitsByOverlap
  BY UsesBound, PlacesBound DEF TypeInv, LimitsByOverlap
<1>4. QED
  BY <1>1, <1>2, <1>3, PTL DEF Spec
-----------------------------------------------------------------------------
(* The lists.                                                              *)

On(p, a) == req[p].account = a /\ req[p].at \in {"read", "write", "list"}

\* Between the writes, the list is the one that was asked for.
Rests(a) ==
  account[a].exists /\ ~mixed[a] /\ Writing(a) = {} => account[a].allowed = want[a] \ gone

\* A request that is still alone reads while nobody writes, writes back what was
\* asked for if it asks for nothing itself, and completes what is asked for.
Completes(p, a) ==
  On(p, a) /\ req[p].alone =>
    /\ req[p].at = "read" => Writing(a) = {}
    /\ req[p].at = "write" /\ account[a].exists /\ ~req[p].asks /\ ~mixed[a] =>
         req[p].list \ gone = want[a] \ gone
    /\ req[p].at = "list" /\ account[a].exists /\ (req[p].asks \/ ~mixed[a]) =>
         (account[a].allowed \cup req[p].list) \ gone = want[a] \ gone

ListOK(a) == Rests(a) /\ \A p \in Procs : Completes(p, a)

ListsOK == \A a \in Accounts : ListOK(a)

\* Nothing happens to the account b, nor to a request that is on it.
LEMMA ListStays ==
  ASSUME NEW b \in Accounts, ListOK(b), account'[b] = account[b], want'[b] = want[b],
         mixed'[b] = mixed[b], gone' = gone,
         \A q \in Procs : On(q, b) \/ On(q, b)' => req'[q] = req[q]
  PROVE  ListOK(b)'
<1>1. \A q \in Procs : On(q, b)' <=> On(q, b)
  BY DEF On
<1>2. Writing(b)' = Writing(b)
  BY <1>1 DEF Writing, On
<1>3. QED
  BY <1>1, <1>2 DEF ListOK, Rests, Completes, On

\* What a write makes of the requests.
LEMMA WroteShape ==
  ASSUME ReqOK, NEW p \in Procs, NEW a \in Accounts, NEW r, Wrote(p, a, r)
  PROVE  /\ req'[p] = r
         /\ \A q \in Procs \ {p} :
              /\ req'[q].at = req[q].at /\ req'[q].account = req[q].account
              /\ req[q].account = a => ~req'[q].alone
              /\ req[q].account # a => req'[q] = req[q]
<1>1. \A s \in Request : \A b \in BOOLEAN :
        /\ [s EXCEPT !.alone = b].at = s.at
        /\ [s EXCEPT !.alone = b].account = s.account
        /\ [s EXCEPT !.alone = b].alone = b
        /\ (s.alone = b) => [s EXCEPT !.alone = b] = s
  BY DEF Request
<1>2. ASSUME NEW q \in Procs \ {p}
      PROVE  /\ req'[q].at = req[q].at /\ req'[q].account = req[q].account
             /\ req[q].account = a => ~req'[q].alone
             /\ req[q].account # a => req'[q] = req[q]
  <2> DEFINE alone == req[q].alone /\ req[q].account # a
  <2>1. req'[q] = [req[q] EXCEPT !.alone = alone]
    BY DEF Wrote
  <2>2. req[q] \in Request /\ alone \in BOOLEAN
    BY DEF ReqOK, Request
  <2>3. /\ req[q].account = a => alone = FALSE
        /\ req[q].account # a => alone = req[q].alone
    BY <2>2 DEF Request
  <2> HIDE DEF alone
  <2>4. QED
    BY <1>1, <2>1, <2>2, <2>3
<1>3. req'[p] = r
  BY DEF Wrote
<1>4. QED
  BY <1>2, <1>3

\* After a write of the list of a, only the writer can be alone on it.
LEMMA ListWrote ==
  ASSUME TypeInv, ListsOK, NEW p \in Procs, NEW a \in Accounts, NEW r, Wrote(p, a, r),
         gone' = gone, ~\E b \in Accounts \ {a} : On(p, b) \/ On(p, b)',
         \A b \in Accounts \ {a} : /\ account'[b] = account[b]
                                   /\ want'[b] = want[b] /\ mixed'[b] = mixed[b],
         Rests(a)', Completes(p, a)'
  PROVE  ListsOK'
<1>1. /\ req'[p] = r
      /\ \A q \in Procs \ {p} :
           /\ req'[q].account = req[q].account
           /\ req[q].account = a => ~req'[q].alone
           /\ req[q].account # a => req'[q] = req[q]
  BY WroteShape DEF TypeInv
<1>2. ASSUME NEW b \in Accounts \ {a}
      PROVE  ListOK(b)'
  <2>1. \A q \in Procs : On(q, b) \/ On(q, b)' => req'[q] = req[q]
    BY <1>1 DEF On
  <2>2. QED
    BY <2>1, ListStays DEF ListsOK
<1>3. \A q \in Procs \ {p} : Completes(q, a)'
  BY <1>1 DEF Completes, On
<1>4. ListOK(a)'
  BY <1>3 DEF ListOK
<1>5. QED
  BY <1>2, <1>4 DEF ListsOK

\* The request of p goes on to r without a write.
LEMMA ListReads ==
  ASSUME TypeInv, ListsOK, NEW p \in Procs, NEW r, req' = [req EXCEPT ![p] = r],
         UNCHANGED <<account, gone, want, mixed>>, req[p].at # "list", r.at # "list",
         \A a \in Accounts : Completes(p, a)'
  PROVE  ListsOK'
<1>1. req'[p] = r /\ \A q \in Procs \ {p} : req'[q] = req[q]
  BY DEF TypeInv, ReqOK
<1>2. \A a \in Accounts : Writing(a)' = Writing(a)
  BY <1>1 DEF Writing
<1>3. \A a \in Accounts : \A q \in Procs \ {p} : Completes(q, a)'
  BY <1>1, <1>2 DEF Completes, On, ListsOK, ListOK
<1>4. QED
  BY <1>2, <1>3 DEF ListsOK, ListOK, Rests

\* The request of p ends; a list that it leaves unfinished counts as mixed.
LEMMA ListDrops ==
  ASSUME TypeInv, ListsOK, NEW p \in Procs, Finish(p), UNCHANGED <<account, gone, want>>,
         \A b \in Accounts : mixed'[b] \/ (mixed'[b] = mixed[b] /\ p \notin Writing(b))
  PROVE  ListsOK'
<1>1. req'[p].at = "idle" /\ \A q \in Procs \ {p} : req'[q] = req[q]
  BY DEF TypeInv, ReqOK, Finish, Idle
<1>2. \A b \in Accounts : /\ Writing(b)' \subseteq Writing(b)
                          /\ p \notin Writing(b) => Writing(b)' = Writing(b)
  BY <1>1 DEF Writing
<1>3. \A b \in Accounts : Rests(b)'
  BY <1>2 DEF ListsOK, ListOK, Rests
<1>4. \A b \in Accounts : \A q \in Procs \ {p} : Completes(q, b)'
  BY <1>1, <1>2 DEF ListsOK, ListOK, Completes, On
<1>5. \A b \in Accounts : Completes(p, b)'
  BY <1>1 DEF Completes, On
<1>6. QED
  BY <1>3, <1>4, <1>5 DEF ListsOK, ListOK

LEMMA ListInsertAccount ==
  ASSUME TypeInv, ListsOK, NEW p \in Procs, NEW a \in Accounts, InsertAccount(p, a)
  PROVE  ListsOK'
<1>1. CASE req[p].user \in gone
  BY <1>1, ListDrops DEF InsertAccount, Writing
<1>2. CASE req[p].user \notin gone
  <2> DEFINE L == req[p].list
             r == IF L = {} THEN Idle ELSE [req[p] EXCEPT !.at = "list", !.account = a]
  <2>1. /\ req[p].at = "insert" /\ Wrote(p, a, r) /\ gone' = gone
        /\ account' = [account EXCEPT ![a] = [exists |-> TRUE, family |-> req[p].family,
                                              by |-> req[p].user, allowed |-> {}]]
        /\ want' = [want EXCEPT ![a] = L] /\ mixed' = [mixed EXCEPT ![a] = FALSE]
    BY <1>2 DEF InsertAccount
  <2>2. /\ \A b \in Accounts \ {a} : /\ account'[b] = account[b] /\ want'[b] = want[b]
                                     /\ mixed'[b] = mixed[b]
        /\ account'[a].allowed = {} /\ want'[a] = L
    BY <2>1 DEF TypeInv, AccountOK, HistoryOK
  <2>3. /\ L = {} => r.at = "idle"
        /\ L # {} => r.at = "list" /\ r.account = a /\ r.list = L
    BY DEF TypeInv, ReqOK, Request, Idle
  <2>4. req'[p] = r
    BY <2>1 DEF Wrote
  <2> HIDE DEF r
  <2>5. ~\E b \in Accounts \ {a} : On(p, b) \/ On(p, b)'
    BY <2>1, <2>3, <2>4 DEF On
  <2>6. L # {} => p \in Writing(a)'
    BY <2>3, <2>4 DEF Writing
  <2>7. Rests(a)'
    BY <2>2, <2>6 DEF Rests
  <2>8. Completes(p, a)'
    BY <2>2, <2>3, <2>4 DEF Completes, On
  <2>9. QED
    BY <2>1, <2>2, <2>5, <2>7, <2>8, ListWrote
<1>3. QED
  BY <1>1, <1>2

\* The end of a write that completes what is asked for.
LEMMA ListDone ==
  ASSUME TypeInv, ListsOK, NEW p \in Procs, NEW a \in Accounts, On(p, a), Done(p, a),
         gone' = gone,
         \A b \in Accounts \ {a} : account'[b] = account[b] /\ want'[b] = want[b],
         req[p].alone /\ account'[a].exists /\ (req[p].asks \/ ~mixed[a]) =>
           account'[a].allowed = want'[a] \ gone
  PROVE  ListsOK'
<1>1. /\ mixed' = [mixed EXCEPT ![a] = ~req[p].alone \/ (@ /\ ~req[p].asks)]
      /\ Wrote(p, a, Idle)
  BY DEF Done
<1>2. /\ req'[p].at = "idle" /\ ~\E b \in Accounts \ {a} : On(p, b) \/ On(p, b)'
      /\ \A b \in Accounts \ {a} : mixed'[b] = mixed[b]
      /\ ~mixed'[a] => req[p].alone /\ (req[p].asks \/ ~mixed[a])
  <2>1. req'[p] = Idle /\ Idle.at = "idle"
    BY <1>1 DEF Wrote, Idle
  <2>2. \A b \in Accounts \ {a} : ~On(p, b) /\ ~On(p, b)'
    BY <2>1 DEF On
  <2>3. \A b \in Accounts : mixed'[b] = IF b = a THEN ~req[p].alone \/ (mixed[a] /\ ~req[p].asks)
                                      ELSE mixed[b]
    BY <1>1 DEF TypeInv, HistoryOK
  <2>4. QED
    BY <2>1, <2>2, <2>3
<1>3. Completes(p, a)'
  BY <1>2 DEF Completes, On
<1>4. Rests(a)'
  BY <1>2 DEF Rests
<1>5. QED
  BY <1>1, <1>2, <1>3, <1>4, ListWrote

LEMMA ListClear ==
  ASSUME TypeInv, ListsOK, NEW p \in Procs, ClearList(p)
  PROVE  ListsOK'
<1>0. PICK a \in Accounts : a = req[p].account
  BY DEF TypeInv, ReqOK, WellFormed, ClearList
<1> DEFINE L == req[p].list
           row == [account[a] EXCEPT !.allowed = {}]
           r == [req[p] EXCEPT !.at = "list"]
<1>1. /\ req[p] \in Request /\ a \in Accounts /\ On(p, a) /\ req[p].at = "write"
      /\ gone' = gone /\ account' = [account EXCEPT ![a] = row]
      /\ want' = IF req[p].asks THEN [want EXCEPT ![a] = L] ELSE want
  BY <1>0 DEF TypeInv, ReqOK, WellFormed, ClearList, Asked, On
<1>2. row.allowed = {} /\ row.exists = account[a].exists
  BY <1>1 DEF TypeInv, AccountOK, Account
<1> HIDE DEF row
<1>3. /\ \A b \in Accounts \ {a} : account'[b] = account[b] /\ want'[b] = want[b]
      /\ account'[a].allowed = {} /\ account'[a].exists = account[a].exists
      /\ want'[a] = IF req[p].asks THEN L ELSE want[a]
  BY <1>1, <1>2 DEF TypeInv, AccountOK, HistoryOK
<1>4. req[p].alone /\ account[a].exists /\ (req[p].asks \/ ~mixed[a]) =>
        L \ gone = want'[a] \ gone
  BY <1>1, <1>3 DEF ListsOK, ListOK, Completes
<1>5. CASE L = {}
  BY <1>0, <1>1, <1>3, <1>4, <1>5, ListDone DEF ClearList
<1>6. CASE L # {}
  <2>1. Wrote(p, a, r) /\ mixed' = mixed
    BY <1>0, <1>6 DEF ClearList
  <2>2. /\ r.at = "list" /\ r.account = a /\ r.list = L /\ r.alone = req[p].alone
        /\ r.asks = req[p].asks
    BY <1>0, <1>1 DEF Request
  <2>3. req'[p] = r
    BY <1>1, <2>1 DEF Wrote
  <2> HIDE DEF r
  <2>4. p \in Writing(a)' /\ ~\E b \in Accounts \ {a} : On(p, b) \/ On(p, b)'
    BY <1>1, <2>2, <2>3 DEF Writing, On
  <2>5. Rests(a)'
    BY <2>4 DEF Rests
  <2>6. Completes(p, a)'
    BY <1>1, <1>3, <1>4, <2>1, <2>2, <2>3 DEF Completes, On
  <2>7. gone' = gone /\ \A b \in Accounts \ {a} : /\ account'[b] = account[b]
                                                /\ want'[b] = want[b] /\ mixed'[b] = mixed[b]
    BY <1>1, <1>3, <2>1
  <2>8. QED
    BY <2>1, <2>4, <2>5, <2>6, <2>7, ListWrote
<1>7. QED
  BY <1>5, <1>6

LEMMA ListInsertAllowed ==
  ASSUME TypeInv, ListsOK, NEW p \in Procs, NEW u \in Users, InsertAllowed(p, u)
  PROVE  ListsOK'
<1>0. PICK a \in Accounts : a = req[p].account
  BY DEF TypeInv, ReqOK, WellFormed, InsertAllowed
<1> DEFINE left == req[p].list \ {u}
           row == [account[a] EXCEPT !.allowed = @ \cup {u}]
           r == [req[p] EXCEPT !.list = left]
<1>1. /\ req[p] \in Request /\ a \in Accounts /\ On(p, a) /\ req[p].at = "list"
      /\ u \in req[p].list /\ UNCHANGED <<gone, want>> /\ req[p].list \subseteq Users
  BY <1>0 DEF TypeInv, ReqOK, WellFormed, InsertAllowed, On, Request
<1>2. CASE ~account[a].exists \/ u \in gone \/ u \in account[a].allowed
  <2>1. mixed' = [mixed EXCEPT ![a] = TRUE] /\ Finish(p) /\ UNCHANGED account
    BY <1>0, <1>2 DEF InsertAllowed
  <2>2. \A b \in Accounts : mixed'[b] \/ (mixed'[b] = mixed[b] /\ p \notin Writing(b))
    BY <1>0, <1>1, <2>1 DEF TypeInv, HistoryOK, Writing
  <2>3. QED
    BY <1>1, <2>1, <2>2, ListDrops
<1>3. CASE ~(~account[a].exists \/ u \in gone \/ u \in account[a].allowed)
  <2>1. account' = [account EXCEPT ![a] = row]
    BY <1>0, <1>3 DEF InsertAllowed
  <2>2. row.allowed = account[a].allowed \cup {u} /\ row.exists = account[a].exists
    BY <1>1 DEF TypeInv, AccountOK, Account
  <2> HIDE DEF row
  <2>3. /\ \A b \in Accounts \ {a} : account'[b] = account[b] /\ want'[b] = want[b]
        /\ account'[a].allowed = account[a].allowed \cup {u}
        /\ account'[a].exists = account[a].exists /\ want'[a] = want[a]
    BY <1>1, <2>1, <2>2 DEF TypeInv, AccountOK
  <2>4. req[p].alone /\ account[a].exists /\ (req[p].asks \/ ~mixed[a]) =>
          (account'[a].allowed \cup left) \ gone = want[a] \ gone
    <3>1. account'[a].allowed \cup left = account[a].allowed \cup req[p].list
      BY <1>1, <2>3
    <3>2. QED
      BY <1>1, <3>1 DEF ListsOK, ListOK, Completes
  <2>5. account'[a].allowed \cap gone = {}
    BY <1>1, <1>3, <2>3 DEF TypeInv, AccountOK
  <2>6. CASE left = {}
    <3>1. Done(p, a)
      BY <1>0, <1>3, <2>6 DEF InsertAllowed
    <3>2. req[p].alone /\ account'[a].exists /\ (req[p].asks \/ ~mixed[a]) =>
            account'[a].allowed = want'[a] \ gone
      BY <2>3, <2>4, <2>5, <2>6
    <3>3. QED
      BY <1>1, <2>3, <3>1, <3>2, ListDone
  <2>7. CASE left # {}
    <3>1. Wrote(p, a, r) /\ mixed' = mixed
      BY <1>0, <1>3, <2>7 DEF InsertAllowed
    <3>2. /\ r.at = "list" /\ r.account = a /\ r.list = left /\ r.alone = req[p].alone
          /\ r.asks = req[p].asks
      BY <1>0, <1>1 DEF Request
    <3>3. req'[p] = r
      BY <1>1, <3>1 DEF Wrote
    <3> HIDE DEF r
    <3>4. p \in Writing(a)' /\ ~\E b \in Accounts \ {a} : On(p, b) \/ On(p, b)'
      BY <1>1, <3>2, <3>3 DEF Writing, On
    <3>5. Rests(a)'
      BY <3>4 DEF Rests
    <3>6. Completes(p, a)'
      BY <1>1, <2>3, <2>4, <3>1, <3>2, <3>3 DEF Completes, On
    <3>7. gone' = gone /\ \A b \in Accounts \ {a} : /\ account'[b] = account[b]
                                                  /\ want'[b] = want[b] /\ mixed'[b] = mixed[b]
      BY <1>1, <2>3, <3>1
    <3>8. QED
      BY <3>1, <3>4, <3>5, <3>6, <3>7, ListWrote
  <2>8. QED
    BY <2>6, <2>7
<1>4. QED
  BY <1>2, <1>3

\* An Update that has read decides what it writes: only Rename without a failure
\* writes back what it reads and stays alone, as nobody writes while it reads.
LEMMA ListDecides ==
  ASSUME TypeInv, ListsOK, NEW p \in Procs, NEW read, NEW N \in SUBSET Users,
         NEW asks \in BOOLEAN, NEW alone \in BOOLEAN, req[p].at = "read",
         Decide(p, read, N, asks, alone),
         ~asks /\ alone => req[p].alone /\ N = account[req[p].account].allowed
  PROVE  ListsOK'
<1> DEFINE a == req[p].account
           r == [req[p] EXCEPT !.at = "write", !.list = N, !.asks = asks, !.alone = alone]
<1>1. /\ req[p] \in Request /\ a \in Accounts /\ On(p, a)
      /\ UNCHANGED <<account, gone, want, mixed>>
  BY DEF TypeInv, ReqOK, WellFormed, Decide, On
<1>2. CASE Finish(p)
  BY <1>1, <1>2, ListDrops DEF Writing
<1>3. CASE ~Finish(p)
  <2>1. req' = [req EXCEPT ![p] = r]
    BY <1>3 DEF Decide
  <2>2. /\ r.at = "write" /\ r.account = a /\ r.list = N /\ r.asks = asks /\ r.alone = alone
    <3> DEFINE s == [req[p] EXCEPT !.at = "write", !.list = N]
    <3>1. s \in Request /\ s.at = "write" /\ s.account = a /\ s.list = N
      BY <1>1 DEF Request
    <3>2. r = [s EXCEPT !.asks = asks, !.alone = alone]
      OBVIOUS
    <3> HIDE DEF s
    <3>3. QED
      BY <3>1, <3>2 DEF Request
  <2>3. req'[p] = r
    BY <2>1 DEF TypeInv, ReqOK
  <2> HIDE DEF r
  <2>4. ASSUME account[a].exists, ~mixed[a], ~asks, alone
        PROVE  N \ gone = want[a] \ gone
    <3>1. Writing(a) = {}
      BY <1>1, <2>4 DEF ListsOK, ListOK, Completes
    <3>2. QED
      BY <1>1, <2>4, <3>1 DEF ListsOK, ListOK, Rests
  <2>5. \A b \in Accounts : Completes(p, b)'
    BY <1>1, <2>2, <2>3, <2>4 DEF Completes, On
  <2>6. QED
    BY <1>1, <2>1, <2>2, <2>5, ListReads
<1>4. QED
  BY <1>2, <1>3

LEMMA ListErase ==
  ASSUME TypeInv, ListsOK, NEW u \in Users, NEW v \in Users, EraseUser(u, v)
  PROVE  ListsOK'
<1>1. UNCHANGED <<req, want, mixed>> /\ gone' = gone \cup {u}
  BY DEF EraseUser
<1>2. ASSUME NEW a \in Accounts
      PROVE  /\ account'[a].exists = account[a].exists
             /\ account'[a].allowed = account[a].allowed \ {u}
  <2> DEFINE s == [account[a] EXCEPT !.allowed = @ \ {u}]
             by == IF s.by = u THEN v ELSE s.by
  <2>1. s \in Account /\ s.exists = account[a].exists /\ s.allowed = account[a].allowed \ {u}
    BY DEF TypeInv, AccountOK, Account
  <2>2. account'[a] = [s EXCEPT !.by = by]
    BY DEF EraseUser
  <2> HIDE DEF s, by
  <2>3. QED
    BY <2>1, <2>2 DEF Account
<1>3. \A a \in Accounts : Writing(a)' = Writing(a) /\ \A p \in Procs : On(p, a)' <=> On(p, a)
  BY <1>1 DEF Writing, On
<1>4. ASSUME NEW a \in Accounts
      PROVE  Rests(a)'
  BY <1>1, <1>2, <1>3 DEF ListsOK, ListOK, Rests
<1>5. ASSUME NEW a \in Accounts, NEW p \in Procs, On(p, a), req[p].alone
      PROVE  Completes(p, a)'
  <2>1. Completes(p, a) /\ account'[a].exists = account[a].exists
        /\ account'[a].allowed = account[a].allowed \ {u}
    BY <1>2 DEF ListsOK, ListOK
  <2>2. req[p].at = "write" /\ account[a].exists /\ ~req[p].asks /\ ~mixed[a] =>
          req[p].list \ gone' = want[a] \ gone'
    BY <1>1, <1>5, <2>1 DEF Completes
  <2>3. req[p].at = "list" /\ account[a].exists /\ (req[p].asks \/ ~mixed[a]) =>
          (account'[a].allowed \cup req[p].list) \ gone' = want[a] \ gone'
    BY <1>1, <1>5, <2>1 DEF Completes
  <2>4. QED
    BY <1>1, <1>3, <1>5, <2>1, <2>2, <2>3 DEF Completes
<1>6. \A a \in Accounts, p \in Procs : Completes(p, a)'
  BY <1>1, <1>3, <1>5 DEF Completes
<1>7. QED
  BY <1>4, <1>6 DEF ListsOK, ListOK

LEMMA ListStep == TypeInv /\ ListsOK /\ Next => ListsOK'
<1> SUFFICES ASSUME TypeInv, ListsOK, Next PROVE ListsOK'
  OBVIOUS
<1>1. CASE BillingStep
  BY <1>1 DEF BillingStep, ListsOK, ListOK, Rests, Completes, On, Writing
<1>2. ASSUME NEW p \in Procs, NEW u \in Users, NEW f \in Families, NEW L \in SUBSET Users,
             CheckPlan(p, u, f, L)
      PROVE  ListsOK'
  <2> DEFINE stage == IF IsPro(plan[f]) THEN "insert" ELSE "count"
             r == [Idle EXCEPT !.at = stage, !.user = u, !.family = f, !.list = L, !.asks = TRUE]
  <2>1. /\ req' = [req EXCEPT ![p] = r] /\ UNCHANGED <<account, gone, want, mixed>>
        /\ req[p].at = "idle"
    BY <1>2 DEF CheckPlan, Idle
  <2>2. r.at \in {"insert", "count"}
    BY DEF Idle
  <2>3. req'[p] = r
    BY <2>1 DEF TypeInv, ReqOK
  <2> HIDE DEF r
  <2>4. \A a \in Accounts : Completes(p, a)'
    BY <2>2, <2>3 DEF Completes, On
  <2>5. QED
    BY <2>1, <2>2, <2>4, ListReads
<1>3. ASSUME NEW p \in Procs, CountAccounts(p)
      PROVE  ListsOK'
  <2> DEFINE r == [req[p] EXCEPT !.at = "insert"]
  <2>1. UNCHANGED <<account, gone, want, mixed>> /\ req[p].at = "count"
    BY <1>3 DEF CountAccounts
  <2>2. CASE Finish(p)
    BY <2>1, <2>2, ListDrops DEF Writing
  <2>3. CASE req' = [req EXCEPT ![p] = r]
    <3>1. r.at = "insert" /\ req'[p] = r
      BY <2>3 DEF TypeInv, ReqOK, Request
    <3> HIDE DEF r
    <3>2. \A a \in Accounts : Completes(p, a)'
      BY <3>1 DEF Completes, On
    <3>3. QED
      BY <2>1, <2>3, <3>1, <3>2, ListReads
  <2>4. QED
    BY <1>3, <2>2, <2>3 DEF CountAccounts
<1>4. ASSUME NEW p \in Procs, NEW u \in Users, NEW a \in Accounts, FindRow(p, u, a)
      PROVE  ListsOK'
  <2> DEFINE free == Writing(a) = {}
             r == [Idle EXCEPT !.at = "read", !.user = u, !.family = account[a].family,
                               !.account = a, !.alone = free]
  <2>1. /\ req' = [req EXCEPT ![p] = r] /\ UNCHANGED <<account, gone, want, mixed>>
        /\ req[p].at = "idle"
    BY <1>4 DEF FindRow, Idle
  <2>2. r.at = "read" /\ r.account = a /\ r.alone = free
    BY DEF Idle
  <2>3. req'[p] = r /\ \A q \in Procs \ {p} : req'[q] = req[q]
    BY <2>1 DEF TypeInv, ReqOK
  <2> HIDE DEF r
  <2>4. Writing(a)' = Writing(a)
    BY <2>1, <2>2, <2>3 DEF Writing
  <2>5. \A b \in Accounts : Completes(p, b)'
    BY <2>2, <2>3, <2>4 DEF Completes, On
  <2>6. QED
    BY <2>1, <2>2, <2>5, ListReads
<1>5. ASSUME NEW p \in Procs,
             \/ Rename(p) \/ (\E read \in SUBSET Users : RenameBlind(p, read))
             \/ \E L \in SUBSET Users, read \in SUBSET Users : ChangeList(p, L, read)
      PROVE  ListsOK'
  <2>1. req[p].at = "read"
    BY <1>5 DEF Rename, RenameBlind, ChangeList
  <2>2. account[req[p].account].allowed \in SUBSET Users /\ req[p].alone \in BOOLEAN
    BY <2>1 DEF TypeInv, ReqOK, WellFormed, Request, AccountOK, Account
  <2>3. CASE Rename(p)
    BY <2>1, <2>2, <2>3, ListDecides DEF Rename
  <2>4. CASE \E read \in SUBSET Users : RenameBlind(p, read)
    BY <2>1, <2>2, <2>4, ListDecides DEF RenameBlind
  <2>5. CASE \E L \in SUBSET Users, read \in SUBSET Users : ChangeList(p, L, read)
    BY <2>1, <2>2, <2>5, ListDecides DEF ChangeList
  <2>6. QED
    BY <1>5, <2>3, <2>4, <2>5
<1>6. ASSUME NEW p \in Procs, Fail(p)
      PROVE  ListsOK'
  <2>1. \A b \in Accounts : mixed'[b] \/ (mixed'[b] = mixed[b] /\ p \notin Writing(b))
    BY <1>6 DEF Fail, TypeInv, HistoryOK
  <2>2. QED
    BY <1>6, <2>1, ListDrops DEF Fail
<1>7. ASSUME NEW u \in Users, NEW a \in Accounts, Delete(u, a)
      PROVE  ListsOK'
  <2>1. /\ UNCHANGED <<gone, req, want, mixed>> /\ ~account'[a].exists
        /\ \A b \in Accounts \ {a} : account'[b] = account[b]
    BY <1>7 DEF Delete, TypeInv, AccountOK, Nothing
  <2>2. \A b \in Accounts \ {a} : ListOK(b)'
    BY <2>1, ListStays DEF ListsOK
  <2>3. Writing(a)' = Writing(a)
    BY <2>1 DEF Writing
  <2>4. ListOK(a)'
    BY <2>1, <2>3 DEF ListsOK, ListOK, Rests, Completes, On
  <2>5. QED
    BY <2>2, <2>4 DEF ListsOK
<1>8. QED
  BY <1>1, <1>2, <1>3, <1>4, <1>5, <1>6, <1>7, ListInsertAccount, ListClear,
     ListInsertAllowed, ListErase DEF Next

\* Whatever requests, failures, deletions and departures meet, the list of an
\* account at rest is the one last asked for, unless a write of it was mixed up in
\* one of the ways that mixed records.
THEOREM ListsHold == Spec => []ListAsAsked
<1>1. Init => ListsOK
  BY DEF Init, ListsOK, ListOK, Rests, Completes, On, Idle, Nothing
<1>2. TypeInv /\ ListsOK /\ [Next]_vars => ListsOK'
  <2>1. UNCHANGED vars /\ ListsOK => ListsOK'
    BY DEF vars, ListsOK, ListOK, Rests, Completes, On, Writing
  <2>2. QED
    BY <2>1, ListStep
<1>3. ListsOK => ListAsAsked
  BY DEF ListsOK, ListOK, Rests, ListAsAsked, Writing
<1>4. TypeInv /\ [Next]_vars => TypeInv'
  BY TypeStep, TypeStays
<1>5. QED
  BY <1>1, <1>2, <1>3, <1>4, TypeInit, PTL DEF Spec
=============================================================================
