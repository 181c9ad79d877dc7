---------------------------- MODULE RateLimiter ----------------------------
(***************************************************************************)
(* The limiter in front of login, registration and elevation               *)
(* (internal/middleware/rate_limit.go): a window per key that begins with  *)
(* its first request, in the memory of each replica.  Allow and cleanup    *)
(* hold the mutex, so each is one step.                                    *)
(***************************************************************************)
EXTENDS Integers, FiniteSets

CONSTANTS
  Replicas, Keys,            \* API instances; clients
  MaxPerWindow, Window,      \* max and window of NewInMemoryRateLimiter
  LastInstant, MaxAsked, MaxRestarts   \* bounds of the model

ASSUME LimiterAssumption ==
  /\ MaxPerWindow \in Nat \ {0} /\ Window \in Nat \ {0}
  /\ LastInstant \in Nat /\ MaxAsked \in Nat /\ MaxRestarts \in Nat
  /\ IsFiniteSet(Replicas)

VARIABLES
  instant,
  entries,    \* rl.entries of each replica; NoEntry where there is none
  admitted,   \* history: the requests let through
  denied,     \* history: the requests that got 429
  asked,      \* how many requests have come
  restarts    \* how often a replica has started again

limiterVars == <<instant, entries, admitted, denied, asked, restarts>>

NoEntry == [count |-> 0, resetAt |-> -1]
Ask(r, k) == [replica : {r}, key : {k}, at : {instant}, nth : {asked}]

LimiterInit ==
  /\ instant = 0
  /\ entries = [r \in Replicas |-> [k \in Keys |-> NoEntry]]
  /\ admitted = {} /\ denied = {} /\ asked = 0
  /\ restarts = 0

\* now.After(e.resetAt); an absent entry is older than any.
Expired(e) == instant > e.resetAt

HasRoom(e) == e.count < MaxPerWindow

\* Allow: a new window, or one more in the window, or 429.
Allow(r, k) ==
  LET e == entries[r][k] IN
  /\ asked < MaxAsked /\ asked' = asked + 1
  /\ \/ /\ Expired(e)
        /\ entries' = [entries EXCEPT ![r][k] = [count |-> 1, resetAt |-> instant + Window]]
        /\ admitted' = admitted \cup Ask(r, k) /\ UNCHANGED denied
     \/ /\ ~Expired(e) /\ HasRoom(e)
        /\ entries' = [entries EXCEPT ![r][k].count = @ + 1]
        /\ admitted' = admitted \cup Ask(r, k) /\ UNCHANGED denied
     \/ /\ ~Expired(e) /\ ~HasRoom(e)
        /\ denied' = denied \cup Ask(r, k) /\ UNCHANGED <<entries, admitted>>
  /\ UNCHANGED <<instant, restarts>>

\* Mutant of Cleanup: every entry goes.
CleanupAll(r) ==
  /\ entries' = [entries EXCEPT ![r] = [k \in Keys |-> NoEntry]]
  /\ UNCHANGED <<instant, admitted, denied, asked, restarts>>

\* cleanup: the ticker's goroutine comes by at any time.
Cleanup(r) ==
  /\ entries' = [entries EXCEPT ![r] = [k \in Keys |-> IF Expired(@[k]) THEN NoEntry ELSE @[k]]]
  /\ UNCHANGED <<instant, admitted, denied, asked, restarts>>

\* The memory goes with the process.
Reboot(r) ==
  /\ restarts < MaxRestarts /\ restarts' = restarts + 1
  /\ entries' = [entries EXCEPT ![r] = [k \in Keys |-> NoEntry]]
  /\ UNCHANGED <<instant, admitted, denied, asked>>

Pass ==
  /\ instant < LastInstant /\ instant' = instant + 1
  /\ UNCHANGED <<entries, admitted, denied, asked, restarts>>

LimiterNext ==
  \/ \E r \in Replicas, k \in Keys : Allow(r, k)
  \/ \E r \in Replicas : Cleanup(r) \/ Reboot(r)
  \/ Pass

LimiterSpec == LimiterInit /\ [][LimiterNext]_limiterVars

-----------------------------------------------------------------------------
(* Properties.                                                             *)

Ever == [replica : Replicas, key : Keys, at : 0..LastInstant, nth : 0..MaxAsked]

\* Entries and history are well typed, and each request has one answer.
LimiterTypeOK ==
  /\ instant \in 0..LastInstant /\ asked \in 0..MaxAsked
  /\ entries \in [Replicas -> [Keys -> [count : 0..MaxPerWindow, resetAt : Int]]]
  /\ admitted \subseteq Ever /\ denied \subseteq Ever
  /\ Cardinality(admitted) + Cardinality(denied) = asked

\* Within the length of one window a key is admitted at most twice as often as the
\* limit says, by each replica and once more by each restart: a window's end and
\* the beginning of the next may fall into it, but never a third window, and no
\* sweep of cleanup opens one early (internal/middleware/rate_limit.go:30-35, 56-87).
TwiceTheLimit ==
  \A k \in Keys, t \in 0..LastInstant :
    Cardinality({a \in admitted : a.key = k /\ a.at \in t..(t + Window)})
      <= 2 * MaxPerWindow * (Cardinality(Replicas) + restarts)

\* 429 only goes to a key that the same replica has admitted as often as the limit
\* allows within the last window: neither another key nor an older window counts.
DeniedWhenFull ==
  \A d \in denied :
    Cardinality({a \in admitted : /\ a.replica = d.replica /\ a.key = d.key
                                  /\ a.at \in (d.at - Window)..d.at}) >= MaxPerWindow

\* The limit holds from both sides, at the end of a window, beside the sweep and
\* after a restart (internal/middleware/rate_limit.go:56-87).
LimitKept == TwiceTheLimit /\ DeniedWhenFull
=============================================================================
