---------------------------- MODULE RateLimiter ----------------------------
(***************************************************************************)
(* auth-service's rate limiter: fixed windows, one Redis counter per key   *)
(* and window, incremented and given its time to live by one pipeline.     *)
(* Every authenticated request ends in a hit.                              *)
(*                                                                         *)
(* A hit takes its timestamp before it calls Redis, so that its increment  *)
(* may arrive in a later window than the one it counts in, when Redis may  *)
(* have dropped the counter.                                               *)
(***************************************************************************)
EXTENDS Naturals

CONSTANTS
  Buckets,    \* one for each API key
  Hits,       \* concurrent calls of hit()
  Limit,      \* requests_per_minute of a key
  Window,     \* WINDOW_SECONDS
  MaxDelay,   \* the longest from a hit's timestamp to its increment
  RedisFails, \* whether Redis may not answer
  MaxClock    \* bound on the clock

ASSUME LimiterAssumption ==
  /\ Limit \in Nat \ {0}
  /\ Window \in Nat \ {0}
  /\ MaxDelay \in 0 .. Window
  /\ RedisFails \in BOOLEAN
  /\ MaxClock \in Nat

VARIABLES
  clock,
  counters, \* Redis: the count in each window, and when it expires
  granted,  \* requests let through in each window (history)
  pending   \* the hits between their timestamp and their increment

limiterVars == <<clock, counters, granted, pending>>

WindowStart(t) == t - (t % Window)

Windows == 0 .. MaxClock \* by their first second
Counter == [count : 0 .. Limit + 1, until : Nat]
NoCounter == [count |-> 0, until |-> 0]
Pending == [hit : Hits, bucket : Buckets, stamp : 0 .. MaxClock]

LimiterTypeOK ==
  /\ clock \in 0 .. MaxClock
  /\ counters \in [Buckets \X Windows -> Counter]
  /\ granted \in [Buckets \X Windows -> Nat]
  /\ pending \subseteq Pending

LimiterInit ==
  /\ clock = 0
  /\ counters = [bw \in Buckets \X Windows |-> NoCounter]
  /\ granted = [bw \in Buckets \X Windows |-> 0]
  /\ pending = {}

Stamp(h, b) ==
  /\ \A p \in pending : p.hit # h
  /\ pending' = pending \cup {[hit |-> h, bucket |-> b, stamp |-> clock]}
  /\ UNCHANGED <<clock, counters, granted>>

\* What INCR returns; counts beyond the limit are not told apart.
NextCount(b, w) ==
  IF counters[<<b, w>>].count > Limit THEN Limit + 1 ELSE counters[<<b, w>>].count + 1

\* Mutant: the counter ends with its window.
CounterExpiryAtWindowEnd(w) == w + Window

CounterExpiry(w) == clock + 2 * Window

\* INCR and EXPIRE, in one transaction.
Increment(b, w) ==
  counters' = [counters EXCEPT ![<<b, w>>] = [count |-> NextCount(b, w),
                                          until |-> CounterExpiry(w)]]

Grant(p) ==
  LET w == WindowStart(p.stamp) IN
  /\ NextCount(p.bucket, w) <= Limit
  /\ Increment(p.bucket, w)
  /\ granted' = [granted EXCEPT ![<<p.bucket, w>>] = @ + 1]
  /\ pending' = pending \ {p}
  /\ UNCHANGED clock

\* A request that is refused has been counted all the same.
Refuse(p) ==
  LET w == WindowStart(p.stamp) IN
  /\ NextCount(p.bucket, w) > Limit
  /\ Increment(p.bucket, w)
  /\ pending' = pending \ {p}
  /\ UNCHANGED <<clock, granted>>

\* Redis does not answer, with or without having counted: the request passes.
FailOpen(p) ==
  /\ RedisFails
  /\ Increment(p.bucket, WindowStart(p.stamp)) \/ UNCHANGED counters
  /\ pending' = pending \ {p}
  /\ UNCHANGED <<clock, granted>>

\* The hits in progress reach Redis in time; Redis drops counters that expire.
LimiterTick ==
  /\ clock < MaxClock
  /\ \A p \in pending : clock < p.stamp + MaxDelay
  /\ clock' = clock + 1
  /\ counters' = [bw \in Buckets \X Windows |->
                    IF clock + 1 < counters[bw].until THEN counters[bw]
                    ELSE NoCounter]
  /\ UNCHANGED <<granted, pending>>

LimiterNext ==
  \/ \E h \in Hits, b \in Buckets : Stamp(h, b)
  \/ \E p \in pending : Grant(p) \/ Refuse(p) \/ FailOpen(p)
  \/ LimiterTick

LimiterSpec == LimiterInit /\ [][LimiterNext]_limiterVars

-----------------------------------------------------------------------------
\* No key gets more than its budget in a window, and so no more than twice its
\* budget in any span of a window's length, although increments arrive late and
\* Redis drops counters.  (Requests Redis has not answered are not counted.)
WindowBudget ==
  \A b \in Buckets, w \in Windows : granted[<<b, w>>] <= Limit
=============================================================================
