------------------------------ MODULE RateLimiter ------------------------------
(***************************************************************************)
(* The fixed-window rate limiter (httpx/ratelimit.go).  Its map of windows *)
(* is only read and written under its mutex, so a call of Allow is one     *)
(* step; the header that tells a refused caller when to come back is       *)
(* computed later, from the clock as it is then.                           *)
(***************************************************************************)
EXTENDS Integers, FiniteSets

CONSTANTS
  Keys,     \* callers that have a window of their own
  Limit,    \* requests per window
  Window,   \* its length, in ticks of the clock
  Second,   \* ticks in a second
  SweepAt   \* windows the map holds before it is swept

ASSUME RateAssumption ==
  /\ Keys # {} /\ Limit \in Nat \ {0} /\ Window \in Nat \ {0} /\ Second \in Nat \ {0} /\ SweepAt \in Nat

VARIABLES
  now,      \* the clock
  windows   \* the window of each caller that has one

NewWindow == [count |-> 0, resetAt |-> now + Window]

\* A window lasts to the very instant of its reset.
Over(w) == now > w.resetAt

\* deviation: sweeps the windows that are still open as well
SweptBare(ws) == IF Cardinality(DOMAIN ws) > SweepAt THEN [k \in {} |-> NewWindow] ELSE ws
Swept(ws) ==
  IF Cardinality(DOMAIN ws) > SweepAt
    THEN [k \in {j \in DOMAIN ws : ~Over(ws[j])} |-> ws[k]]
    ELSE ws

Rolls(k) == k \notin DOMAIN windows \/ Over(windows[k])
WindowOf(k) == IF Rolls(k) THEN NewWindow ELSE windows[k]
Rolled(k) ==
  IF Rolls(k) THEN Swept([j \in DOMAIN windows \cup {k} |-> IF j = k THEN NewWindow ELSE windows[j]])
              ELSE windows

\* Refused requests count as well; they never move the reset.
Allowed(k) == WindowOf(k).count < Limit
Allow(k) ==
  windows' = [j \in DOMAIN Rolled(k) |-> IF j = k THEN [WindowOf(k) EXCEPT !.count = @ + 1] ELSE Rolled(k)[j]]

\* deviation: the whole seconds that are left, also none
RetryAtOnce(resetAt, t) == IF t > resetAt THEN 0 ELSE (resetAt - t) \div Second
\* Retry-After: the seconds that are left, rounded down, and at least one.
RetryAfter(resetAt, t) == IF t + Second > resetAt THEN 1 ELSE (resetAt - t) \div Second
=============================================================================
