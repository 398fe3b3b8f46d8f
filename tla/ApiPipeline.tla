------------------------------ MODULE ApiPipeline ------------------------------
(***************************************************************************)
(* What every request passes through before and after its handler (Handler *)
(* in server.go): the log, the body limit, the rate limiter, injected      *)
(* faults, and authentication with remembered nonces.  Requests run        *)
(* concurrently, a client may go away and its statements then fail, it     *)
(* retries as it is told, a test follows the log, and a request may reset  *)
(* the database.                                                           *)
(***************************************************************************)
EXTENDS RateLimiter, RequestLog

CONSTANTS
  Clients,
  Nonces,
  Requests,    \* what clients send: see Request
  Skew,        \* how old a WSSE header may be
  FollowLimit, ViewLimit,  \* rows a test reads at a time, and rows the dashboard shows
  MaxTime, MaxCalls        \* bounds on the clock and on the requests of a behaviour

\* "reset" is POST /_ctl/reset.  time is when a WSSE header was created, or
\* when a bearer token expires; a genuine one has the right digest or signature.
Request == [path: {"api", "reset"}, big: BOOLEAN, key: Keys, scheme: {"wsse", "bearer"},
            nonce: Nonces, time: Nat, genuine: BOOLEAN, permitted: BOOLEAN]

ASSUME PipelineAssumption ==
  /\ Requests \subseteq Request /\ Skew \in Nat
  /\ FollowLimit \in Nat \ {0} /\ ViewLimit \in Nat \ {0} /\ MaxTime \in Nat /\ MaxCalls \in Nat

VARIABLES
  nonces,   \* table wsse_nonces
  pc,       \* the step each request is about to take, or how it ended
  request,  \* what it asks
  row,      \* the id of its row in the log
  since,    \* the cursor of a test that follows the log
  \* Histories.
  told,     \* what a refused client was told: see Told
  admitted, \* when each caller was admitted, in the latest span of a window: see Admission
  bearers,  \* how many requests each nonce has authenticated
  followed, \* the rows the test was given
  wiped, calls

serving == <<pc, request, row>>
rates == <<windows, told, admitted>>
auths == <<nonces, bearers>>
logs == <<log, nextLog>>
follower == <<since, followed>>
vars == <<now, rates, logs, auths, serving, follower, wiped, calls>>

Resting == {"idle", "done", "panicked"}
Steps == {"rate", "refuse", "fault", "auth", "nonce", "handle", "log", "trim"}
NoRequest == [path |-> "none"]

\* The window that refused a caller, how often in a row although it came back
\* when it was told, and when it was told to come back.
Told == [key: Keys, resetAt: Nat, strikes: Nat, retryAt: Nat]
NotTold == [key |-> CHOOSE k \in Keys : TRUE, resetAt |-> 0, strikes |-> 0, retryAt |-> 0]

\* When, in which window, and as which of its requests.
Admission == [at: Nat, window: Nat, nth: Nat \ {0}]

Init ==
  /\ now = 0 /\ windows = [k \in {} |-> NewWindow]
  /\ log = {} /\ nextLog = 1
  /\ nonces = {} /\ bearers = [n \in Nonces |-> 0]
  /\ pc = [c \in Clients |-> "idle"]
  /\ request = [c \in Clients |-> NoRequest]
  /\ row = [c \in Clients |-> 0]
  /\ since = 0 /\ followed = {}
  /\ told = [c \in Clients |-> NotTold]
  /\ admitted = [k \in Keys |-> {}]
  /\ wiped = FALSE /\ calls = 0

-----------------------------------------------------------------------------
At(c, step) == pc[c] = step
GoTo(c, step) == pc' = [pc EXCEPT ![c] = step]
Key(c) == request[c].key

\* A request ends; its context and what it read are gone.
Finish(c, how) == GoTo(c, how) /\ request' = [request EXCEPT ![c] = NoRequest]

Tick ==
  /\ now < MaxTime /\ now' = now + 1
  /\ admitted' = [k \in Keys |-> {a \in admitted[k] : now + 1 - a.at <= Window}]
  /\ UNCHANGED <<windows, told, logs, auths, serving, follower, wiped, calls>>

\* The same caller again, no earlier than it was told.
Obeys(c, r) == told[c].strikes > 0 /\ r.key = told[c].key /\ now >= told[c].retryAt

\* LimitBody answers a Content-Length over the limit; the limiter and the
\* faults apply to /api/ only.
FirstStep(r) == IF r.big THEN "log" ELSE IF r.path = "api" THEN "rate" ELSE "handle"

Arrive(c, r) ==
  /\ pc[c] \in Resting /\ calls < MaxCalls
  /\ calls' = calls + 1
  /\ request' = [request EXCEPT ![c] = r]
  /\ row' = [row EXCEPT ![c] = 0]
  /\ told' = [told EXCEPT ![c] = IF Obeys(c, r) THEN @ ELSE NotTold]
  /\ GoTo(c, FirstStep(r))
  /\ UNCHANGED <<now, windows, admitted, logs, auths, follower, wiped>>

-----------------------------------------------------------------------------
\* The limiter, outside of everything that may fail.

Admitted(c) ==
  [at |-> now, window |-> WindowOf(Key(c)).resetAt, nth |-> WindowOf(Key(c)).count + 1]

Admit(c) ==
  /\ At(c, "rate") /\ Allowed(Key(c)) /\ Allow(Key(c))
  /\ admitted' = [admitted EXCEPT ![Key(c)] = @ \cup {Admitted(c)}]
  /\ told' = [told EXCEPT ![c] = NotTold]
  /\ GoTo(c, "fault")
  /\ UNCHANGED <<now, request, row, logs, auths, follower, wiped, calls>>

\* Told for now only which window it was.
Refused(c) ==
  LET reset == WindowOf(Key(c)).resetAt
  IN [key |-> Key(c), resetAt |-> reset, retryAt |-> 0,
      strikes |-> IF told[c].resetAt = reset THEN told[c].strikes + 1 ELSE 1]

Refuse(c) ==
  /\ At(c, "rate") /\ ~Allowed(Key(c)) /\ Allow(Key(c))
  /\ told' = [told EXCEPT ![c] = Refused(c)]
  /\ GoTo(c, "refuse")
  /\ UNCHANGED <<now, admitted, request, row, logs, auths, follower, wiped, calls>>

\* 429, with a Retry-After from the clock as it is by now.
SayRetryAfter(c) ==
  /\ At(c, "refuse")
  /\ told' = [told EXCEPT ![c].retryAt = now + Second * RetryAfter(told[c].resetAt, now)]
  /\ GoTo(c, "log")
  /\ UNCHANGED <<now, windows, admitted, request, row, logs, auths, follower, wiped, calls>>

-----------------------------------------------------------------------------
\* faultMiddleware: a rule fires and answers, or none does; that its read of
\* the rules failed is as if there were none.
Inject(c) ==
  /\ At(c, "fault")
  /\ GoTo(c, "log") \/ GoTo(c, "auth")
  /\ UNCHANGED <<now, rates, logs, auths, request, row, follower, wiped, calls>>

-----------------------------------------------------------------------------
\* Authentication, as the outermost layer of the /api/ routes.

\* ParseJWT, and Verify: the skew is symmetric.
Expired(r) == now >= r.time
Stale(r) == r.time - now > Skew \/ now - r.time > Skew
Verifies(r) == r.genuine /\ IF r.scheme = "bearer" THEN ~Expired(r) ELSE ~Stale(r)
\* 403 comes after the nonce was remembered.
AfterAuth(c) == IF request[c].permitted THEN "handle" ELSE "log"

\* Looking the user up fails when there is none, or when the client is gone.
Authenticate(c) ==
  /\ At(c, "auth")
  /\ \/ Verifies(request[c]) /\ request[c].scheme = "wsse" /\ GoTo(c, "nonce")
     \/ Verifies(request[c]) /\ request[c].scheme = "bearer" /\ GoTo(c, AfterAuth(c))
     \/ GoTo(c, "log")
  /\ UNCHANGED <<now, rates, logs, auths, request, row, follower, wiped, calls>>

\* deviation: any nonce is fresh
AlwaysFresh(n) == n \in Nonces
\* INSERT OR IGNORE tells whether the row is new; a client that is gone fails
\* the request, with or without the row.
Fresh(n) == n \notin nonces

RememberNonce(c) ==
  LET n == request[c].nonce
  IN /\ At(c, "nonce")
     /\ \/ Fresh(n) /\ GoTo(c, AfterAuth(c)) /\ bearers' = [bearers EXCEPT ![n] = @ + 1]
           /\ nonces' = nonces \cup {n}
        \/ ~Fresh(n) /\ GoTo(c, "log") /\ UNCHANGED auths
        \/ GoTo(c, "log") /\ UNCHANGED bearers /\ nonces' \in {nonces, nonces \cup {n}}
     /\ UNCHANGED <<now, rates, logs, request, row, follower, wiped, calls>>

-----------------------------------------------------------------------------
\* The handler.

\* Whatever it does to other tables.
Handle(c) ==
  /\ At(c, "handle") /\ request[c].path = "api"
  /\ GoTo(c, "log")
  /\ UNCHANGED <<now, rates, logs, auths, request, row, follower, wiped, calls>>

\* Reset empties the tables and their counters, and no state in memory.
Reset(c) ==
  /\ At(c, "handle") /\ request[c].path = "reset"
  /\ log' = {} /\ nextLog' = 1 /\ nonces' = {}
  /\ wiped' = TRUE
  /\ GoTo(c, "log")
  /\ UNCHANGED <<now, rates, bearers, request, row, follower, calls>>

\* Recover is outside of Logging, which a panic unwinds.
Panic(c) ==
  /\ At(c, "handle") /\ request[c].path = "api"
  /\ Finish(c, "panicked")
  /\ UNCHANGED <<now, rates, logs, auths, row, follower, wiped, calls>>

-----------------------------------------------------------------------------
\* The log, after the answer was written.

Record(c) ==
  /\ AppendRow
  /\ row' = [row EXCEPT ![c] = nextLog]
  /\ IF Trims(nextLog) THEN GoTo(c, "trim") /\ UNCHANGED request ELSE Finish(c, "done")

\* deviation: under the context of the request
LogCancellable(c) ==
  /\ At(c, "log")
  /\ \/ Record(c)
     \/ Finish(c, "done") /\ UNCHANGED <<logs, row>>
  /\ UNCHANGED <<now, rates, auths, follower, wiped, calls>>
Log(c) ==
  /\ At(c, "log") /\ Record(c)
  /\ UNCHANGED <<now, rates, auths, follower, wiped, calls>>

Trim(c) ==
  /\ At(c, "trim")
  /\ log' = Trimmed(row[c])
  /\ Finish(c, "done")
  /\ UNCHANGED <<now, rates, nextLog, auths, row, follower, wiped, calls>>

\* GET /_ctl/requests?since=, which stays out of the log itself.
Follow ==
  /\ \E last \in EntriesSince(since, FollowLimit) :
       /\ \A e \in EntriesSince(since, FollowLimit) : e <= last
       /\ since' = last
  /\ followed' = followed \cup EntriesSince(since, FollowLimit)
  /\ UNCHANGED <<now, rates, logs, auths, serving, wiped, calls>>

\* buildRequestsView: what the dashboard shows, which it then reverses.
Shown == EntriesSince(0, ViewLimit)

-----------------------------------------------------------------------------
Serve(c) ==
  \/ Admit(c) \/ Refuse(c) \/ SayRetryAfter(c) \/ Inject(c)
  \/ Authenticate(c) \/ RememberNonce(c)
  \/ Handle(c) \/ Reset(c) \/ Panic(c) \/ Log(c) \/ Trim(c)
Next ==
  \/ Tick \/ Follow
  \/ \E c \in Clients : Serve(c) \/ \E r \in Requests : Arrive(c, r)

Spec == Init /\ [][Next]_vars

-----------------------------------------------------------------------------
\* Tables, counters and requests have their types, and every caller's window
\* is one of the callers'.
TypeOK ==
  /\ now \in 0..MaxTime /\ nextLog \in Nat \ {0} /\ log \subseteq 1..(nextLog - 1)
  /\ DOMAIN windows \subseteq Keys
  /\ \A k \in DOMAIN windows : windows[k] \in [count: Nat, resetAt: Nat]
  /\ nonces \subseteq Nonces /\ bearers \in [Nonces -> Nat]
  /\ pc \in [Clients -> Resting \cup Steps]
  /\ request \in [Clients -> Requests \cup {NoRequest}]
  /\ \A c \in Clients : pc[c] \in Steps => request[c] \in Requests
  /\ row \in [Clients -> Nat] /\ told \in [Clients -> Told]
  /\ admitted \in [Keys -> SUBSET Admission]
  /\ since \in Nat /\ followed \subseteq Nat
  /\ wiped \in BOOLEAN /\ calls \in 0..MaxCalls

\* In no span of one window is a caller admitted more than twice its limit,
\* and a sweep, another caller or a Reset gives it no more (ratelimit.go:40).
RateIsBounded == \A k \in Keys : Cardinality(admitted[k]) <= 2 * Limit

\* Retry-After rounds down, so that one window may refuse a client again that
\* came back when it was told; it does so at most once (ratelimit.go:86).
RetryIsAdmitted == \A c \in Clients : told[c].strikes <= 2

Trimming == \E c \in Clients : At(c, "trim")

\* A trim, which runs after other requests have appended, never takes one of
\* the newest LogMax rows, and no trim is lost: between two trims the log
\* exceeds its maximum by fewer rows than trims are apart (requestlog.go:41).
LogKeepsNewest ==
  ~wiped => /\ \A id \in 1..(nextLog - 1) : id >= nextLog - LogMax => id \in log
            /\ ~Trimming => Cardinality(log) < LogMax + TrimEvery

\* A request that was answered is in the log, also when its client did not
\* wait for the answer, unless as many rows as are kept came later (log.go:122).
AnsweredIsLogged ==
  ~wiped => \A c \in Clients : At(c, "done") => row[c] # 0 /\ (row[c] \in log \/ row[c] < nextLog - LogMax)

\* A test that polls with the id of the last row it saw misses none of the
\* rows that are in the log (requestlog.go:88).
FollowerMissesNothing == ~wiped => \A id \in log : id <= since => id \in followed

\* Of concurrent requests with one nonce at most one is authenticated, and
\* never again once the nonce was used, until a Reset forgets it (apiuser.go:58).
NonceSpentByOne ==
  ~wiped => \A n \in Nonces : bearers[n] <= 1 /\ (bearers[n] = 1 => n \in nonces)

\* "Newest first: the thing that just happened is what you came to look at"
\* (dashboard_handlers.go:81): what just happened is among the rows it shows.
NewestIsShown == log # {} /\ ~wiped => \E e \in Shown : \A d \in log : d <= e
=============================================================================
