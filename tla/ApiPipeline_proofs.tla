-------------------------- MODULE ApiPipeline_proofs --------------------------
(***************************************************************************)
(* What the pipeline guarantees for any clients, callers and requests, any *)
(* limits of the limiter and the log, and any clock.                       *)
(***************************************************************************)
EXTENDS ApiPipeline, FiniteSetTheorems, TLAPS

-----------------------------------------------------------------------------
(* Steps *)

\* What one request does.
StepOf(c) == Serve(c) \/ \E r \in Requests : Arrive(c, r)

LEMMA OthersAreKept ==
  ASSUME TypeOK, NEW c \in Clients, StepOf(c), NEW d \in Clients \ {c}
  PROVE  pc'[d] = pc[d] /\ request'[d] = request[d] /\ row'[d] = row[d] /\ told'[d] = told[d]
<1> USE DEF TypeOK, GoTo, Finish, Record, serving, rates
<1>1. CASE Serve(c)
  BY <1>1 DEF Serve, Admit, Refuse, SayRetryAfter, Inject, Authenticate, RememberNonce, Handle, Reset, Panic, Log, Trim
<1>2. CASE \E r \in Requests : Arrive(c, r)
  BY <1>2 DEF Arrive
<1> QED
  BY <1>1, <1>2 DEF StepOf

\* Of the steps of a request only these touch the limiter, the nonces and the log.
LEMMA LimiterSteps ==
  ASSUME NEW c \in Clients, StepOf(c)
  PROVE  now' = now /\ (Admit(c) \/ Refuse(c) \/ UNCHANGED <<windows, admitted>>)
BY DEF StepOf, Serve, Admit, Refuse, SayRetryAfter, Inject, Authenticate, RememberNonce, Handle, Reset, Panic, Log,
       Trim, Arrive, rates

LEMMA NonceSteps ==
  ASSUME NEW c \in Clients, StepOf(c)
  PROVE  RememberNonce(c) \/ Reset(c) \/ UNCHANGED auths
BY DEF StepOf, Serve, Admit, Refuse, SayRetryAfter, Inject, Authenticate, RememberNonce, Handle, Reset, Panic, Log,
       Trim, Arrive, auths

LEMMA LogSteps ==
  ASSUME TypeOK, NEW c \in Clients, StepOf(c)
  PROVE  /\ UNCHANGED follower /\ (wiped => wiped')
         /\ \/ Log(c) \/ Trim(c) \/ wiped'
            \/ /\ UNCHANGED logs /\ ~At(c, "trim") /\ ~At(c, "done")' /\ ~At(c, "trim")' /\ row'[c] \in {row[c], 0}
<1> USE DEF TypeOK, GoTo, Finish, At, logs, follower, serving, Resting, AfterAuth, FirstStep
<1>1. CASE Serve(c)
  BY <1>1 DEF Serve, Admit, Refuse, SayRetryAfter, Inject, Authenticate, RememberNonce, Handle, Reset, Panic, Log, Trim
<1>2. CASE \E r \in Requests : Arrive(c, r)
  BY <1>2 DEF Arrive
<1> QED
  BY <1>1, <1>2 DEF StepOf

-----------------------------------------------------------------------------
(* Typing *)

LEMMA WindowsTyped ==
  ASSUME TypeOK, NEW k \in Keys
  PROVE  /\ WindowOf(k) \in [count: Nat, resetAt: Nat]
         /\ DOMAIN Rolled(k) \subseteq Keys
         /\ \A j \in DOMAIN Rolled(k) : Rolled(k)[j] \in [count: Nat, resetAt: Nat]
<1>1. NewWindow \in [count: Nat, resetAt: Nat]
  BY RateAssumption, PipelineAssumption DEF NewWindow, TypeOK
<1>2. WindowOf(k) \in [count: Nat, resetAt: Nat]
  BY <1>1 DEF WindowOf, Rolls, TypeOK
<1> DEFINE ws == [j \in DOMAIN windows \cup {k} |-> IF j = k THEN NewWindow ELSE windows[j]]
<1>3. DOMAIN ws \subseteq Keys /\ \A j \in DOMAIN ws : ws[j] \in [count: Nat, resetAt: Nat]
  BY <1>1 DEF TypeOK
<1>4. Rolled(k) = Swept(ws) \/ Rolled(k) = windows
  BY DEF Rolled
<1> HIDE DEF ws
<1>5. DOMAIN Swept(ws) \subseteq DOMAIN ws /\ \A j \in DOMAIN Swept(ws) : Swept(ws)[j] = ws[j]
  BY DEF Swept
<1> QED
  BY <1>2, <1>3, <1>4, <1>5 DEF TypeOK

LEMMA AllowTyped ==
  ASSUME TypeOK, NEW k \in Keys, Allow(k)
  PROVE  DOMAIN windows' \subseteq Keys /\ \A j \in DOMAIN windows' : windows'[j] \in [count: Nat, resetAt: Nat]
<1>1. WindowOf(k).count + 1 \in Nat /\ [WindowOf(k) EXCEPT !.count = @ + 1] \in [count: Nat, resetAt: Nat]
  BY WindowsTyped
<1> QED
  BY <1>1, WindowsTyped DEF Allow

LEMMA TypeInit == Init => TypeOK
<1>1. 0 \in 0..MaxTime /\ 0 \in 0..MaxCalls /\ 1 \in Nat \ {0} /\ "idle" \notin Steps
  BY PipelineAssumption DEF Steps
<1>2. NotTold \in Told /\ DOMAIN [k \in {} |-> NewWindow] = {}
  BY RateAssumption DEF NotTold, Told
<1> SUFFICES ASSUME Init PROVE TypeOK
  OBVIOUS
<1>3. DOMAIN windows = {}
  BY <1>2 DEF Init
<1>4. now \in 0..MaxTime /\ nextLog \in Nat \ {0} /\ log \subseteq 1..(nextLog - 1) /\ calls \in 0..MaxCalls
  BY <1>1 DEF Init
<1>5. /\ pc \in [Clients -> Resting \cup Steps] /\ request \in [Clients -> Requests \cup {NoRequest}]
      /\ \A c \in Clients : pc[c] \notin Steps
  BY <1>1 DEF Init, Resting
<1>6. row \in [Clients -> Nat] /\ told \in [Clients -> Told] /\ bearers \in [Nonces -> Nat]
  BY <1>2 DEF Init
<1>7. admitted \in [Keys -> SUBSET Admission]
  BY DEF Init
<1> QED
  BY <1>3, <1>4, <1>5, <1>6, <1>7 DEF Init, TypeOK

LEMMA EntriesAreLogged == TypeOK => \A e \in EntriesSince(since, FollowLimit) : e \in log /\ e > since /\ e \in Nat
<1>1. \A e \in EntriesSince(since, FollowLimit) : e \in log /\ e > since
  BY Zenon DEF EntriesSince
<1>2. TypeOK => \A e \in log : e \in Nat
  BY DEF TypeOK
<1> QED
  BY <1>1, <1>2

LEMMA TypeTime ==
  ASSUME TypeOK, Tick \/ Follow
  PROVE  TypeOK'
<1>1. CASE Tick
  <2>1. now' \in 0..MaxTime /\ admitted' \in [Keys -> SUBSET Admission]
    BY <1>1, PipelineAssumption DEF Tick, TypeOK
  <2> QED
    BY <1>1, <2>1 DEF Tick, TypeOK, logs, auths, serving, follower, Steps
<1>2. CASE Follow
  <2>1. \A e \in EntriesSince(since, FollowLimit) : e \in Nat
    BY EntriesAreLogged
  <2>2. since' \in Nat /\ followed' \subseteq Nat
    BY <1>2, <2>1 DEF Follow, TypeOK
  <2> QED
    BY <1>2, <2>2 DEF Follow, TypeOK, rates, logs, auths, serving, Steps
<1> QED
  BY <1>1, <1>2

LEMMA TypeRate ==
  ASSUME TypeOK, NEW c \in Clients, Admit(c) \/ Refuse(c) \/ SayRetryAfter(c)
  PROVE  TypeOK'
<1>0. /\ At(c, "rate") \/ At(c, "refuse") => request[c] \in Requests
      /\ request[c] \in Requests => Key(c) \in Keys
      /\ now \in Nat
  BY PipelineAssumption DEF At, TypeOK, Steps, Request, Key
<1>1. CASE Admit(c)
  <2>1. Key(c) \in Keys /\ WindowOf(Key(c)) \in [count: Nat, resetAt: Nat]
    BY <1>0, <1>1, WindowsTyped DEF Admit
  <2>2. Admitted(c) \in Admission
    BY <1>0, <2>1 DEF Admitted, Admission
  <2>3. admitted' \in [Keys -> SUBSET Admission]
    BY <1>1, <2>2 DEF Admit, TypeOK
  <2>4. told' \in [Clients -> Told]
    BY <1>1, RateAssumption DEF Admit, TypeOK, Told, NotTold
  <2>5. DOMAIN windows' \subseteq Keys /\ \A j \in DOMAIN windows' : windows'[j] \in [count: Nat, resetAt: Nat]
    BY <1>1, <2>1, AllowTyped DEF Admit
  <2>6. /\ pc' \in [Clients -> Resting \cup Steps]
        /\ \A d \in Clients : pc'[d] \in Steps => request[d] \in Requests
    BY <1>0, <1>1 DEF Admit, TypeOK, GoTo, Steps
  <2> QED
    BY <1>1, <2>3, <2>4, <2>5, <2>6 DEF Admit, TypeOK, logs, auths, follower
<1>2. CASE Refuse(c)
  <2>1. Key(c) \in Keys /\ WindowOf(Key(c)) \in [count: Nat, resetAt: Nat]
    BY <1>0, <1>2, WindowsTyped DEF Refuse
  <2>2. told[c].strikes + 1 \in Nat
    BY DEF TypeOK, Told
  <2>3. Refused(c) \in Told
    BY <2>1, <2>2 DEF Refused, Told
  <2>4. told' \in [Clients -> Told]
    BY <1>2, <2>3 DEF Refuse, TypeOK
  <2>5. DOMAIN windows' \subseteq Keys /\ \A j \in DOMAIN windows' : windows'[j] \in [count: Nat, resetAt: Nat]
    BY <1>2, <2>1, AllowTyped DEF Refuse
  <2>6. /\ pc' \in [Clients -> Resting \cup Steps]
        /\ \A d \in Clients : pc'[d] \in Steps => request[d] \in Requests
    BY <1>0, <1>2 DEF Refuse, TypeOK, GoTo, Steps
  <2> QED
    BY <1>2, <2>4, <2>5, <2>6 DEF Refuse, TypeOK, logs, auths, follower
<1>3. CASE SayRetryAfter(c)
  <2>1. told[c] \in Told /\ told[c].resetAt \in Nat
    BY DEF TypeOK, Told
  <2> DEFINE at == now + Second * RetryAfter(told[c].resetAt, now)
  <2>2. at \in Nat
    BY <1>0, <2>1, RateAssumption DEF RetryAfter
  <2>3. told' = [told EXCEPT ![c].retryAt = at]
    BY <1>3 DEF SayRetryAfter
  <2> HIDE DEF at
  <2>4. [told[c] EXCEPT !.retryAt = at] \in Told
    BY <2>1, <2>2 DEF Told
  <2>5. told' \in [Clients -> Told]
    BY <2>3, <2>4 DEF TypeOK
  <2>6. /\ pc' \in [Clients -> Resting \cup Steps]
        /\ \A d \in Clients : pc'[d] \in Steps => request[d] \in Requests
    BY <1>0, <1>3 DEF SayRetryAfter, TypeOK, GoTo, Steps
  <2> QED
    BY <1>3, <2>5, <2>6 DEF SayRetryAfter, TypeOK, logs, auths, follower
<1> QED
  BY <1>1, <1>2, <1>3

LEMMA TypeRest ==
  ASSUME TypeOK, NEW c \in Clients,
         Inject(c) \/ Authenticate(c) \/ RememberNonce(c) \/ Handle(c) \/ Reset(c) \/ Panic(c) \/ Log(c) \/ Trim(c)
  PROVE  TypeOK'
<1> USE DEF TypeOK, GoTo, Finish, At, logs, auths, rates, follower, Resting, Steps, AfterAuth
<1>1. CASE Inject(c) \/ Authenticate(c) \/ Handle(c) \/ Panic(c)
  BY <1>1 DEF Inject, Authenticate, Handle, Panic
<1>2. CASE RememberNonce(c)
  <2>1. request[c].nonce \in Nonces
    BY <1>2, PipelineAssumption DEF RememberNonce, Request
  <2>2. nonces' \subseteq Nonces /\ bearers' \in [Nonces -> Nat]
    BY <1>2, <2>1 DEF RememberNonce
  <2> QED
    BY <1>2, <2>2 DEF RememberNonce
<1>3. CASE Reset(c)
  BY <1>3 DEF Reset
<1>4. CASE Log(c)
  BY <1>4 DEF Log, Record, AppendRow
<1>5. CASE Trim(c)
  BY <1>5 DEF Trim, Trimmed
<1> QED
  BY <1>1, <1>2, <1>3, <1>4, <1>5

LEMMA TypeArrive ==
  ASSUME TypeOK, NEW c \in Clients, NEW r \in Requests, Arrive(c, r)
  PROVE  TypeOK'
<1>1. FirstStep(r) \in Steps
  BY DEF FirstStep, Steps
<1>2. calls' \in 0..MaxCalls
  BY PipelineAssumption DEF Arrive, TypeOK
<1>3. told' \in [Clients -> Told]
  BY RateAssumption DEF Arrive, TypeOK, Told, NotTold
<1>4. /\ pc' \in [Clients -> Resting \cup Steps] /\ request' \in [Clients -> Requests \cup {NoRequest}]
      /\ \A d \in Clients : pc'[d] \in Steps => request'[d] \in Requests
  BY <1>1 DEF Arrive, TypeOK, GoTo
<1>5. row' \in [Clients -> Nat]
  BY DEF Arrive, TypeOK
<1> QED
  BY <1>2, <1>3, <1>4, <1>5 DEF Arrive, TypeOK, logs, auths, follower

LEMMA TypeNext == TypeOK /\ [Next]_vars => TypeOK'
<1>1. ASSUME TypeOK, UNCHANGED vars PROVE TypeOK'
  BY <1>1 DEF vars, rates, logs, auths, serving, follower, TypeOK
<1> QED
  BY <1>1, TypeTime, TypeRate, TypeRest, TypeArrive DEF Next, Serve

\* Tables, windows, requests and histories stay well typed, and a request that is
\* under way is one of those that were sent.
THEOREM TypeCorrect == Spec => []TypeOK
BY TypeInit, TypeNext, PTL DEF Spec

-----------------------------------------------------------------------------
(* Nonces *)

LEMMA NonceNext == TypeOK /\ NonceSpentByOne /\ [Next]_vars => NonceSpentByOne'
<1> SUFFICES ASSUME TypeOK, NonceSpentByOne, [Next]_vars, ~wiped' PROVE NonceSpentByOne'
  BY DEF NonceSpentByOne
<1>1. ASSUME UNCHANGED auths, wiped => wiped' PROVE NonceSpentByOne'
  BY <1>1 DEF auths, NonceSpentByOne
<1>2. ASSUME NEW c \in Clients, RememberNonce(c) PROVE NonceSpentByOne'
  BY <1>2 DEF RememberNonce, NonceSpentByOne, TypeOK, Fresh, auths
<1>3. ASSUME NEW c \in Clients, StepOf(c) PROVE NonceSpentByOne'
  BY <1>1, <1>2, <1>3, NonceSteps, LogSteps DEF Reset
<1> QED
  BY <1>1, <1>3 DEF Next, StepOf, Tick, Follow, vars

\* The insert decides which one of the requests with a nonce is authenticated
\* (apiuser.go:58).
THEOREM NoncesAreSpentByOne == Spec => []NonceSpentByOne
<1>1. Init => NonceSpentByOne
  BY DEF Init, NonceSpentByOne
<1> QED
  BY <1>1, NonceNext, TypeCorrect, PTL DEF Spec

-----------------------------------------------------------------------------
(* Coming back when told *)

\* A client that was refused once is told a moment less than a second before the
\* end of the window, or a later one; one that was refused twice, a moment after it.
Retries ==
  \A c \in Clients :
    /\ told[c].strikes \in 0..2
    /\ At(c, "refuse") => told[c].strikes > 0
    /\ At(c, "refuse") /\ told[c].strikes = 2 => now > told[c].resetAt - Second
    /\ ~At(c, "refuse") /\ told[c].strikes = 1 => told[c].retryAt > told[c].resetAt - Second
    /\ ~At(c, "refuse") /\ told[c].strikes = 2 => told[c].retryAt > told[c].resetAt
    /\ At(c, "rate") /\ told[c].strikes > 0 => now >= told[c].retryAt

\* The seconds that are left, rounded down.
LEMMA RoundedDown ==
  ASSUME NEW n \in Nat, NEW m \in Nat \ {0}
  PROVE  m * (n \div m) > n - m /\ n \div m \in Nat /\ m * (n \div m) <= n
OBVIOUS

LEMMA RetryMoment ==
  ASSUME NEW resetAt \in Nat, NEW t \in Nat
  PROVE  LET retryAt == t + Second * RetryAfter(resetAt, t)
         IN  /\ retryAt \in Nat /\ retryAt > resetAt - Second
             /\ t > resetAt - Second => retryAt > resetAt
<1>1. CASE t + Second > resetAt
  BY <1>1, RateAssumption DEF RetryAfter
<1>2. CASE t + Second <= resetAt
  <2>1. resetAt - t \in Nat
    BY <1>2, RateAssumption
  <2>2. /\ Second * ((resetAt - t) \div Second) > (resetAt - t) - Second
        /\ (resetAt - t) \div Second \in Nat
    BY <2>1, RoundedDown, RateAssumption
  <2>3. RetryAfter(resetAt, t) = (resetAt - t) \div Second
    BY <1>2, RateAssumption DEF RetryAfter
  <2> DEFINE left == (resetAt - t) \div Second
  <2> HIDE DEF left
  <2>4. Second * left \in Nat /\ Second * left > (resetAt - t) - Second
    BY <2>2, RateAssumption DEF left
  <2> QED
    BY <1>2, <2>3, <2>4, RateAssumption DEF left
<1> QED
  BY <1>1, <1>2, RateAssumption

\* The third refusal by one window would come after its end.
LEMMA RefusedTwiceAtMost ==
  ASSUME TypeOK, Retries, NEW c \in Clients, Refuse(c)
  PROVE  /\ Refused(c).strikes \in 1..2
         /\ Refused(c).strikes = 2 => now > Refused(c).resetAt - Second
<1> DEFINE reset == WindowOf(Key(c)).resetAt
<1>1. At(c, "rate") /\ Key(c) \in Keys /\ now \in Nat /\ reset \in Nat
  <2>1. At(c, "rate") /\ request[c] \in Request
    BY PipelineAssumption DEF Refuse, At, TypeOK, Steps
  <2> QED
    BY <2>1, WindowsTyped, PipelineAssumption DEF Request, Key, TypeOK
<1>2. reset >= now
  <2>1. CASE Rolls(Key(c))
    BY <1>1, <2>1, RateAssumption DEF WindowOf, NewWindow
  <2>2. CASE ~Rolls(Key(c))
    BY <1>1, <2>2, RateAssumption DEF WindowOf, Rolls, Over
  <2> QED
    BY <2>1, <2>2
<1>3. /\ Refused(c).resetAt = reset
      /\ Refused(c).strikes = IF told[c].resetAt = reset THEN told[c].strikes + 1 ELSE 1
  BY DEF Refused
<1> HIDE DEF reset
<1>4. told[c].strikes \in 0..2 /\ told[c].resetAt \in Nat /\ told[c].retryAt \in Nat
  BY DEF Retries, TypeOK, Told
<1>5. CASE told[c].resetAt = reset
  <2>1. /\ told[c].strikes # 2
        /\ told[c].strikes = 1 => now > reset - Second
    BY <1>1, <1>2, <1>4, <1>5, RateAssumption DEF Retries, At
  <2> QED
    BY <1>3, <1>4, <1>5, <2>1
<1> QED
  BY <1>3, <1>5

LEMMA RetriesNext == TypeOK /\ Retries /\ [Next]_vars => Retries'
<1> SUFFICES ASSUME TypeOK, Retries, [Next]_vars PROVE Retries'
  OBVIOUS
<1>0. now \in Nat /\ \A d \in Clients : told[d] \in Told
  BY PipelineAssumption DEF TypeOK
<1>1. ASSUME UNCHANGED <<told, pc>>, now' \in {now, now + 1} PROVE Retries'
  BY <1>0, <1>1, RateAssumption DEF Retries, At, Told
<1>2. ASSUME NEW c \in Clients, StepOf(c) PROVE Retries'
  <2>1. now' = now
    BY <1>2, LimiterSteps
  <2>2. ASSUME NEW d \in Clients \ {c} PROVE told'[d] = told[d] /\ pc'[d] = pc[d]
    BY <1>2, <2>2, OthersAreKept
  <2> DEFINE Kept(d) ==
        /\ told'[d].strikes \in 0..2
        /\ pc'[d] = "refuse" => told'[d].strikes > 0
        /\ pc'[d] = "refuse" /\ told'[d].strikes = 2 => now > told'[d].resetAt - Second
        /\ pc'[d] # "refuse" /\ told'[d].strikes = 1 => told'[d].retryAt > told'[d].resetAt - Second
        /\ pc'[d] # "refuse" /\ told'[d].strikes = 2 => told'[d].retryAt > told'[d].resetAt
        /\ pc'[d] = "rate" /\ told'[d].strikes > 0 => now >= told'[d].retryAt
  <2>3. \A d \in Clients \ {c} : Kept(d)
    BY <2>2 DEF Retries, At
  <2>4. Kept(c)
    <3>1. CASE Admit(c)
      BY <3>1 DEF Admit, GoTo, TypeOK, NotTold
    <3>2. CASE Refuse(c)
      <4>1. told'[c] = Refused(c) /\ pc'[c] = "refuse"
        BY <3>2 DEF Refuse, GoTo, TypeOK
      <4> QED
        BY <3>2, <4>1, RefusedTwiceAtMost
    <3>3. CASE SayRetryAfter(c)
      <4> DEFINE retryAt == now + Second * RetryAfter(told[c].resetAt, now)
      <4>1. /\ pc[c] = "refuse" /\ pc'[c] = "log"
            /\ told' = [told EXCEPT ![c].retryAt = retryAt]
        BY <3>3 DEF SayRetryAfter, GoTo, TypeOK, At
      <4>2. told[c].strikes \in 1..2 /\ (told[c].strikes = 2 => now > told[c].resetAt - Second)
        BY <4>1 DEF Retries, At
      <4>3. /\ retryAt > told[c].resetAt - Second
            /\ now > told[c].resetAt - Second => retryAt > told[c].resetAt
        BY <1>0, RetryMoment DEF Told
      <4> HIDE DEF retryAt
      <4>4. told'[c].retryAt = retryAt /\ told'[c].resetAt = told[c].resetAt /\ told'[c].strikes = told[c].strikes
        BY <1>0, <4>1 DEF TypeOK, Told
      <4> QED
        BY <4>1, <4>2, <4>3, <4>4
    <3>4. ASSUME NEW r \in Requests, Arrive(c, r) PROVE Kept(c)
      <4>1. pc[c] # "refuse" /\ pc'[c] # "refuse"
        BY <3>4 DEF Arrive, GoTo, TypeOK, Resting, FirstStep
      <4>2. (told'[c] = told[c] /\ (told[c].strikes > 0 => now >= told[c].retryAt)) \/ told'[c].strikes = 0
        BY <3>4 DEF Arrive, TypeOK, NotTold, Obeys
      <4> QED
        BY <4>1, <4>2 DEF Retries, At
    <3>5. ASSUME Inject(c) \/ Authenticate(c) \/ RememberNonce(c) \/ Handle(c) \/ Reset(c) \/ Panic(c) \/ Log(c) \/ Trim(c)
          PROVE  Kept(c)
      <4>1. told' = told /\ pc[c] # "refuse" /\ pc'[c] \notin {"refuse", "rate"}
        BY <3>5 DEF Inject, Authenticate, RememberNonce, Handle, Reset, Panic, Log, Trim, Record, Finish, GoTo, At,
                    AfterAuth, TypeOK, rates
      <4> QED
        BY <4>1 DEF Retries, At
    <3> QED
      BY <1>2, <3>1, <3>2, <3>3, <3>4, <3>5 DEF StepOf, Serve
  <2>5. \A d \in Clients : Kept(d)
    BY <2>3, <2>4
  <2> QED
    BY <2>1, <2>5 DEF Retries, At
<1>3. CASE Tick \/ Follow
  BY <1>1, <1>3 DEF Tick, Follow, serving, rates
<1>4. CASE UNCHANGED vars
  BY <1>1, <1>4 DEF vars, serving, rates
<1> QED
  BY <1>2, <1>3, <1>4 DEF Next, StepOf

\* Retry-After rounds down, and one window refuses a client that obeys it twice at
\* most, whatever the window and however long a request takes (ratelimit.go:86).
THEOREM RetriesAreAdmitted == Spec => []RetryIsAdmitted
<1>1. Init => Retries
  BY DEF Init, Retries, NotTold, At
<1>2. Retries => RetryIsAdmitted
  BY DEF Retries, RetryIsAdmitted
<1> QED
  BY <1>1, <1>2, RetriesNext, TypeCorrect, PTL DEF Spec

-----------------------------------------------------------------------------
(* The rate *)

\* Admissions are numbered within their window, and windows of one caller open only
\* when the one before is over; the map has the caller's last window, until it is swept.
Admissions(k) ==
  /\ k \in DOMAIN windows => windows[k].resetAt <= now + Window
  /\ \A a \in admitted[k] :
       /\ a.nth \in 1..Limit /\ a.window <= a.at + Window /\ a.at <= a.window
       /\ a.at <= now /\ now - a.at <= Window
       /\ k \notin DOMAIN windows => now > a.window
       /\ k \in DOMAIN windows => \/ a.window = windows[k].resetAt /\ a.nth <= windows[k].count
                                  \/ a.window + Window < windows[k].resetAt
  /\ \A a, b \in admitted[k] :
       /\ a.window = b.window /\ a.nth = b.nth => a = b
       /\ a.window < b.window => a.window + Window < b.window

Metered == \A k \in Keys : Admissions(k)

\* An open window stays as it is, whoever rolls and sweeps.
LEMMA OpenWindowsStay ==
  ASSUME TypeOK, NEW k \in Keys, Allow(k), NEW j \in Keys \ {k}
  PROVE  \/ (j \in DOMAIN windows' <=> j \in DOMAIN windows) /\ (j \in DOMAIN windows => windows'[j] = windows[j])
         \/ j \in DOMAIN windows /\ Over(windows[j]) /\ j \notin DOMAIN windows'
<1> DEFINE ws == [i \in DOMAIN windows \cup {k} |-> IF i = k THEN NewWindow ELSE windows[i]]
<1>1. (j \in DOMAIN ws <=> j \in DOMAIN windows) /\ (j \in DOMAIN windows => ws[j] = windows[j])
  OBVIOUS
<1>2. Rolled(k) = Swept(ws) \/ Rolled(k) = windows
  BY DEF Rolled
<1> HIDE DEF ws
<1>3. \/ (j \in DOMAIN Swept(ws) <=> j \in DOMAIN ws) /\ (j \in DOMAIN ws => Swept(ws)[j] = ws[j])
      \/ j \in DOMAIN ws /\ Over(ws[j]) /\ j \notin DOMAIN Swept(ws)
  BY DEF Swept
<1>4. DOMAIN windows' = DOMAIN Rolled(k) /\ \A i \in DOMAIN Rolled(k) : i # k => windows'[i] = Rolled(k)[i]
  BY DEF Allow
<1> QED
  BY <1>1, <1>2, <1>3, <1>4

\* The window a request is counted in is in the map afterwards: a new one is not over.
LEMMA CountedWindow ==
  ASSUME TypeOK, NEW k \in Keys, Allow(k)
  PROVE  /\ k \in DOMAIN windows'
         /\ windows'[k].resetAt = WindowOf(k).resetAt /\ windows'[k].count = WindowOf(k).count + 1
<1>1. now \in Nat /\ ~Over(NewWindow)
  BY PipelineAssumption, RateAssumption DEF TypeOK, Over, NewWindow
<1> DEFINE ws == [i \in DOMAIN windows \cup {k} |-> IF i = k THEN NewWindow ELSE windows[i]]
<1>2. k \in DOMAIN ws /\ ws[k] = NewWindow
  OBVIOUS
<1>3. IF Rolls(k) THEN Rolled(k) = Swept(ws) ELSE Rolled(k) = windows
  BY DEF Rolled
<1> HIDE DEF ws
<1>4. k \in DOMAIN Swept(ws)
  BY <1>1, <1>2 DEF Swept
<1>5. k \in DOMAIN Rolled(k)
  BY <1>3, <1>4 DEF Rolls
<1>6. windows'[k] = [WindowOf(k) EXCEPT !.count = @ + 1] /\ k \in DOMAIN windows'
  BY <1>5 DEF Allow
<1> QED
  BY <1>6, WindowsTyped

\* What the request finds its caller's window to be.
LEMMA FoundWindow ==
  ASSUME TypeOK, Metered, NEW k \in Keys
  PROVE  /\ WindowOf(k).resetAt \in now..(now + Window) /\ WindowOf(k).count \in Nat
         /\ \A a \in admitted[k] : \/ a.window = WindowOf(k).resetAt /\ a.nth <= WindowOf(k).count
                                   \/ a.window + Window < WindowOf(k).resetAt
<1> USE RateAssumption, PipelineAssumption DEF TypeOK
<1>0. \A a \in admitted[k] : a.window \in Nat /\ a.nth \in Nat /\ a.at \in Nat
  BY DEF Admission
<1>1. CASE Rolls(k)
  <2>1. WindowOf(k).resetAt = now + Window /\ WindowOf(k).count = 0
    BY <1>1 DEF WindowOf, NewWindow
  <2>2. \A a \in admitted[k] : a.window < now
    BY <1>0, <1>1 DEF Rolls, Over, Metered, Admissions
  <2> QED
    BY <1>0, <2>1, <2>2
<1>2. CASE ~Rolls(k)
  <2>1. k \in DOMAIN windows /\ WindowOf(k) = windows[k] /\ ~Over(windows[k]) /\ windows[k] \in [count: Nat, resetAt: Nat]
    BY <1>2 DEF WindowOf, Rolls
  <2>2. windows[k].resetAt \in now..(now + Window)
    BY <2>1 DEF Over, Metered, Admissions
  <2> QED
    BY <2>1, <2>2 DEF Metered, Admissions
<1> QED
  BY <1>1, <1>2

LEMMA MeteredNext == TypeOK /\ Metered /\ [Next]_vars => Metered'
<1> SUFFICES ASSUME TypeOK, Metered, [Next]_vars PROVE Metered'
  OBVIOUS
<1>0. /\ now \in Nat
      /\ \A k \in Keys : \A a \in admitted[k] : a.window \in Nat /\ a.nth \in Nat /\ a.at \in Nat
      /\ \A k \in DOMAIN windows : windows[k].resetAt \in Nat /\ windows[k].count \in Nat
  BY PipelineAssumption DEF TypeOK, Admission
<1>1. CASE Tick
  <2>1. now' = now + 1 /\ windows' = windows
        /\ \A k \in Keys : admitted'[k] = {a \in admitted[k] : now + 1 - a.at <= Window}
    BY <1>1 DEF Tick
  <2> SUFFICES ASSUME NEW k \in Keys PROVE Admissions(k)'
    BY DEF Metered
  <2>2. Admissions(k) /\ admitted'[k] \subseteq admitted[k] /\ \A a \in admitted'[k] : now + 1 - a.at <= Window
    BY <2>1 DEF Metered
  <2> QED
    BY <1>0, <2>1, <2>2, RateAssumption DEF Admissions
<1>2. ASSUME now' = now, UNCHANGED <<windows, admitted>> PROVE Metered'
  BY <1>2 DEF Metered, Admissions
<1>3. ASSUME NEW c \in Clients, Admit(c) \/ Refuse(c) PROVE Metered'
  <2>1. PICK k \in Keys : k = Key(c) /\ Allow(k) /\ now' = now
    BY <1>3, PipelineAssumption DEF Admit, Refuse, Key, At, TypeOK, Steps, Request
  <2> DEFINE w == WindowOf(k)
             new == Admitted(c)
  <2>2. /\ w.resetAt \in now..(now + Window) /\ w.count \in Nat
        /\ \A a \in admitted[k] : \/ a.window = w.resetAt /\ a.nth <= w.count
                                  \/ a.window + Window < w.resetAt
    BY <2>1, FoundWindow
  <2>3. k \in DOMAIN windows' /\ windows'[k].resetAt = w.resetAt /\ windows'[k].count = w.count + 1
    BY <2>1, CountedWindow
  <2>4. \/ admitted' = admitted
        \/ w.count < Limit /\ admitted' = [admitted EXCEPT ![k] = admitted[k] \cup {new}]
    BY <1>3, <2>1 DEF Admit, Refuse, Allowed
  <2>5. new.at = now /\ new.window = w.resetAt /\ new.nth = w.count + 1
    BY <2>1 DEF Admitted
  <2> HIDE DEF w, new
  <2>6. Admissions(k)'
    <3>1. ASSUME NEW a \in admitted'[k]
          PROVE  a \in admitted[k] \/ (a = new /\ w.count < Limit)
      BY <2>1, <2>4 DEF TypeOK
    <3>2. ASSUME NEW a \in admitted'[k]
          PROVE  /\ a.nth \in 1..Limit /\ a.window <= a.at + Window /\ a.at <= a.window
                 /\ a.at <= now /\ now - a.at <= Window
                 /\ (a.window = w.resetAt /\ a.nth <= w.count + 1) \/ a.window + Window < w.resetAt
      <4>1. CASE a \in admitted[k]
        BY <1>0, <2>1, <2>2, <4>1 DEF Metered, Admissions
      <4>2. CASE a = new /\ w.count < Limit
        BY <1>0, <2>2, <2>5, <4>2, RateAssumption
      <4> QED
        BY <3>1, <4>1, <4>2
    <3>3. ASSUME NEW a \in admitted'[k], NEW b \in admitted'[k]
          PROVE  /\ a.window = b.window /\ a.nth = b.nth => a = b
                 /\ a.window < b.window => a.window + Window < b.window
      <4>1. CASE a \in admitted[k] /\ b \in admitted[k]
        BY <2>1, <4>1 DEF Metered, Admissions
      <4>2. CASE a \in admitted[k] /\ b = new
        BY <1>0, <2>1, <2>2, <2>5, <4>2, RateAssumption
      <4>3. CASE a = new /\ b \in admitted[k]
        BY <1>0, <2>1, <2>2, <2>5, <4>3, RateAssumption
      <4>4. CASE a = new /\ b = new
        BY <2>2, <2>5, <4>4
      <4> QED
        BY <3>1, <4>1, <4>2, <4>3, <4>4
    <3>4. windows'[k].resetAt <= now' + Window
      BY <2>1, <2>2, <2>3
    <3> QED
      BY <2>1, <2>3, <3>2, <3>3, <3>4 DEF Admissions
  <2>7. ASSUME NEW j \in Keys \ {k} PROVE Admissions(j)'
    <3>1. admitted'[j] = admitted[j]
      BY <2>4 DEF TypeOK
    <3>2. \/ (j \in DOMAIN windows' <=> j \in DOMAIN windows) /\ (j \in DOMAIN windows => windows'[j] = windows[j])
          \/ j \in DOMAIN windows /\ Over(windows[j]) /\ j \notin DOMAIN windows'
      BY <2>1, OpenWindowsStay
    <3>3. Admissions(j)
      BY DEF Metered
    <3>4. CASE (j \in DOMAIN windows' <=> j \in DOMAIN windows) /\ (j \in DOMAIN windows => windows'[j] = windows[j])
      BY <2>1, <3>1, <3>3, <3>4 DEF Admissions
    <3>5. CASE j \in DOMAIN windows /\ Over(windows[j]) /\ j \notin DOMAIN windows'
      <4>1. \A a \in admitted[j] : now > a.window
        BY <1>0, <3>3, <3>5, RateAssumption DEF Admissions, Over
      <4> QED
        BY <2>1, <3>1, <3>3, <3>5, <4>1 DEF Admissions
    <3> QED
      BY <3>2, <3>4, <3>5
  <2> QED
    BY <2>6, <2>7 DEF Metered
<1>4. ASSUME NEW c \in Clients, StepOf(c) PROVE Metered'
  BY <1>2, <1>3, <1>4, LimiterSteps
<1>5. CASE Follow \/ UNCHANGED vars
  BY <1>2, <1>5 DEF Follow, vars, rates
<1> QED
  BY <1>1, <1>4, <1>5 DEF Next, StepOf

\* Those of one window are told apart by their numbers.
LEMMA OneWindow ==
  ASSUME Metered, NEW k \in Keys, NEW S \in SUBSET admitted[k], \A a, b \in S : a.window = b.window
  PROVE  IsFiniteSet(S) /\ Cardinality(S) <= Limit
<1> DEFINE nth == [a \in S |-> a.nth]
<1>1. \A a \in S : a.nth \in 1..Limit
  BY DEF Metered, Admissions
<1>2. \A a, b \in S : a.nth = b.nth => a = b
  BY DEF Metered, Admissions
<1>3. nth \in Injection(S, 1..Limit)
  BY <1>1, <1>2 DEF Injection, IsInjective
<1>4. IsFiniteSet(1..Limit) /\ Cardinality(1..Limit) = Limit
  BY FS_Interval, RateAssumption
<1> HIDE DEF nth
<1> QED
  BY <1>3, <1>4, FS_Injection

\* All admissions of a span lie in two windows, the last one and the one before.
LEMMA MeteredBounds == TypeOK /\ Metered => RateIsBounded
<1> SUFFICES ASSUME TypeOK, Metered, NEW k \in Keys PROVE Cardinality(admitted[k]) <= 2 * Limit
  BY DEF RateIsBounded
<1>0. Limit \in Nat /\ Window \in Nat /\ now \in Nat
      /\ \A a \in admitted[k] : a.window \in Nat /\ a.at \in Nat
  BY RateAssumption, PipelineAssumption DEF TypeOK, Admission
<1> DEFINE late == {a \in admitted[k] : a.window > now}
           early == {a \in admitted[k] : a.window <= now}
<1>1. \A a, b \in late : a.window = b.window
  <2> SUFFICES ASSUME NEW a \in late, NEW b \in late, a.window < b.window PROVE FALSE
    BY <1>0
  <2>1. a.window + Window < b.window /\ b.window <= b.at + Window /\ b.at <= now
    BY DEF Metered, Admissions
  <2> QED
    BY <1>0, <2>1
<1>2. \A a, b \in early : a.window = b.window
  <2> SUFFICES ASSUME NEW a \in early, NEW b \in early, a.window < b.window PROVE FALSE
    BY <1>0
  <2>1. a.window + Window < b.window /\ a.at <= a.window /\ now - a.at <= Window /\ b.window <= now
    BY DEF Metered, Admissions
  <2> QED
    BY <1>0, <2>1
<1>3. IsFiniteSet(late) /\ Cardinality(late) <= Limit
  BY <1>1, OneWindow
<1>4. IsFiniteSet(early) /\ Cardinality(early) <= Limit
  BY <1>2, OneWindow
<1>5. admitted[k] = late \cup early
  BY <1>0
<1> HIDE DEF late, early
<1>6. Cardinality(late \cup early) = Cardinality(late) + Cardinality(early) - Cardinality(late \cap early)
  BY <1>3, <1>4, FS_Union
<1>7. Cardinality(late) \in Nat /\ Cardinality(early) \in Nat /\ Cardinality(late \cap early) \in Nat
  BY <1>3, <1>4, FS_CardinalityType, FS_Intersection
<1> QED
  BY <1>0, <1>3, <1>4, <1>5, <1>6, <1>7

\* No span as long as a window admits more than twice the limit of one caller, for
\* every limit, window and number of callers, and whenever the map is swept.
THEOREM RateBound == Spec => []RateIsBounded
<1>1. Init => Metered
  <2>1. DOMAIN [k \in {} |-> NewWindow] = {}
    OBVIOUS
  <2> QED
    BY <2>1 DEF Init, Metered, Admissions
<1> QED
  BY <1>1, MeteredNext, MeteredBounds, TypeCorrect, PTL DEF Spec

-----------------------------------------------------------------------------
(* The log *)

\* Until a reset every id that trims has trimmed, or somebody is about to.
TrimsAreDone ==
  \A id \in 1..(nextLog - 1) :
    Trims(id) => \/ \E c \in Clients : At(c, "trim") /\ row[c] = id
                 \/ \A e \in log : e > id - LogMax

NewestAreKept == \A id \in 1..(nextLog - 1) : id >= nextLog - LogMax => id \in log

RowsAreKept ==
  \A c \in Clients :
    /\ row[c] < nextLog
    /\ At(c, "trim") \/ At(c, "done") => row[c] # 0 /\ (row[c] \in log \/ row[c] < nextLog - LogMax)

Logged ==
  ~wiped => /\ TrimsAreDone /\ NewestAreKept /\ RowsAreKept
            /\ since < nextLog /\ \A id \in log : id <= since => id \in followed

LEMMA LoggedLog ==
  ASSUME TypeOK, Logged, ~wiped, NEW c \in Clients, Log(c)
  PROVE  Logged'
<1>0. nextLog \in Nat \ {0} /\ LogMax \in Nat \ {0} /\ \A d \in Clients : row[d] \in Nat
  BY LogAssumption DEF TypeOK
<1>1. /\ log' = log \cup {nextLog} /\ nextLog' = nextLog + 1 /\ UNCHANGED follower
      /\ row'[c] = nextLog /\ pc[c] = "log"
      /\ pc'[c] = IF Trims(nextLog) THEN "trim" ELSE "done"
  BY DEF Log, Record, AppendRow, GoTo, Finish, At, TypeOK
<1>2. \A d \in Clients \ {c} : pc'[d] = pc[d] /\ row'[d] = row[d]
  BY OthersAreKept DEF StepOf, Serve
<1>3. TrimsAreDone'
  <2> SUFFICES ASSUME NEW id \in 1..nextLog, Trims(id),
                      ~\E d \in Clients : pc'[d] = "trim" /\ row'[d] = id,
                      NEW e \in log \cup {nextLog}
               PROVE  e > id - LogMax
    BY <1>0, <1>1 DEF TrimsAreDone, At, Trims
  <2>1. id # nextLog
    BY <1>1
  <2>2. ~\E d \in Clients : At(d, "trim") /\ row[d] = id
    BY <1>1, <1>2 DEF At
  <2>3. \A g \in log : g > id - LogMax
    BY <1>0, <2>1, <2>2 DEF Logged, TrimsAreDone
  <2> QED
    BY <1>0, <2>1, <2>3
<1>4. NewestAreKept'
  BY <1>0, <1>1 DEF Logged, NewestAreKept
<1>5. RowsAreKept'
  BY <1>0, <1>1, <1>2 DEF Logged, RowsAreKept, At
<1>6. since' < nextLog' /\ \A id \in log' : id <= since' => id \in followed'
  BY <1>0, <1>1 DEF Logged, follower, TypeOK
<1> QED
  BY <1>3, <1>4, <1>5, <1>6 DEF Logged

LEMMA LoggedTrim ==
  ASSUME TypeOK, Logged, ~wiped, NEW c \in Clients, Trim(c)
  PROVE  Logged'
<1>0. nextLog \in Nat \ {0} /\ LogMax \in Nat \ {0} /\ (\A d \in Clients : row[d] \in Nat) /\ log \subseteq Nat
  BY LogAssumption DEF TypeOK
<1>1. /\ log' = {e \in log : e > row[c] - LogMax} /\ UNCHANGED <<nextLog, row, follower>>
      /\ pc[c] = "trim" /\ pc'[c] = "done"
  BY DEF Trim, Trimmed, Finish, GoTo, At, TypeOK
<1>2. \A d \in Clients \ {c} : pc'[d] = pc[d]
  BY OthersAreKept DEF StepOf, Serve
<1>3. row[c] < nextLog /\ row[c] \in Nat
  BY <1>0 DEF Logged, RowsAreKept
<1>4. TrimsAreDone'
  <2> SUFFICES ASSUME NEW id \in 1..(nextLog - 1), Trims(id),
                      ~\E d \in Clients : pc'[d] = "trim" /\ row[d] = id,
                      NEW e \in log, e > row[c] - LogMax
               PROVE  e > id - LogMax
    BY <1>1 DEF TrimsAreDone, At, Trims
  <2>1. CASE row[c] = id
    BY <2>1
  <2>2. CASE row[c] # id
    BY <1>1, <1>2, <2>2 DEF Logged, TrimsAreDone, At
  <2> QED
    BY <2>1, <2>2
<1>5. NewestAreKept'
  BY <1>0, <1>1, <1>3 DEF Logged, NewestAreKept
<1>6. RowsAreKept'
  BY <1>0, <1>1, <1>2, <1>3 DEF Logged, RowsAreKept, At
<1>7. since' < nextLog' /\ \A id \in log' : id <= since' => id \in followed'
  BY <1>1 DEF Logged, follower
<1> QED
  BY <1>4, <1>5, <1>6, <1>7 DEF Logged

\* Of the rows after the cursor the oldest are given, so none is passed over.
LEMMA LoggedFollow ==
  ASSUME TypeOK, Logged, ~wiped, Follow
  PROVE  Logged'
<1>1. UNCHANGED <<log, nextLog, pc, row>>
  BY DEF Follow, logs, serving
<1>2. PICK last \in EntriesSince(since, FollowLimit) :
        since' = last /\ followed' = followed \cup EntriesSince(since, FollowLimit)
  BY DEF Follow
<1>3. last \in log /\ last > since /\ last \in Nat /\ since \in Nat /\ last < nextLog
      /\ log \subseteq Nat /\ FollowLimit \in Nat
  BY <1>2, EntriesAreLogged, PipelineAssumption DEF TypeOK
<1>4. ASSUME NEW id \in log, id <= last, id > since
      PROVE  id \in EntriesSince(since, FollowLimit)
  <2> DEFINE before(e) == {d \in log : since < d /\ d < e}
  <2>1. IsFiniteSet(before(last))
    <3>1. \A d \in before(last) : d \in log
      OBVIOUS
    <3> HIDE DEF before
    <3>2. \A d \in log : d \in 1..(nextLog - 1)
      BY DEF TypeOK
    <3>3. before(last) \subseteq 1..(nextLog - 1)
      BY <3>1, <3>2, Zenon
    <3>4. nextLog - 1 \in Int
      BY DEF TypeOK
    <3> QED
      BY <3>3, <3>4, FS_Interval, FS_Subset
  <2>2. before(id) \subseteq before(last)
    <3>1. \A d \in log : since < d /\ d < id => since < d /\ d < last
      BY <1>3, <1>4
    <3> QED
      BY <3>1, Zenon
  <2>3. Cardinality(before(last)) < FollowLimit
    BY <1>2, Zenon DEF EntriesSince
  <2>4. Cardinality(before(id)) \in Nat /\ Cardinality(before(last)) \in Nat
        /\ Cardinality(before(id)) <= Cardinality(before(last))
    <3> HIDE DEF before
    <3> QED
      BY <2>1, <2>2, FS_Subset, FS_CardinalityType
  <2>5. Cardinality(before(id)) < FollowLimit
    <3> HIDE DEF before
    <3> QED
      BY <1>3, <2>3, <2>4
  <2> QED
    BY <1>4, <2>5, Zenon DEF EntriesSince
<1>5. \A id \in log : id <= last => id \in followed'
  BY <1>2, <1>3, <1>4 DEF Logged
<1>6. TrimsAreDone' /\ NewestAreKept' /\ RowsAreKept'
  BY <1>1 DEF Logged, TrimsAreDone, NewestAreKept, RowsAreKept, At
<1> QED
  BY <1>1, <1>2, <1>3, <1>5, <1>6 DEF Logged

LEMMA LoggedNext == TypeOK /\ Logged /\ [Next]_vars => Logged'
<1> SUFFICES ASSUME TypeOK, Logged, [Next]_vars, ~wiped' PROVE Logged'
  BY DEF Logged
<1>1. ASSUME NEW c \in Clients, StepOf(c) PROVE Logged'
  <2>1. ~wiped /\ UNCHANGED follower
    BY <1>1, LogSteps
  <2>2. CASE /\ UNCHANGED logs /\ ~At(c, "trim") /\ ~At(c, "done")' /\ ~At(c, "trim")'
             /\ row'[c] \in {row[c], 0}
    <3>1. \A d \in Clients \ {c} : pc'[d] = pc[d] /\ row'[d] = row[d]
      BY <1>1, OthersAreKept
    <3>2. TrimsAreDone'
      BY <2>1, <2>2, <3>1 DEF Logged, TrimsAreDone, At, logs
    <3>3. NewestAreKept'
      BY <2>1, <2>2 DEF Logged, NewestAreKept, logs
    <3>4. RowsAreKept'
      BY <2>1, <2>2, <3>1 DEF Logged, RowsAreKept, At, logs, TypeOK
    <3> QED
      BY <2>1, <2>2, <3>2, <3>3, <3>4 DEF Logged, logs, follower
  <2> QED
    BY <1>1, <2>1, <2>2, LogSteps, LoggedLog, LoggedTrim
<1>2. CASE Tick \/ UNCHANGED vars
  BY <1>2 DEF Tick, vars, logs, serving, follower, Logged, TrimsAreDone, NewestAreKept, RowsAreKept, At
<1>3. CASE Follow
  BY <1>3, LoggedFollow DEF Follow
<1> QED
  BY <1>1, <1>2, <1>3 DEF Next, StepOf

LEMMA LoggedInit == Init => Logged
BY DEF Init, Logged, TrimsAreDone, NewestAreKept, RowsAreKept, At

\* A request that was answered is in the log, unless enough rows came later.
THEOREM AnswersAreLogged == Spec => []AnsweredIsLogged
<1>1. Logged => AnsweredIsLogged
  BY DEF Logged, RowsAreKept, AnsweredIsLogged
<1> QED
  BY <1>1, LoggedInit, LoggedNext, TypeCorrect, PTL DEF Spec

\* A test that follows the log by its cursor is given every row that is still there.
THEOREM FollowersMissNothing == Spec => []FollowerMissesNothing
<1>1. Logged => FollowerMissesNothing
  BY DEF Logged, FollowerMissesNothing
<1> QED
  BY <1>1, LoggedInit, LoggedNext, TypeCorrect, PTL DEF Spec

\* Of as many ids as trims are apart one trims.
LEMMA LastTrim ==
  ASSUME NEW n \in Nat, NEW m \in Nat \ {0}
  PROVE  \E t \in Nat : t <= n /\ t > n - m /\ t % m = 0
<1>1. m * (n \div m) > n - m /\ n \div m \in Nat /\ m * (n \div m) <= n
  OBVIOUS
<1>2. ASSUME NEW q \in Nat PROVE (m * q) % m = 0 /\ m * q \in Nat
  OBVIOUS
<1> QED
  BY <1>1, <1>2

\* The newest rows stay, and between two trims no more than are written meanwhile
\* come on top, however late a trim runs (requestlog.go:41).
THEOREM LogIsBounded == Spec => []LogKeepsNewest
<1>1. TypeOK /\ Logged => LogKeepsNewest
  <2> SUFFICES ASSUME TypeOK, Logged, ~wiped, ~Trimming PROVE Cardinality(log) < LogMax + TrimEvery
    BY DEF LogKeepsNewest, Logged, NewestAreKept
  <2>0. nextLog - 1 \in Nat /\ LogMax \in Nat \ {0} /\ TrimEvery \in Nat \ {0}
        /\ log \subseteq 1..(nextLog - 1)
    BY LogAssumption DEF TypeOK
  <2>1. PICK t \in Nat : t <= nextLog - 1 /\ t > (nextLog - 1) - TrimEvery /\ Trims(t)
    BY <2>0, LastTrim DEF Trims
  <2>2. \A e \in log : e > t - LogMax
    <3>1. CASE t = 0
      BY <2>0, <3>1
    <3>2. CASE t # 0
      BY <2>0, <2>1, <3>2 DEF Logged, TrimsAreDone, Trimming
    <3> QED
      BY <3>1, <3>2
  <2> DEFINE first == t - LogMax + 1
             newest == nextLog - 1
             kept == first..newest
  <2>3. log \subseteq kept /\ first \in Int /\ newest \in Int /\ first <= newest
    BY <2>0, <2>1, <2>2
  <2>4. IsFiniteSet(kept) /\ Cardinality(kept) = newest - first + 1
    <3> HIDE DEF first, newest
    <3> QED
      BY <2>3, FS_Interval
  <2>5. Cardinality(kept) < LogMax + TrimEvery
    BY <2>0, <2>1, <2>4
  <2> HIDE DEF kept
  <2>6. Cardinality(log) <= Cardinality(kept) /\ Cardinality(log) \in Nat /\ Cardinality(kept) \in Nat
    BY <2>3, <2>4, FS_Subset, FS_CardinalityType
  <2> QED
    BY <2>0, <2>5, <2>6
<1> QED
  BY <1>1, LoggedInit, LoggedNext, TypeCorrect, PTL DEF Spec
=============================================================================
