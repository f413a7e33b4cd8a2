----------------------------- MODULE RateLimit ------------------------------
(***************************************************************************)
(* Fixed windows in front of POST /v1/enroll. Two buckets per source       *)
(* address: requests, counted before the work, and failures, looked at     *)
(* before the work and counted after it. Between the two a request is in   *)
(* flight and others of the same address pass the same check.              *)
(*                                                                         *)
(* The store is Valkey (or a dictionary under a lock): one call is one     *)
(* step. A call may time out, and then it may have been executed or not.   *)
(***************************************************************************)
EXTENDS Integers, FiniteSets

CONSTANTS
    Slot,           \* requests that may be in flight at once
    Key,            \* source addresses
    RequestLimit,   \* enroll_rate_limit_requests, 0 when off
    FailureLimit,   \* enroll_failure_limit, 0 when off
    RequestWindow,  \* enroll_rate_limit_window_seconds
    FailureWindow,  \* enroll_failure_window_seconds
    MaxTime,        \* bound: the clock
    MaxRequests     \* bound: requests in a behaviour

ASSUME WindowsArePositive ==
    /\ IsFiniteSet(Slot) /\ MaxTime \in Nat /\ MaxRequests \in Nat
    /\ RequestLimit \in Nat /\ FailureLimit \in Nat
    /\ RequestWindow \in Nat \ {0} /\ FailureWindow \in Nat \ {0}

VARIABLES
    now,       \* seconds
    requests,  \* enroll-req:<ip>:  [count, reset] per address
    failures,  \* enroll-fail:<ip>: [count, reset] per address
    req,       \* a request in flight: [at, key]
    sent,      \* bound: requests so far
    served,    \* ghost: when requests of an address were let through
    lines      \* ghost: enroll.rate_limited lines, per bucket and address, of its window

limitvars == <<now, requests, failures, req, sent, served, lines>>

Bucket == {"requests", "failures"}
Empty  == [count |-> 0, reset |-> 0]
Idle   == [at |-> "idle", key |-> "?"]

Live(b) == b.count > 0 /\ b.reset > now

\* Mutant: every hit sets the expiry (EXPIRE without NX).
Sliding(b, window) ==
    [count |-> IF Live(b) THEN b.count + 1 ELSE 1, reset |-> now + window]

\* hit: the first of a window opens it, the others only count.
Hit(b, window) ==
    IF Live(b) THEN [b EXCEPT !.count = @ + 1]
    ELSE [count |-> 1, reset |-> now + window]

\* Mutant: peek answers as hit does.
AtLimitIsFree(b, limit) == Live(b) => b.count <= limit

\* peek: one more would still be within the limit.
Peek(b, limit) == Live(b) => b.count < limit

\* Mutant: off by one.
OneMore(b, limit) == b.count <= limit + 1

Within(b, limit) == b.count <= limit

LimitTypeOK ==
    /\ now \in 0 .. MaxTime
    /\ requests \in [Key -> [count : Nat, reset : Nat]]
    /\ failures \in [Key -> [count : Nat, reset : Nat]]
    /\ \A r \in Slot :
         /\ req[r].at \in {"idle", "peek", "hit", "serve", "record"}
         /\ req[r].at # "idle" => req[r].key \in Key
    /\ sent \in 0 .. MaxRequests
    /\ served \in [Key -> [0 .. MaxTime -> Nat]]
    /\ lines \in [Bucket -> [Key -> Nat]]

LimitInit ==
    /\ now = 0 /\ sent = 0
    /\ requests = [k \in Key |-> Empty] /\ failures = requests
    /\ req = [r \in Slot |-> Idle]
    /\ served = [k \in Key |-> [t \in 0 .. MaxTime |-> 0]]
    /\ lines = [b \in Bucket |-> [k \in Key |-> 0]]

\* dispatch of an enroll POST; the address is read here, once.
Dispatch(r, k) ==
    /\ req[r] = Idle /\ sent < MaxRequests
    /\ req' = [req EXCEPT ![r] = [at |-> "peek", key |-> k]]
    /\ sent' = sent + 1
    /\ UNCHANGED <<now, requests, failures, served, lines>>

Goto(r, at) == req' = [req EXCEPT ![r].at = at]
Answer(r)   == req' = [req EXCEPT ![r] = Idle]

\* A locked-out address gets 429, whatever its token.
PeekFailures(r) ==
    /\ req[r].at = "peek"
    /\ IF FailureLimit > 0 => Peek(failures[req[r].key], FailureLimit)
       THEN Goto(r, "hit") ELSE Answer(r)
    /\ UNCHANGED <<now, requests, failures, sent, served, lines>>

\* A line of the bucket: the first of its window, or one more.
Line(bucket, k, before) ==
    lines' = [lines EXCEPT ![bucket][k] = IF Live(before) THEN @ + 1 ELSE 1]

NoLine(bucket, k, before) ==
    lines' = [lines EXCEPT ![bucket][k] = IF Live(before) THEN @ ELSE 0]

\* Mutant: a line for every blocked request.
OverTheLimit(b) == b.count > RequestLimit

\* One line when the bucket trips, not one per blocked request.
RequestsTrip(b) == b.count = RequestLimit + 1

\* Mutant: a line for every failure past the limit.
PastTheLimit(b) == b.count >= FailureLimit

FailuresTrip(b) == b.count = FailureLimit

HitRequests(r) ==
    LET k == req[r].key
        b == Hit(requests[k], RequestWindow)
    IN  /\ req[r].at = "hit"
        /\ IF RequestLimit = 0 THEN Goto(r, "serve") /\ UNCHANGED <<requests, lines>>
           ELSE /\ requests' = [requests EXCEPT ![k] = b]
                /\ IF Within(b, RequestLimit) THEN Goto(r, "serve") ELSE Answer(r)
                /\ IF RequestsTrip(b) THEN Line("requests", k, requests[k])
                                      ELSE NoLine("requests", k, requests[k])
        /\ served' = IF req'[r].at = "serve"
                     THEN [served EXCEPT ![k][now] = @ + 1] ELSE served
        /\ UNCHANGED <<now, failures, sent>>

\* The store fails a call made before the work: 503. A hit may have counted.
FailClosed(r) ==
    LET k == req[r].key
    IN  /\ \/ req[r].at = "peek" /\ FailureLimit > 0
           \/ req[r].at = "hit" /\ RequestLimit > 0
        /\ Answer(r)
        /\ \/ UNCHANGED <<requests, lines>>
           \/ /\ req[r].at = "hit"
              /\ requests' = [requests EXCEPT ![k] = Hit(@, RequestWindow)]
              /\ NoLine("requests", k, requests[k])
        /\ UNCHANGED <<now, failures, sent, served>>

\* The handler answers; 401 and 422 are failures.
Serve(r, failed) ==
    /\ req[r].at = "serve"
    /\ IF failed /\ FailureLimit > 0 THEN Goto(r, "record") ELSE Answer(r)
    /\ UNCHANGED <<now, requests, failures, sent, served, lines>>

HitFailures(r) ==
    LET k == req[r].key
        b == Hit(failures[k], FailureWindow)
    IN  /\ req[r].at = "record"
        /\ failures' = [failures EXCEPT ![k] = b]
        /\ IF FailuresTrip(b) THEN Line("failures", k, failures[k])
                              ELSE NoLine("failures", k, failures[k])
        /\ Answer(r)
        /\ UNCHANGED <<now, requests, sent, served>>

\* The store fails the call made after the work: the response stands.
RecordLost(r) ==
    LET k == req[r].key
    IN  /\ req[r].at = "record"
        /\ \/ UNCHANGED <<failures, lines>>
           \/ /\ failures' = [failures EXCEPT ![k] = Hit(@, FailureWindow)]
              /\ NoLine("failures", k, failures[k])
        /\ Answer(r)
        /\ UNCHANGED <<now, requests, sent, served>>

Pass ==
    /\ now < MaxTime
    /\ now' = now + 1
    /\ UNCHANGED <<requests, failures, req, sent, served, lines>>

Middleware(r) ==
    \/ PeekFailures(r) \/ HitRequests(r) \/ FailClosed(r)
    \/ Serve(r, TRUE) \/ Serve(r, FALSE)
    \/ HitFailures(r) \/ RecordLost(r)

(***************************************************************************)
(* Properties                                                              *)
(***************************************************************************)

\* The requests let through in the w seconds that start at t.
LetThrough(k, t, w) ==
    Cardinality({p \in (t .. t + w - 1) \X (1 .. MaxRequests) :
                    p[1] <= MaxTime /\ p[2] <= served[k][p[1]]})

\* "The worst case is about 2 x limit requests across a window boundary":
\* whatever fails and whenever the windows open, a window lets no more than the
\* limit through, and a stretch of time as long as a window at most twice that.
TwiceTheLimit ==
    RequestLimit > 0 =>
        \A k \in Key :
            /\ Live(requests[k]) =>
                 LetThrough(k, requests[k].reset - RequestWindow, RequestWindow) <= RequestLimit
            /\ \A t \in 0 .. MaxTime :
                 LetThrough(k, t, RequestWindow) <= 2 * RequestLimit

InFlight(k) == {r \in Slot : req[r].key = k /\ req[r].at \in {"hit", "serve", "record"}}

\* The lockout is late by at most what was already past the check: the failures
\* of an address and its requests in flight never exceed the limit by more than
\* the requests that fit in flight, less one.
LockoutIsSharp ==
    FailureLimit > 0 =>
        \A k \in Key :
            Live(failures[k]) =>
                failures[k].count + Cardinality(InFlight(k)) <= FailureLimit - 1 + Cardinality(Slot)

\* "One enroll.rate_limited audit line is written when a bucket trips": no
\* window of a bucket has two, however many requests it blocks.
OneLinePerTrip == \A b \in Bucket, k \in Key : lines[b][k] <= 1

\* "Further hits don't extend it": while a window is open no request, failure
\* or fault moves its end or takes back a count.
WindowIsFixed ==
    [][\A k \in Key :
         /\ Live(requests[k]) => requests'[k].reset = requests[k].reset
                                 /\ requests'[k].count >= requests[k].count
         /\ Live(failures[k]) => failures'[k].reset = failures[k].reset
                                 /\ failures'[k].count >= failures[k].count]_limitvars
=============================================================================
