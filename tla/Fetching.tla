------------------------------ MODULE Fetching ------------------------------
(***************************************************************************)
(* How the worker fetches: SafeFetcher.fetch and the RedisRateLimiter it   *)
(* shares with every other worker process (packages/security), under jobs  *)
(* of queue source-fetch.                                                  *)
(*                                                                         *)
(* A URL is its registrable domain.  One hop of a fetch is: the domain     *)
(* policy, one token of the domain's bucket, the resolved addresses, the   *)
(* request and its answer.  The bucket is read and written by one script,  *)
(* which is given the clock of the process that calls it; the clocks       *)
(* differ.  Tokens are counted in parts: one token is Window of them, and  *)
(* Capacity parts flow in per unit of time.  The worker passes no robots   *)
(* checker, so AllowAllRobotsChecker answers.  The time-out ends once the  *)
(* headers are there: a body may never come to its end.                    *)
(***************************************************************************)
EXTENDS JobQueue, FiniteSets

CONSTANTS
    Domains, Home,      \* registrable domains; the one the postings are fetched from
    Allowed,            \* those the domain policy lets through
    Fetches,            \* jobs of queue source-fetch
    Procs, Lag,         \* worker processes; how far the clock of each is behind
    Capacity, Window,   \* perDomainMaxRequests, windowMs
    MaxRedirects,
    MaxTime             \* bound on the clock

ASSUME DomainAssumption == Home \in Domains /\ Allowed \subseteq Domains
ASSUME FetchAssumption  == IsFiniteSet(Fetches)

\* Of the clocks one is behind the others the most.
ASSUME LagAssumption    == /\ Lag \in [Procs -> Nat]
                           /\ \E p \in Procs : \A q \in Procs : Lag[q] <= Lag[p]
ASSUME RateAssumption   == Capacity \in Nat \ {0} /\ Window \in Nat \ {0}

VARIABLES
    now,
    bucket,     \* per domain: the parts left, the time of the last refill
    granted,    \* history: tokens given, per domain
    sent,       \* history: requests made, per domain
    setback,    \* history: how far a bucket's time went back, in all, per domain
    fjob,       \* the records of the fetch jobs
    at          \* where each handler is

fetchVars == <<now, bucket, granted, sent, setback, fjob, at>>

Idle == [pc |-> "idle", domain |-> Home, hops |-> 0, proc |-> CHOOSE p \in Procs : TRUE]

MaxLag == CHOOSE l \in {Lag[p] : p \in Procs} : \A p \in Procs : Lag[p] <= l

\* The clock of a process is never below zero: Lag is taken from a common start.
ClockOf(p) == now + MaxLag - Lag[p]

\* A bucket that was never used is full, as of whoever uses it first.
FullBucket == [parts |-> Capacity * Window, ts |-> 0, used |-> FALSE]

FetchInit ==
    /\ now = 0
    /\ bucket = [d \in Domains |-> FullBucket]
    /\ granted = [d \in Domains |-> 0]
    /\ sent = [d \in Domains |-> 0]
    /\ setback = [d \in Domains |-> 0]
    /\ fjob = [f \in Fetches |-> NoJob]
    /\ at = [f \in Fetches |-> Idle]

Least(a, b) == IF a < b THEN a ELSE b
Above(a, b) == IF a > b THEN a - b ELSE 0

\* What is in the bucket at a clock reading: nothing flows in when the clock is behind.
Refilled(b, clock) == Least(Capacity * Window, b.parts + Above(clock, b.ts) * Capacity)

\* The script: refill, take a token if there is one, write tokens and time back.
Acquire(d, clock) ==
    LET b     == bucket[d]
        parts == IF b.used THEN Refilled(b, clock) ELSE b.parts
        ok    == parts >= Window IN
    /\ bucket' = [bucket EXCEPT ![d] =
                    [parts |-> IF ok THEN parts - Window ELSE parts,
                     ts |-> clock, used |-> TRUE]]
    /\ granted' = [granted EXCEPT ![d] = IF ok THEN @ + 1 ELSE @]
    /\ setback' = [setback EXCEPT ![d] = IF b.used THEN @ + Above(b.ts, clock) ELSE @]

-----------------------------------------------------------------------------
Returns(f)  == fjob' = [fjob EXCEPT ![f] = Completed(@)] /\ at' = [at EXCEPT ![f] = Idle]
Throws(f)   == fjob' = [fjob EXCEPT ![f] = Thrown(@)] /\ at' = [at EXCEPT ![f] = Idle]
Moves(f, s) == at' = [at EXCEPT ![f] = s] /\ UNCHANGED fjob

AddFetch(f) ==
    /\ fjob[f].status = "none"
    /\ fjob' = [fjob EXCEPT ![f] = Added(@)]
    /\ UNCHANGED <<now, bucket, granted, sent, setback, at>>

TakeFetch(f, p) ==
    /\ fjob[f].status = "waiting"
    /\ fjob' = [fjob EXCEPT ![f] = Taken(@)]
    /\ at' = [at EXCEPT ![f] = [Idle EXCEPT !.pc = "hop", !.proc = p]]
    /\ UNCHANGED <<now, bucket, granted, sent, setback>>

\* DomainBlockedError.
RefuseDomain(f) ==
    /\ at[f].pc = "hop" /\ at[f].domain \notin Allowed
    /\ Throws(f)
    /\ UNCHANGED <<now, bucket, granted, sent, setback>>

\* Mutation: only the first hop asks the limiter.
PaysFirstHop(f) == at[f].hops = 0

\* Every hop asks the limiter.
Pays(f) == TRUE

\* The rate limit; a deferral is an error like any other, RateLimitedError.
PassLimiter(f) ==
    LET d == at[f].domain IN
    /\ at[f].pc = "hop" /\ d \in Allowed
    /\ IF Pays(f) THEN Acquire(d, ClockOf(at[f].proc))
                  ELSE UNCHANGED <<bucket, granted, setback>>
    /\ IF Pays(f) /\ granted'[d] = granted[d]
       THEN Throws(f)
       ELSE Moves(f, [at[f] EXCEPT !.pc = "request"])
    /\ UNCHANGED <<now, sent>>

\* No address, or one that is not public: nothing is sent.
RefuseAddress(f) ==
    /\ at[f].pc = "request"
    /\ Throws(f)
    /\ UNCHANGED <<now, bucket, granted, sent, setback>>

Request(f) ==
    /\ at[f].pc = "request"
    /\ sent' = [sent EXCEPT ![at[f].domain] = @ + 1]
    /\ UNCHANGED <<now, bucket, granted, setback>>

\* The network fails, the headers come too late, or name a type or a length that
\* is not accepted.
RequestFails(f) == Request(f) /\ Throws(f)

\* A redirect with a location starts the next hop, up to maxRedirects.
Redirect(f, d) ==
    /\ Request(f)
    /\ IF at[f].hops + 1 > MaxRedirects
       THEN Throws(f)
       ELSE Moves(f, [at[f] EXCEPT !.pc = "hop", !.domain = d, !.hops = @ + 1])

\* 304: fetch.ts advances the checkpoint and returns.
NotModified(f) == Request(f) /\ Returns(f)

\* Headers that are accepted; the time-out is cleared.
Headers(f) == Request(f) /\ Moves(f, [at[f] EXCEPT !.pc = "body"])

\* The stream breaks, or exceeds maxBytes.
BodyFails(f) ==
    /\ at[f].pc = "body"
    /\ Throws(f)
    /\ UNCHANGED <<now, bucket, granted, sent, setback>>

\* The whole body is there.  What becomes of it is another module's.
Body(f) ==
    /\ at[f].pc = "body"
    /\ Returns(f)
    /\ UNCHANGED <<now, bucket, granted, sent, setback>>

Tick ==
    /\ now < MaxTime
    /\ now' = now + 1
    /\ UNCHANGED <<bucket, granted, sent, setback, fjob, at>>

-----------------------------------------------------------------------------
(***************************************************************************)
(* Properties.                                                             *)
(***************************************************************************)

\* The requests a domain gets from all processes together are paced: each one, on any
\* hop of any attempt, was paid for with a token of that domain, and the tokens given
\* are no more than a full bucket and what flows in over the time passed; clocks that
\* differ add no more than the bucket's time was set back (safe-fetcher.ts step 3,
\* rate-limiter.ts SCRIPT; requirement 27.1).
Paced ==
    \A d \in Domains :
        /\ sent[d] <= granted[d]
        /\ granted[d] * Window <= Capacity * (Window + now + MaxLag + setback[d])
=============================================================================
