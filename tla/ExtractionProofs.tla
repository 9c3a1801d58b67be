-------------------------- MODULE ExtractionProofs --------------------------
(***************************************************************************)
(* What the shared rate limiter and the way of a posting to its record     *)
(* promise, for any number of jobs, processes, domains and versions of a   *)
(* site, any lag of the clocks and any site (module Extraction); that the  *)
(* shared limiter is that of one process (module Politeness); and that the *)
(* normal form of a URL is one (module CanonicalUrl).                      *)
(***************************************************************************)
EXTENDS Extraction, JobQueueProofs, FiniteSetTheorems, WellFoundedInduction, SequenceTheorems

-----------------------------------------------------------------------------
(***************************************************************************)
(* The limiter.                                                            *)
(***************************************************************************)

BucketRecord == [parts : Nat, ts : Nat, used : BOOLEAN]

Handler == [pc : {"idle", "hop", "request", "body"}, domain : Domains, hops : Nat, proc : Procs]

FetchTypes ==
    /\ now \in Nat
    /\ bucket \in [Domains -> BucketRecord]
    /\ granted \in [Domains -> Nat]
    /\ sent \in [Domains -> Nat]
    /\ setback \in [Domains -> Nat]
    /\ at \in [Fetches -> Handler]

\* The handlers that have a token of a domain and have not used it.
Holding(d) == {f \in Fetches : at[f].pc = "request" /\ at[f].domain = d}

\* A token pays for one request: the one made, or the one about to be.
PaidFor == \A d \in Domains : sent[d] + Cardinality(Holding(d)) <= granted[d]

\* What was given and what is left came out of a full bucket or flowed in up to the
\* bucket's time, a second time over what that time was set back.
Account(d) ==
    IF bucket[d].used
    THEN /\ bucket[d].ts <= now + MaxLag
         /\ granted[d] * Window + bucket[d].parts
                <= Capacity * (Window + bucket[d].ts + setback[d])
    ELSE granted[d] = 0 /\ bucket[d].parts = Capacity * Window

FetchInv ==
    /\ FetchTypes
    /\ PaidFor
    /\ \A d \in Domains : Account(d)

\* The clock that is behind the most sets the common start.
LEMMA MaxLagIsMost ==
    MaxLag \in Nat /\ \A p \in Procs : Lag[p] <= MaxLag
<1> DEFINE Lags == {Lag[p] : p \in Procs}
<1>1. \E l \in Lags : \A p \in Procs : Lag[p] <= l
  BY LagAssumption
<1>2. MaxLag \in Lags /\ \A p \in Procs : Lag[p] <= MaxLag
  BY <1>1 DEF MaxLag
<1>3. QED
  BY <1>2, LagAssumption

LEMMA ClockInRange ==
    ASSUME NEW p \in Procs, now \in Nat
    PROVE  ClockOf(p) \in Nat /\ ClockOf(p) <= now + MaxLag
<1>1. Lag[p] \in Nat /\ Lag[p] <= MaxLag /\ MaxLag \in Nat
  BY MaxLagIsMost, LagAssumption
<1>2. QED
  BY <1>1 DEF ClockOf

\* What the script reads in a bucket: never below what was left, never above that and
\* what flowed in since.
LEMMA RefilledBounds ==
    ASSUME NEW b \in BucketRecord, NEW clock \in Nat
    PROVE  /\ Refilled(b, clock) \in Nat
           /\ Refilled(b, clock) <= b.parts + Above(clock, b.ts) * Capacity
<1>1. b.parts \in Nat /\ b.ts \in Nat
  BY DEF BucketRecord
<1>2. Above(clock, b.ts) \in Nat
  BY <1>1 DEF Above
<1>3. Capacity \in Nat /\ Capacity * Window \in Nat
  BY RateAssumption
<1>4. b.parts + Above(clock, b.ts) * Capacity \in Nat
  BY <1>1, <1>2, <1>3
<1>5. QED
  BY <1>3, <1>4 DEF Refilled, Least

\* The inflow and the setback together cover the bucket's move from one time to
\* another, in either direction.
LEMMA MoveIsCovered ==
    ASSUME NEW clock \in Nat, NEW ts \in Nat
    PROVE  /\ Above(clock, ts) \in Nat /\ Above(ts, clock) \in Nat
           /\ ts + Above(clock, ts) = clock + Above(ts, clock)
BY DEF Above

\* The script, on the bucket it is called for.
LEMMA AcquireAccounts ==
    ASSUME FetchTypes, NEW d \in Domains, Account(d), NEW clock \in Nat, Acquire(d, clock)
    PROVE  /\ bucket' \in [Domains -> BucketRecord]
           /\ granted' \in [Domains -> Nat]
           /\ setback' \in [Domains -> Nat]
           /\ \A e \in Domains \ {d} :
                  bucket'[e] = bucket[e] /\ granted'[e] = granted[e] /\ setback'[e] = setback[e]
           /\ granted'[d] \in {granted[d], granted[d] + 1}
           /\ bucket'[d].used /\ bucket'[d].ts = clock
           /\ granted'[d] * Window + bucket'[d].parts
                  <= Capacity * (Window + clock + setback'[d])
<1> DEFINE b     == bucket[d]
           parts == IF b.used THEN Refilled(b, clock) ELSE b.parts
           ok    == parts >= Window
           back  == Above(b.ts, clock)
           left  == IF ok THEN parts - Window ELSE parts
           paid  == IF ok THEN granted[d] + 1 ELSE granted[d]
           sum   == IF b.used THEN setback[d] + back ELSE setback[d]
<1>1. /\ b \in BucketRecord /\ b.parts \in Nat /\ b.ts \in Nat /\ b.used \in BOOLEAN
      /\ granted[d] \in Nat /\ setback[d] \in Nat
  BY DEF FetchTypes, BucketRecord
<1>2. Capacity \in Nat /\ Window \in Nat
  BY RateAssumption
<1>3. /\ back \in Nat /\ Above(clock, b.ts) \in Nat
      /\ b.ts + Above(clock, b.ts) = clock + back
  BY <1>1, MoveIsCovered
<1>4. parts \in Nat
  BY <1>1, RefilledBounds
<1>5. left \in Nat /\ paid \in Nat /\ sum \in Nat
  BY <1>1, <1>2, <1>3, <1>4
<1>6. paid * Window + left = granted[d] * Window + parts
  <2> HIDE DEF parts
  <2>1. CASE ok
    <3>1. (granted[d] + 1) * Window = granted[d] * Window + Window
      BY <1>1, <1>2
    <3>2. granted[d] * Window \in Nat
      BY <1>1, <1>2
    <3>3. QED
      BY <2>1, <3>1, <3>2, <1>2, <1>4
  <2>2. CASE ~ok
    BY <2>2
  <2>3. QED
    BY <2>1, <2>2
<1>7. granted[d] * Window + parts <= Capacity * (Window + clock + sum)
  <2>1. CASE b.used
    <3> DEFINE flow == Above(clock, b.ts)
    <3>1. granted[d] * Window + b.parts <= Capacity * (Window + b.ts + setback[d])
      BY <2>1 DEF Account
    <3>2. parts <= b.parts + flow * Capacity
      BY <2>1, <1>1, RefilledBounds
    <3>3. Capacity * (Window + clock + sum)
            = Capacity * (Window + b.ts + setback[d]) + flow * Capacity
      <4>1. Window + clock + sum = Window + b.ts + setback[d] + flow
        BY <2>1, <1>1, <1>2, <1>3
      <4> HIDE DEF flow, b, back, sum
      <4>2. Window + b.ts + setback[d] \in Nat /\ flow \in Nat
        BY <1>1, <1>2, <1>3 DEF flow
      <4>3. QED
        BY <4>1, <4>2, <1>2
    <3> HIDE DEF flow, b, back, sum, parts
    <3>4. granted[d] * Window \in Nat /\ flow * Capacity \in Nat
      BY <1>1, <1>2, <1>3 DEF flow
    <3>5. Capacity * (Window + b.ts + setback[d]) \in Nat
      BY <1>1, <1>2
    <3>6. QED
      BY <3>1, <3>2, <3>3, <3>4, <3>5, <1>1, <1>4
  <2>2. CASE ~b.used
    <3>1. granted[d] = 0 /\ parts = Capacity * Window
      BY <2>2 DEF Account
    <3>2. Capacity * (Window + clock + sum) = Capacity * Window + Capacity * (clock + sum)
      <4> HIDE DEF sum
      <4>1. QED
        BY <1>2, <1>5
    <3>3. Capacity * (clock + sum) \in Nat /\ Capacity * Window \in Nat
      <4> HIDE DEF sum
      <4>1. QED
        BY <1>2, <1>5
    <3> HIDE DEF sum, parts
    <3>4. QED
      BY <3>1, <3>2, <3>3, <1>2
  <2>3. QED
    BY <2>1, <2>2, <1>1
<1>8. /\ bucket' = [bucket EXCEPT ![d] = [parts |-> left, ts |-> clock, used |-> TRUE]]
      /\ granted' = [granted EXCEPT ![d] = paid]
      /\ setback' = [setback EXCEPT ![d] = sum]
  BY DEF Acquire
<1> DEFINE filled == [parts |-> left, ts |-> clock, used |-> TRUE]
<1>9. filled \in BucketRecord /\ filled.parts = left /\ filled.ts = clock /\ filled.used
  <2> HIDE DEF left
  <2>1. QED
    BY <1>5 DEF BucketRecord
<1>10. paid \in {granted[d], granted[d] + 1}
  OBVIOUS
<1> HIDE DEF filled, left, paid, sum
<1>11. bucket' = [bucket EXCEPT ![d] = filled]
  BY <1>8 DEF filled
<1>12. /\ bucket' \in [Domains -> BucketRecord] /\ bucket'[d] = filled
       /\ \A e \in Domains \ {d} : bucket'[e] = bucket[e]
  BY <1>9, <1>11 DEF FetchTypes
<1>13. /\ granted' \in [Domains -> Nat] /\ granted'[d] = paid
       /\ \A e \in Domains \ {d} : granted'[e] = granted[e]
  BY <1>5, <1>8 DEF FetchTypes
<1>14. /\ setback' \in [Domains -> Nat] /\ setback'[d] = sum
       /\ \A e \in Domains \ {d} : setback'[e] = setback[e]
  BY <1>5, <1>8 DEF FetchTypes
<1>15. paid * Window + left <= Capacity * (Window + clock + sum)
  BY <1>6, <1>7
<1>16. granted'[d] * Window + bucket'[d].parts <= Capacity * (Window + clock + setback'[d])
  BY <1>9, <1>12, <1>13, <1>14, <1>15
<1>17. QED
  BY <1>9, <1>10, <1>12, <1>13, <1>14, <1>16

-----------------------------------------------------------------------------
(***************************************************************************)
(* The handlers that hold a token.                                         *)
(***************************************************************************)

LEMMA HoldingFinite ==
    ASSUME NEW d \in Domains
    PROVE  IsFiniteSet(Holding(d)) /\ Cardinality(Holding(d)) \in Nat
<1>1. Holding(d) \in SUBSET Fetches
  BY DEF Holding
<1>2. \A T \in SUBSET Fetches : IsFiniteSet(T)
  BY FetchAssumption, FS_Subset
<1>3. QED
  BY <1>1, <1>2, FS_CardinalityType

\* A handler that goes anywhere but to its request takes no token with it, and gives
\* back the one it held, if it held one.
LEMMA StepsAside ==
    ASSUME FetchTypes, NEW f \in Fetches, NEW s \in Handler, s.pc # "request",
           at' = [at EXCEPT ![f] = s], NEW d \in Domains
    PROVE  /\ Cardinality(Holding(d)') \in Nat
           /\ Cardinality(Holding(d)') <= Cardinality(Holding(d))
           /\ at[f].pc = "request" /\ at[f].domain = d
                  => Cardinality(Holding(d)') = Cardinality(Holding(d)) - 1
<1>1. Holding(d)' = Holding(d) \ {f}
  BY DEF FetchTypes, Holding
<1>2. IsFiniteSet(Holding(d)) /\ Cardinality(Holding(d)) \in Nat
  BY HoldingFinite
<1>3. /\ IsFiniteSet(Holding(d) \ {f})
      /\ Cardinality(Holding(d) \ {f})
            = IF f \in Holding(d) THEN Cardinality(Holding(d)) - 1 ELSE Cardinality(Holding(d))
  BY <1>2, FS_RemoveElement
<1>4. Cardinality(Holding(d) \ {f}) \in Nat
  BY <1>3, FS_CardinalityType
<1>5. at[f].pc = "request" /\ at[f].domain = d => f \in Holding(d)
  BY DEF Holding
<1>6. Cardinality(Holding(d)') = Cardinality(Holding(d) \ {f})
  BY <1>1
<1>7. QED
  BY <1>2, <1>3, <1>4, <1>5, <1>6

\* A handler that goes to its request holds a token of its domain.
LEMMA StepsUp ==
    ASSUME FetchTypes, NEW f \in Fetches, at[f].pc # "request",
           at' = [at EXCEPT ![f] = [at[f] EXCEPT !.pc = "request"]], NEW d \in Domains
    PROVE  /\ Cardinality(Holding(d)') \in Nat
           /\ Cardinality(Holding(d)')
                = IF at[f].domain = d THEN Cardinality(Holding(d)) + 1
                                      ELSE Cardinality(Holding(d))
<1>1. Holding(d)' = IF at[f].domain = d THEN Holding(d) \union {f} ELSE Holding(d)
  <2>1. /\ at'[f].pc = "request" /\ at'[f].domain = at[f].domain
        /\ \A g \in Fetches \ {f} : at'[g] = at[g]
    BY DEF FetchTypes, Handler
  <2>2. QED
    BY <2>1 DEF Holding
<1>2. IsFiniteSet(Holding(d)) /\ Cardinality(Holding(d)) \in Nat /\ f \notin Holding(d)
  BY HoldingFinite DEF Holding
<1>3. Cardinality(Holding(d) \union {f}) = Cardinality(Holding(d)) + 1
  BY <1>2, FS_AddElement
<1>4. QED
  BY <1>1, <1>2, <1>3

\* Where the clock has gone on and no bucket was touched, the account holds.
LEMMA AccountKeeps ==
    ASSUME FetchTypes, NEW d \in Domains, Account(d), now' \in Nat, now <= now',
           bucket' = bucket, granted' = granted, setback' = setback
    PROVE  Account(d)'
<1>1. bucket[d].used => bucket[d].ts <= now + MaxLag
  BY DEF Account
<1>2. bucket[d].ts \in Nat /\ MaxLag \in Nat
  BY MaxLagIsMost DEF FetchTypes, BucketRecord
<1>3. bucket[d].used => bucket[d].ts <= now' + MaxLag
  BY <1>1, <1>2 DEF FetchTypes
<1>4. QED
  BY <1>3 DEF Account

\* Handlers that move without a token or a request.
LEMMA MoveKeeps ==
    ASSUME FetchInv, NEW f \in Fetches, NEW s \in Handler, s.pc # "request",
           at' = [at EXCEPT ![f] = s], UNCHANGED <<now, bucket, granted, sent, setback>>
    PROVE  FetchInv'
<1>1. FetchTypes'
  BY DEF FetchInv, FetchTypes
<1>2. PaidFor'
  <2>1. SUFFICES ASSUME NEW d \in Domains
                 PROVE  sent'[d] + Cardinality(Holding(d)') <= granted'[d]
    BY DEF PaidFor
  <2>2. /\ Cardinality(Holding(d)') \in Nat
        /\ Cardinality(Holding(d)') <= Cardinality(Holding(d))
    BY StepsAside DEF FetchInv
  <2>3. Cardinality(Holding(d)) \in Nat
    BY HoldingFinite
  <2>4. sent[d] + Cardinality(Holding(d)) <= granted[d] /\ sent[d] \in Nat /\ granted[d] \in Nat
    BY DEF FetchInv, PaidFor, FetchTypes
  <2>5. QED
    BY <2>2, <2>3, <2>4
<1>3. \A d \in Domains : Account(d)'
  BY AccountKeeps DEF FetchInv, FetchTypes
<1>4. QED
  BY <1>1, <1>2, <1>3 DEF FetchInv

\* A request, whatever its answer: the token that was held pays for it.
LEMMA RequestKeeps ==
    ASSUME FetchInv, NEW f \in Fetches, NEW s \in Handler, s.pc # "request",
           at' = [at EXCEPT ![f] = s], Request(f)
    PROVE  FetchInv'
<1> DEFINE m == at[f].domain
<1>1. /\ at[f].pc = "request" /\ m \in Domains
      /\ sent' = [sent EXCEPT ![m] = @ + 1]
      /\ UNCHANGED <<now, bucket, granted, setback>>
  BY DEF Request, FetchInv, FetchTypes, Handler
<1> HIDE DEF m
<1>2. /\ sent' \in [Domains -> Nat] /\ sent'[m] = sent[m] + 1
      /\ \A d \in Domains : d # m => sent'[d] = sent[d]
  BY <1>1 DEF FetchInv, FetchTypes
<1>3. FetchTypes'
  BY <1>1, <1>2 DEF FetchInv, FetchTypes
<1>4. PaidFor'
  <2>1. SUFFICES ASSUME NEW d \in Domains
                 PROVE  sent'[d] + Cardinality(Holding(d)') <= granted'[d]
    BY DEF PaidFor
  <2>2. /\ Cardinality(Holding(d)') \in Nat
        /\ Cardinality(Holding(d)') <= Cardinality(Holding(d))
        /\ d = m => Cardinality(Holding(d)') = Cardinality(Holding(d)) - 1
    BY StepsAside, <1>1 DEF FetchInv, m
  <2>3. Cardinality(Holding(d)) \in Nat
    BY HoldingFinite
  <2>4. sent[d] + Cardinality(Holding(d)) <= granted[d] /\ sent[d] \in Nat /\ granted[d] \in Nat
    BY DEF FetchInv, PaidFor, FetchTypes
  <2>5. granted'[d] = granted[d]
    BY <1>1
  <2>6. CASE d = m
    BY <2>2, <2>3, <2>4, <2>5, <2>6, <1>2
  <2>7. CASE d # m
    BY <2>2, <2>3, <2>4, <2>5, <2>7, <1>2
  <2>8. QED
    BY <2>6, <2>7
<1>5. \A d \in Domains : Account(d)'
  BY <1>1, AccountKeeps DEF FetchInv, FetchTypes
<1>6. QED
  BY <1>3, <1>4, <1>5 DEF FetchInv

\* The limiter: a token that is given is held by the handler that asked.
LEMMA LimiterKeeps ==
    ASSUME FetchInv, NEW f \in Fetches, PassLimiter(f)
    PROVE  FetchInv'
<1> DEFINE m     == at[f].domain
           clock == ClockOf(at[f].proc)
           fails == granted'[m] = granted[m]
<1>1. /\ at[f] \in Handler /\ m \in Domains /\ at[f].proc \in Procs
      /\ at[f].pc = "hop" /\ FetchTypes /\ Account(m) /\ now \in Nat
  BY DEF PassLimiter, FetchInv, FetchTypes, Handler
<1>2. clock \in Nat /\ clock <= now + MaxLag
  BY <1>1, ClockInRange
<1>3. Acquire(m, clock) /\ UNCHANGED <<now, sent>>
  BY DEF PassLimiter, Pays
<1>4. /\ fails => Throws(f)
      /\ ~fails => Moves(f, [at[f] EXCEPT !.pc = "request"])
  BY DEF PassLimiter, Pays
<1> HIDE DEF clock, m
<1>5. /\ bucket' \in [Domains -> BucketRecord]
      /\ granted' \in [Domains -> Nat]
      /\ setback' \in [Domains -> Nat]
      /\ \A d \in Domains \ {m} :
             bucket'[d] = bucket[d] /\ granted'[d] = granted[d] /\ setback'[d] = setback[d]
      /\ granted'[m] \in {granted[m], granted[m] + 1}
      /\ bucket'[m].used /\ bucket'[m].ts = clock
      /\ granted'[m] * Window + bucket'[m].parts
             <= Capacity * (Window + clock + setback'[m])
  BY <1>1, <1>2, <1>3, AcquireAccounts
<1>6. \A d \in Domains : Account(d)'
  <2> TAKE d \in Domains
  <2>1. CASE d = m
    BY <1>2, <1>3, <1>5, <2>1 DEF Account
  <2>2. CASE d # m
    BY <1>3, <1>5, <2>2 DEF Account, FetchInv
  <2>3. QED
    BY <2>1, <2>2
<1>7. Idle \in Handler /\ Idle.pc # "request"
  BY DomainAssumption, LagAssumption DEF Idle, Handler
<1>8. at' \in [Fetches -> Handler]
  <2>1. [at[f] EXCEPT !.pc = "request"] \in Handler
    BY <1>1 DEF Handler
  <2>2. QED
    BY <1>1, <1>4, <1>7, <2>1 DEF FetchTypes, Throws, Moves
<1>9. FetchTypes'
  BY <1>1, <1>3, <1>5, <1>8 DEF FetchTypes
<1>10. PaidFor'
  <2>1. SUFFICES ASSUME NEW d \in Domains
                 PROVE  sent'[d] + Cardinality(Holding(d)') <= granted'[d]
    BY DEF PaidFor
  <2>2. Cardinality(Holding(d)) \in Nat
    BY HoldingFinite
  <2>3. sent[d] + Cardinality(Holding(d)) <= granted[d] /\ sent[d] \in Nat /\ granted[d] \in Nat
    BY DEF FetchInv, PaidFor, FetchTypes
  <2>4. sent'[d] = sent[d]
    BY <1>3
  <2>5. CASE fails
    <3>1. at' = [at EXCEPT ![f] = Idle]
      BY <1>4, <2>5 DEF Throws
    <3>2. /\ Cardinality(Holding(d)') \in Nat
          /\ Cardinality(Holding(d)') <= Cardinality(Holding(d))
      BY <3>1, <1>1, <1>7, StepsAside
    <3>3. granted'[d] = granted[d]
      BY <2>5, <1>5
    <3>4. QED
      BY <2>2, <2>3, <2>4, <3>2, <3>3
  <2>6. CASE ~fails
    <3>1. at' = [at EXCEPT ![f] = [at[f] EXCEPT !.pc = "request"]]
      BY <1>4, <2>6 DEF Moves
    <3>2. /\ Cardinality(Holding(d)') \in Nat
          /\ Cardinality(Holding(d)')
                = IF m = d THEN Cardinality(Holding(d)) + 1 ELSE Cardinality(Holding(d))
      BY <3>1, <1>1, StepsUp DEF m
    <3>3. granted'[d] = IF m = d THEN granted[d] + 1 ELSE granted[d]
      BY <2>6, <1>5
    <3>4. QED
      BY <2>2, <2>3, <2>4, <3>2, <3>3
  <2>7. QED
    BY <2>5, <2>6
<1>11. QED
  BY <1>6, <1>9, <1>10 DEF FetchInv

-----------------------------------------------------------------------------
(***************************************************************************)
(* The steps of the handlers.                                              *)
(***************************************************************************)

LEMMA FetchInvInit ==
    ASSUME FetchInit
    PROVE  FetchInv
<1>1. Capacity \in Nat /\ Window \in Nat /\ Capacity * Window \in Nat
  BY RateAssumption
<1>2. FullBucket \in BucketRecord
  BY <1>1 DEF FullBucket, BucketRecord
<1>3. Idle \in Handler /\ Idle.pc = "idle"
  BY DomainAssumption, LagAssumption DEF Idle, Handler
<1>4. FetchTypes
  BY <1>2, <1>3 DEF FetchInit, FetchTypes
<1>5. PaidFor
  <2>1. \A d \in Domains : Holding(d) = {}
    BY <1>3 DEF FetchInit, Holding
  <2>2. QED
    BY <2>1, FS_EmptySet DEF FetchInit, PaidFor
<1>6. \A d \in Domains : Account(d)
  BY DEF FetchInit, Account, FullBucket
<1>7. QED
  BY <1>4, <1>5, <1>6 DEF FetchInv

\* A step of a handler, one case for each thing it may do.
LEMMA HandlerKeeps ==
    ASSUME FetchInv, NEW f \in Fetches,
           \/ AddFetch(f)
           \/ \E p \in Procs : TakeFetch(f, p)
           \/ RefuseDomain(f) \/ PassLimiter(f)
           \/ RefuseAddress(f) \/ RequestFails(f)
           \/ \E d \in Domains : Redirect(f, d)
           \/ NotModified(f) \/ Headers(f) \/ BodyFails(f) \/ Body(f)
    PROVE  FetchInv'
<1>1. Idle \in Handler /\ Idle.pc # "request"
  BY DomainAssumption, LagAssumption DEF Idle, Handler
<1>2. at[f] \in Handler
  BY DEF FetchInv, FetchTypes
<1>3. CASE AddFetch(f)
  <2>1. UNCHANGED <<now, bucket, granted, sent, setback, at>>
    BY <1>3 DEF AddFetch
  <2>2. \A d \in Domains : Holding(d)' = Holding(d)
    BY <2>1 DEF Holding
  <2>3. QED
    BY <2>1, <2>2 DEF FetchInv, FetchTypes, PaidFor, Account
<1>4. ASSUME NEW p \in Procs, TakeFetch(f, p)
      PROVE  FetchInv'
  <2> DEFINE s == [Idle EXCEPT !.pc = "hop", !.proc = p]
  <2>1. s \in Handler /\ s.pc # "request"
    BY <1>1 DEF Handler
  <2>2. at' = [at EXCEPT ![f] = s] /\ UNCHANGED <<now, bucket, granted, sent, setback>>
    BY <1>4 DEF TakeFetch
  <2> HIDE DEF s
  <2>3. QED
    BY <2>1, <2>2, MoveKeeps
<1>5. CASE RefuseDomain(f) \/ RefuseAddress(f) \/ BodyFails(f) \/ Body(f)
  <2>1. at' = [at EXCEPT ![f] = Idle] /\ UNCHANGED <<now, bucket, granted, sent, setback>>
    BY <1>5 DEF RefuseDomain, RefuseAddress, BodyFails, Body, Throws, Returns
  <2>2. QED
    BY <1>1, <2>1, MoveKeeps
<1>6. CASE PassLimiter(f)
  BY <1>6, LimiterKeeps
<1>7. CASE RequestFails(f) \/ NotModified(f)
  <2>1. at' = [at EXCEPT ![f] = Idle] /\ Request(f)
    BY <1>7 DEF RequestFails, NotModified, Throws, Returns
  <2>2. QED
    BY <1>1, <2>1, RequestKeeps
<1>8. CASE Headers(f)
  <2> DEFINE s == [at[f] EXCEPT !.pc = "body"]
  <2>1. s \in Handler /\ s.pc # "request"
    BY <1>2 DEF Handler
  <2>2. at' = [at EXCEPT ![f] = s] /\ Request(f)
    BY <1>8 DEF Headers, Moves
  <2> HIDE DEF s
  <2>3. QED
    BY <2>1, <2>2, RequestKeeps
<1>9. ASSUME NEW d \in Domains, Redirect(f, d)
      PROVE  FetchInv'
  <2> DEFINE n == at[f].hops + 1
             s == [at[f] EXCEPT !.pc = "hop", !.domain = d, !.hops = n]
  <2>1. s \in Handler /\ s.pc # "request"
    <3>1. n \in Nat
      BY <1>2 DEF Handler
    <3> HIDE DEF n
    <3>2. QED
      BY <1>2, <3>1 DEF Handler
  <2>2. Request(f) /\ (at' = [at EXCEPT ![f] = s] \/ at' = [at EXCEPT ![f] = Idle])
    BY <1>9 DEF Redirect, Moves, Throws
  <2> HIDE DEF s
  <2>3. QED
    BY <1>1, <2>1, <2>2, RequestKeeps
<1>10. QED
  BY <1>3, <1>4, <1>5, <1>6, <1>7, <1>8, <1>9

LEMMA FetchInvStep ==
    ASSUME FetchInv, [Next]_vars
    PROVE  FetchInv'
<1>1. CASE Tick
  <2>1. now' \in Nat /\ now <= now' /\ UNCHANGED <<bucket, granted, sent, setback, at>>
    BY <1>1 DEF Tick, FetchInv, FetchTypes
  <2>2. \A d \in Domains : Holding(d)' = Holding(d)
    BY <2>1 DEF Holding
  <2>3. FetchTypes' /\ PaidFor'
    BY <2>1, <2>2 DEF FetchInv, FetchTypes, PaidFor
  <2>4. \A d \in Domains : Account(d)'
    BY <2>1, AccountKeeps DEF FetchInv
  <2>5. QED
    BY <2>3, <2>4 DEF FetchInv
<1>2. CASE UNCHANGED fetchVars
  <2>1. UNCHANGED <<now, bucket, granted, sent, setback, at>>
    BY <1>2 DEF fetchVars
  <2>2. \A d \in Domains : Holding(d)' = Holding(d)
    BY <2>1 DEF Holding
  <2>3. QED
    BY <2>1, <2>2 DEF FetchInv, FetchTypes, PaidFor, Account
<1>3. ASSUME NEW f \in Fetches, FetchBody(f)
      PROVE  FetchInv'
  BY <1>3, HandlerKeeps DEF FetchBody
<1>4. CASE Fetch
  <2>1. CASE Tick
    BY <2>1, <1>1
  <2>2. CASE ~Tick
    BY <2>2, <1>4, HandlerKeeps DEF Fetch
  <2>3. QED
    BY <2>1, <2>2
<1>5. ASSUME NEW v \in Versions,
             SiteChanges(v) \/ RunParse(v) \/ TakeNormalize(v) \/ RunNormalize(v)
                \/ NormalizeThrows(v) \/ TakeDedup(v) \/ RunDedup(v) \/ DedupThrows(v)
      PROVE  UNCHANGED fetchVars
  BY <1>5 DEF SiteChanges, RunParse, TakeNormalize, RunNormalize, NormalizeThrows,
              TakeDedup, RunDedup, DedupThrows
<1>6. CASE UNCHANGED vars
  BY <1>6, <1>2 DEF vars
<1>7. QED
  BY <1>2, <1>3, <1>4, <1>5, <1>6 DEF Next

LEMMA FetchInvPaces ==
    ASSUME FetchInv
    PROVE  Paced
<1>1. SUFFICES ASSUME NEW d \in Domains
               PROVE  /\ sent[d] <= granted[d]
                      /\ granted[d] * Window <= Capacity * (Window + now + MaxLag + setback[d])
  BY DEF Paced
<1>2. /\ sent[d] \in Nat /\ granted[d] \in Nat /\ setback[d] \in Nat /\ now \in Nat
      /\ bucket[d].parts \in Nat /\ bucket[d].ts \in Nat
  BY DEF FetchInv, FetchTypes, BucketRecord
<1>3. Capacity \in Nat /\ Window \in Nat /\ MaxLag \in Nat
  BY RateAssumption, MaxLagIsMost
<1>4. sent[d] <= granted[d]
  BY <1>2, HoldingFinite DEF FetchInv, PaidFor
<1>5. granted[d] * Window <= Capacity * (Window + now + MaxLag + setback[d])
  <2> DEFINE late  == Window + now + MaxLag + setback[d]
             early == Window + bucket[d].ts + setback[d]
  <2>1. late \in Nat /\ early \in Nat
    BY <1>2, <1>3
  <2>2. CASE bucket[d].used
    <3>1. /\ bucket[d].ts <= now + MaxLag
          /\ granted[d] * Window + bucket[d].parts <= Capacity * early
      BY <2>2 DEF FetchInv, Account
    <3>2. early <= late
      BY <1>2, <1>3, <3>1
    <3> HIDE DEF late, early
    <3>3. Capacity * early <= Capacity * late
      <4>1. PICK gap \in Nat : late = early + gap
        <5>1. late - early \in Nat /\ late = early + (late - early)
          BY <2>1, <3>2
        <5>2. QED
          BY <5>1
      <4>2. Capacity * late = Capacity * early + Capacity * gap
        BY <1>3, <2>1, <4>1
      <4>3. Capacity * gap \in Nat /\ Capacity * early \in Nat
        BY <1>3, <2>1
      <4>4. QED
        BY <4>2, <4>3
    <3>4. granted[d] * Window \in Nat /\ Capacity * early \in Nat /\ Capacity * late \in Nat
      BY <1>2, <1>3, <2>1
    <3>5. QED
      BY <1>2, <3>1, <3>3, <3>4 DEF late
  <2>3. CASE ~bucket[d].used
    <3>1. granted[d] = 0
      BY <2>3 DEF FetchInv, Account
    <3> HIDE DEF late, early
    <3>2. Capacity * late \in Nat
      BY <1>3, <2>1
    <3>3. QED
      BY <3>1, <3>2, <1>3 DEF late
  <2>4. QED
    BY <2>2, <2>3
<1>6. QED
  BY <1>4, <1>5

\* The requests a domain gets from all processes together are paced, whatever their
\* number and the lag of their clocks (safe-fetcher.ts step 3, rate-limiter.ts SCRIPT).
THEOREM PacedAlways == Spec => []Paced
<1>1. Init => FetchInv
  BY FetchInvInit DEF Init
<1>2. FetchInv /\ [Next]_vars => FetchInv'
  BY FetchInvStep
<1>3. FetchInv => Paced
  BY FetchInvPaces
<1>4. QED
  BY <1>1, <1>2, <1>3, PTL DEF Spec

-----------------------------------------------------------------------------
(***************************************************************************)
(* The limiter of one process (module Politeness) against the shared one.  *)
(* It has nothing for a domain it was not asked about, which is none of    *)
(* its buckets; the script fills such a bucket to its capacity.            *)
(***************************************************************************)
CONSTANT Unseen

Local == INSTANCE Politeness WITH Absent <- Unseen

\* What the limiter of one process has for a domain that the shared one has b for.
Seen(b) == IF b.used THEN [parts |-> b.parts, ts |-> b.ts] ELSE Unseen

\* A quotient rounded up is the least number whose product is enough.
LEMMA CeilingIsLeast ==
    ASSUME NEW n \in Nat, NEW c \in Nat \ {0}, NEW k \in Nat
    PROVE  /\ (n + c - 1) \div c \in Nat
           /\ k * c >= n <=> k >= (n + c - 1) \div c
<1> DEFINE m == n + c - 1
           q == m \div c
<1>1. m \in Nat /\ q \in Int
  OBVIOUS
<1>2. q * c <= m /\ m < q * c + c
  BY <1>1
<1> HIDE DEF q
<1>3. q \in Nat
  <2>1. CASE q <= -1
    <3>1. (q + 1) * c <= 0
      BY <1>1, <2>1
    <3>2. (q + 1) * c = q * c + c
      BY <1>1
    <3>3. QED
      BY <1>1, <1>2, <3>1, <3>2
  <2>2. QED
    BY <1>1, <2>1
<1>4. CASE k >= q
  <2>1. k * c >= q * c
    BY <1>3, <1>4
  <2>2. k * c \in Nat /\ q * c \in Nat
    BY <1>3
  <2>3. QED
    BY <1>2, <1>3, <1>4, <2>1, <2>2
<1>5. CASE k < q
  <2>1. (k + 1) * c <= q * c
    BY <1>3, <1>5
  <2>2. (k + 1) * c = k * c + c /\ k * c \in Nat /\ q * c \in Nat
    BY <1>3
  <2>3. QED
    BY <1>2, <1>3, <1>5, <2>1, <2>2
<1>6. QED
  BY <1>3, <1>4, <1>5 DEF q

\* The limiter of one process answers what the script does and keeps what it keeps.
AsOneProcess(d, clock) ==
    LET r == Local!InMemory(Seen(bucket[d]), clock, Capacity, Window) IN
    /\ r.allowed <=> granted'[d] = granted[d] + 1
    /\ r.bucket = Seen(bucket'[d])

LEMMA AcquireAsOneProcess ==
    ASSUME FetchInv, NEW d \in Domains, NEW clock \in Nat, Acquire(d, clock),
           \A b \in [parts : Nat, ts : Nat] : b # Unseen
    PROVE  AsOneProcess(d, clock)
<1> DEFINE b == bucket[d]
           full == IF b.used THEN Refilled(b, clock) ELSE b.parts
<1>1. b \in BucketRecord /\ Capacity * Window \in Nat /\ Capacity \in Nat /\ Window \in Nat
        /\ granted[d] \in Nat
  BY RateAssumption DEF FetchInv, FetchTypes
<1>2. full \in Nat
  BY <1>1, RefilledBounds DEF BucketRecord
<1>3. bucket'[d] = [parts |-> IF full >= Window THEN full - Window ELSE full,
                    ts |-> clock, used |-> TRUE]
        /\ granted'[d] = IF full >= Window THEN granted[d] + 1 ELSE granted[d]
  BY DEF Acquire, FetchInv, FetchTypes
<1> DEFINE old     == IF Seen(b) = Unseen THEN [parts |-> Capacity * Window, ts |-> clock] ELSE Seen(b)
           elapsed == Local!Pick(clock - old.ts, 0, clock > old.ts)
           more    == old.parts + elapsed * Capacity
           parts   == Local!Pick(more, Capacity * Window, more < Capacity * Window)
<1>4. parts = full
  <2>1. CASE b.used
    <3>1. Seen(b) = [parts |-> b.parts, ts |-> b.ts] /\ Seen(b) # Unseen
            /\ b.parts \in Nat /\ b.ts \in Nat
      BY <1>1, <2>1 DEF Seen, BucketRecord
    <3>2. Local!Pick(clock - b.ts, 0, clock > b.ts) = Above(clock, b.ts)
            /\ Above(clock, b.ts) * Capacity \in Nat
      BY <1>1, <3>1 DEF Local!Pick, Above
    <3>3. QED
      BY <1>1, <2>1, <3>1, <3>2 DEF Local!Pick, Refilled, Least
  <2>2. CASE ~b.used
    <3>1. Seen(b) = Unseen
      BY <2>2 DEF Seen
    <3>2. Local!Pick(clock - clock, 0, clock > clock) = 0
      BY DEF Local!Pick
    <3>3. QED
      BY <1>1, <2>2, <3>1, <3>2 DEF Local!Pick, FetchInv, Account
  <2>3. QED
    BY <2>1, <2>2
<1>5. Local!InMemory(Seen(b), clock, Capacity, Window) =
        [allowed |-> parts >= Window,
         retry   |-> IF parts >= Window THEN 0 ELSE (Window - parts + Capacity - 1) \div Capacity,
         bucket  |-> [parts |-> Local!Pick(parts - Window, parts, parts >= Window), ts |-> clock]]
  <2> HIDE DEF b
  <2>1. QED
    BY DEF Local!InMemory
<1> HIDE DEF parts
<1>6. QED
  <2>1. Seen(bucket'[d]) = [parts |-> IF full >= Window THEN full - Window ELSE full, ts |-> clock]
    BY <1>3 DEF Seen
  <2> HIDE DEF full
  <2>2. (full >= Window) <=> granted'[d] = granted[d] + 1
    BY <1>1, <1>2, <1>3
  <2>3. Local!Pick(full - Window, full, full >= Window)
            = IF full >= Window THEN full - Window ELSE full
    BY DEF Local!Pick
  <2> DEFINE r == Local!InMemory(Seen(b), clock, Capacity, Window)
  <2>4. r.allowed = (full >= Window) /\ r.bucket = Seen(bucket'[d])
    <3> HIDE DEF b
    <3>1. QED
      BY <1>4, <1>5, <2>1, <2>3
  <2>5. QED
    BY <2>2, <2>4 DEF AsOneProcess

\* The two limiters are one: whatever has happened to a bucket, the limiter of one
\* process would answer a process's clock as the shared script does and keep the same
\* (rate-limiter.ts 76-98, 113-144).
THEOREM LimitersAgreeAlways ==
    ASSUME \A b \in [parts : Nat, ts : Nat] : b # Unseen
    PROVE  Spec => [][\A d \in Domains, p \in Procs :
                        Acquire(d, ClockOf(p)) => AsOneProcess(d, ClockOf(p))]_fetchVars
<1>1. Init => FetchInv
  BY FetchInvInit DEF Init
<1>2. FetchInv /\ [Next]_vars => FetchInv'
  BY FetchInvStep
<1>3. FetchInv => [\A d \in Domains, p \in Procs :
                     Acquire(d, ClockOf(p)) => AsOneProcess(d, ClockOf(p))]_fetchVars
  BY ClockInRange, AcquireAsOneProcess DEF FetchInv, FetchTypes
<1>4. QED
  BY <1>1, <1>2, <1>3, PTL DEF Spec

\* A refusal names the least wait: asked again k later, with nobody in between, the
\* limiter lets through exactly from the k it named on (rate-limiter.ts 90-94, 138).
THEOREM WaitIsLeastAlways ==
    ASSUME NEW c \in Nat \ {0}, NEW w \in Nat \ {0}, NEW clock \in Nat, NEW k \in Nat,
           NEW b \in [parts : Nat, ts : Nat],
           \A x \in [parts : Nat, ts : Nat] : x # Unseen,
           ~Local!InMemory(b, clock, c, w).allowed
    PROVE  LET r == Local!InMemory(b, clock, c, w) IN
           Local!InMemory(r.bucket, clock + k, c, w).allowed <=> k >= r.retry
<1> DEFINE elapsed == Local!Pick(clock - b.ts, 0, clock > b.ts)
           more    == b.parts + elapsed * c
           parts   == Local!Pick(more, c * w, more < c * w)
           later   == parts + k * c
<1>1. b.parts \in Nat /\ b.ts \in Nat /\ c * w \in Nat /\ c * w >= w /\ k * c \in Nat
  <2>1. PICK n \in Nat : c = n + 1
    <3>1. c - 1 \in Nat /\ c = (c - 1) + 1
      OBVIOUS
    <3>2. QED
      BY <3>1
  <2>2. (n + 1) * w = n * w + w /\ n * w \in Nat
    OBVIOUS
  <2>3. QED
    BY <2>1, <2>2
<1>2. elapsed \in Nat /\ elapsed * c \in Nat /\ more \in Nat
  <2>1. elapsed \in Nat
    BY <1>1 DEF Local!Pick
  <2> HIDE DEF elapsed
  <2>2. QED
    BY <1>1, <2>1
<1>3. Local!InMemory(b, clock, c, w) =
        [allowed |-> parts >= w,
         retry   |-> IF parts >= w THEN 0 ELSE (w - parts + c - 1) \div c,
         bucket  |-> [parts |-> Local!Pick(parts - w, parts, parts >= w), ts |-> clock]]
  BY Zenon DEF Local!InMemory
<1> HIDE DEF elapsed, more
<1>4. parts \in Nat
  BY <1>1, <1>2 DEF Local!Pick
<1> HIDE DEF parts
<1>5. ~(parts >= w)
  <2>1. Local!InMemory(b, clock, c, w).allowed = (parts >= w)
    BY <1>3
  <2>2. QED
    BY <2>1
<1> DEFINE kept == [parts |-> parts, ts |-> clock]
<1>6. Local!InMemory(b, clock, c, w).bucket = kept
        /\ Local!InMemory(b, clock, c, w).retry = (w - parts + c - 1) \div c
  BY <1>3, <1>5 DEF Local!Pick
<1>7. kept # Unseen
  BY <1>4
<1>8. Local!InMemory(kept, clock + k, c, w).allowed = (later >= w)
  <2>1. Local!Pick((clock + k) - clock, 0, (clock + k) > clock) = k
    BY DEF Local!Pick
  <2>2. Local!InMemory(kept, clock + k, c, w).allowed
          = (Local!Pick(later, c * w, later < c * w) >= w)
    BY <1>7, <2>1 DEF Local!InMemory
  <2>3. QED
    BY <1>1, <1>4, <2>2 DEF Local!Pick
<1>9. later >= w <=> k * c >= w - parts
  BY <1>1, <1>4
<1>10. w - parts \in Nat
  BY <1>4, <1>5
<1>11. k * c >= w - parts <=> k >= (w - parts + c - 1) \div c
  BY <1>10, CeilingIsLeast
<1>12. QED
  BY <1>6, <1>8, <1>9, <1>11

-----------------------------------------------------------------------------
(***************************************************************************)
(* The way of a posting.                                                   *)
(***************************************************************************)

\* A record that no queue trims here.
Kept(job) == JobOK(job) /\ job.status # "evicted"

DedupRecord == [job : Job, version : Versions \union {None}]

PipeTypes ==
    /\ kind \in Kinds /\ page \in Versions
    /\ stored \in Seq(Versions)
    /\ norm \in [Versions -> Job] /\ dedup \in [Versions -> DedupRecord]
    /\ \A v \in Versions : Kept(norm[v]) /\ Kept(dedup[v].job)

\* An artifact waits for its parse, has a job in queue normalization, or is empty and
\* in review; there is no such job of anything else.
Followed ==
    /\ unparsed \subseteq Artifacts
    /\ \A v \in unparsed : norm[v].status = "none"
    /\ \A v \in Versions : norm[v].status # "none" => v \in Artifacts \ unparsed
    /\ \A v \in Artifacts \ unparsed :
           norm[v].status = "none" => <<kind, v>> \in Empties /\ v \in review

\* A normalisation that is done has left a dedup job of its fingerprint or a review
\* item; every dedup job is of a stored version, under that version's id.
Routed ==
    /\ \A v \in Versions : norm[v].status = "completed" =>
           IF <<kind, v>> \in Candidates THEN dedup[JobId(v)].job.status # "none" ELSE v \in review
    /\ \A i \in Versions : dedup[i].job.status # "none" =>
           dedup[i].version \in Artifacts /\ JobId(dedup[i].version) = i
    /\ \A v \in review : <<kind, v>> \notin Candidates

\* As long as no version overtook another, only the last one stored is on its way, and
\* its dedup job, once completed, wrote the source row last.
LatestOnly ==
    ~overtaken =>
        /\ \A v \in unparsed : v = Last
        /\ \A v \in Versions : Pending(norm[v]) => v = Last
        /\ \A i \in Versions : Pending(dedup[i].job) => dedup[i].version = Last
        /\ \A i \in Versions :
               dedup[i].job.status = "completed" /\ dedup[i].version = Last => linked = Last

\* Dedup jobs and the source row are of candidates, and a surest last version, once the
\* source row is of it, is the one whose values the record has.
Written ==
    /\ \A i \in Versions : dedup[i].job.status # "none" =>
           <<kind, dedup[i].version>> \in Candidates
    /\ linked # None => linked \in Artifacts /\ <<kind, linked>> \in Candidates
    /\ linked = Last /\ IsSurest => row = Last

PipeInv == PipeTypes /\ Followed /\ Routed /\ LatestOnly /\ Written

\* A parsed record without a title makes no candidate: what runParse sends to review
\* normalize would not have let through either.
LEMMA EmptiesMakeNoCandidates == Empties \intersect Candidates = {}
<1>1. SUFFICES ASSUME NEW c \in Empties, c \in Candidates
               PROVE  FALSE
  OBVIOUS
<1>2. PICK k \in Kinds, v \in Versions : c = <<k, v>> /\ IsEmpty(ParsedOf(k, v))
  BY DEF Empties, Those
<1>3. Result(k, v).ok
  BY <1>1, <1>2 DEF Candidates, Those
<1>4. ParsedOf(k, v).title = {}
  BY <1>2 DEF IsEmpty
<1>5. Facts(ParsedOf(k, v)).title # None
  BY <1>3 DEF Result, Normalize
<1>6. Facts(ParsedOf(k, v)).title = Value(ParsedOf(k, v).title)
  BY DEF Facts
<1>7. QED
  BY <1>4, <1>5, <1>6 DEF Value

\* Which versions are alike.
LEMMA InAlike ==
    ASSUME NEW k \in Kinds, NEW v \in Versions, NEW w \in Versions
    PROVE  /\ <<k, v, w>> \in SameBody <=> Content(k, v) = Content(k, w)
           /\ <<k, v, w>> \in SamePrint <=> Result(k, v).fingerprint = Result(k, w).fingerprint
<1> DEFINE Bodies(a, b) == {<<a, b, c>> : c \in {u \in Versions : Content(a, b) = Content(a, u)}}
           Prints(a, b) == {<<a, b, c>> : c \in {u \in Versions :
                                Result(a, b).fingerprint = Result(a, u).fingerprint}}
<1>1. /\ SameBody = UNION {Bodies(a, b) : a \in Kinds, b \in Versions}
      /\ SamePrint = UNION {Prints(a, b) : a \in Kinds, b \in Versions}
  BY DEF SameBody, SamePrint, Alike
<1>2. /\ Content(k, v) = Content(k, w) => <<k, v, w>> \in Bodies(k, v)
      /\ Result(k, v).fingerprint = Result(k, w).fingerprint => <<k, v, w>> \in Prints(k, v)
  OBVIOUS
<1>3. ASSUME NEW a \in Kinds, NEW b \in Versions
      PROVE  /\ <<k, v, w>> \in Bodies(a, b) => Content(k, v) = Content(k, w)
             /\ <<k, v, w>> \in Prints(a, b) =>
                    Result(k, v).fingerprint = Result(k, w).fingerprint
  OBVIOUS
<1> HIDE DEF Bodies, Prints
<1>4. QED
  BY <1>1, <1>2, <1>3

\* Versions under one job id have one fingerprint.
LEMMA JobIdTellsPrints ==
    ASSUME kind \in Kinds, NEW v \in Versions
    PROVE  /\ JobId(v) \in Versions
           /\ \A w \in Versions : JobId(w) = JobId(v) => <<kind, w, v>> \in SamePrint
<1>1. \A w \in Versions : <<kind, w, w>> \in SamePrint
  BY InAlike
<1>2. \A w \in Versions : JobId(w) \in Versions /\ <<kind, w, JobId(w)>> \in SamePrint
  BY <1>1 DEF JobId
<1>3. ASSUME NEW w \in Versions, JobId(w) = JobId(v)
      PROVE  <<kind, w, v>> \in SamePrint
  <2> DEFINE i == JobId(v)
  <2>1. i \in Versions /\ <<kind, w, i>> \in SamePrint /\ <<kind, v, i>> \in SamePrint
    BY <1>2, <1>3
  <2> HIDE DEF i
  <2>2. Result(kind, w).fingerprint = Result(kind, i).fingerprint
    BY <2>1, InAlike
  <2>3. Result(kind, v).fingerprint = Result(kind, i).fingerprint
    BY <2>1, InAlike
  <2>4. QED
    BY <2>2, <2>3, InAlike
<1>4. QED
  BY <1>2, <1>3

\* What the calls on a record do to its status.
LEMMA KeptCalls ==
    ASSUME NEW job, Kept(job)
    PROVE  /\ job.status = "none" => Kept(Added(job)) /\ Added(job).status = "waiting"
           /\ job.status = "waiting" => Kept(Taken(job)) /\ Taken(job).status = "active"
           /\ Kept(Completed(job)) /\ Completed(job).status = "completed"
           /\ job.status = "active" =>
                  /\ Kept(Thrown(job)) /\ Thrown(job).status \in {"waiting", "failed"}
                  /\ Kept(Stalled(job)) /\ Stalled(job).status \in {"waiting", "failed"}
<1>1. job.status = "none" => JobOK(Added(job)) /\ Added(job).status = "waiting"
  BY AddedOK DEF Kept, Added, NewJob
<1>2. job.status = "waiting" => JobOK(Taken(job)) /\ Taken(job).status = "active"
  BY TakenOK DEF Kept
<1>3. JobOK(Completed(job)) /\ Completed(job).status = "completed"
  BY DoneOK DEF Kept
<1>4. job.status = "active" => JobOK(Thrown(job)) /\ Thrown(job).status \in {"waiting", "failed"}
  BY ThrownOK DEF Kept
<1>5. job.status = "active" => JobOK(Stalled(job)) /\ Stalled(job).status \in {"waiting", "failed"}
  BY StalledOK DEF Kept
<1>6. QED
  BY <1>1, <1>2, <1>3, <1>4, <1>5 DEF Kept

\* The first job under an id.
LEMMA FirstAdd == Kept(NoJob) /\ Kept(Added(NoJob)) /\ Added(NoJob).status = "waiting"
<1>1. JobOK(NoJob) /\ NoJob.status = "none"
  BY NewJobOK DEF NoJob, NewJob, JobStatus
<1>2. Kept(NoJob)
  BY <1>1 DEF Kept
<1>3. QED
  BY <1>1, <1>2, KeptCalls

\* What is written stays as it is when no dedup job, version or write is new.
LEMMA WrittenStays ==
    ASSUME Written, UNCHANGED <<kind, stored, linked, row>>,
           \A i \in Versions : dedup'[i].version = dedup[i].version,
           \A i \in Versions : dedup'[i].job.status # "none" => dedup[i].job.status # "none"
    PROVE  Written'
<1>1. Artifacts' = Artifacts /\ Last' = Last
  BY DEF Artifacts, Last
<1>2. IsSurest' = IsSurest
  BY <1>1 DEF IsSurest, Surer
<1>3. ASSUME NEW i \in Versions, dedup'[i].job.status # "none"
      PROVE  <<kind, dedup'[i].version>> \in Candidates
  <2>1. dedup[i].job.status # "none" /\ dedup'[i].version = dedup[i].version
    BY <1>3
  <2>2. QED
    BY <2>1 DEF Written
<1>4. QED
  BY <1>1, <1>2, <1>3 DEF Written

LEMMA PipeInvInit ==
    ASSUME Init
    PROVE  PipeInv
<1>1. NoJob \in Job /\ Kept(NoJob) /\ NoJob.status = "none"
  BY FirstAdd DEF Kept, JobOK, NoJob, NewJob
<1>2. Artifacts = {}
  BY DEF Init, Artifacts
<1>3. \A v \in Versions : norm[v] = NoJob /\ dedup[v].job = NoJob
  BY DEF Init
<1>4. PipeTypes
  <2>1. [job |-> NoJob, version |-> None] \in DedupRecord
    BY <1>1 DEF DedupRecord
  <2>2. QED
    BY <1>1, <1>3, <2>1, VersionAssumption DEF Init, PipeTypes
<1>5. Followed
  BY <1>1, <1>2, <1>3 DEF Init, Followed
<1>6. Routed
  BY <1>1, <1>3 DEF Init, Routed
<1>7. LatestOnly
  BY <1>1, <1>3 DEF Init, LatestOnly, Pending
<1>8. Written
  BY <1>1, <1>3 DEF Init, Written
<1>9. QED
  BY <1>4, <1>5, <1>6, <1>7, <1>8 DEF PipeInv

\* A call on a job of queue normalization that does not complete it.
LEMMA NormKeeps ==
    ASSUME PipeInv, NEW v \in Versions, NEW job, Kept(job),
           Pending(norm[v]), job.status \in {"waiting", "active", "failed"},
           norm' = [norm EXCEPT ![v] = job],
           UNCHANGED <<kind, page, stored, unparsed, dedup, review, linked, row, overtaken>>
    PROVE  PipeInv'
<1>1. /\ norm'[v] = job /\ \A w \in Versions : w # v => norm'[w] = norm[w]
      /\ norm' \in [Versions -> Job]
  BY DEF PipeInv, PipeTypes, Kept, JobOK
<1>2. Artifacts' = Artifacts /\ Last' = Last /\ \A w \in Versions : JobId(w)' = JobId(w)
  BY DEF Artifacts, Last, JobId
<1>3. norm[v].status # "none" /\ norm'[v].status # "none" /\ norm'[v].status # "completed"
  BY <1>1 DEF Pending
<1>4. PipeTypes'
  BY <1>1 DEF PipeInv, PipeTypes
<1>5. Followed'
  BY <1>1, <1>2, <1>3 DEF PipeInv, Followed
<1>6. Routed'
  <2>1. \A w \in Versions : norm'[w].status = "completed" => norm[w].status = "completed"
    BY <1>1, <1>3
  <2>2. \A i \in Versions : dedup[i].job.status # "none" => dedup[i].version \in Artifacts
    BY DEF PipeInv, Routed
  <2>3. Artifacts \subseteq Versions
    BY DEF PipeInv, PipeTypes, Artifacts
  <2>4. QED
    BY <1>2, <2>1, <2>2, <2>3 DEF PipeInv, Routed
<1>7. LatestOnly'
  <2>1. \A w \in Versions : Pending(norm'[w]) => Pending(norm[w])
    BY <1>1
  <2>2. QED
    BY <1>2, <2>1 DEF PipeInv, LatestOnly
<1>8. Written'
  BY WrittenStays DEF PipeInv
<1>9. QED
  BY <1>4, <1>5, <1>6, <1>7, <1>8 DEF PipeInv

\* A write keeps the record at a surest last version.
LEMMA WriteKeeps ==
    ASSUME PipeInv, NEW i \in Versions, Pending(dedup[i].job), Writes(dedup[i].version),
           UNCHANGED <<kind, stored>>,
           \A k \in Versions : dedup'[k].version = dedup[k].version,
           \A k \in Versions : dedup'[k].job.status # "none" => dedup[k].job.status # "none"
    PROVE  Written'
<1> DEFINE v == dedup[i].version
<1>1. Artifacts' = Artifacts /\ Last' = Last
  BY DEF Artifacts, Last
<1>2. IsSurest' = IsSurest
  BY <1>1 DEF IsSurest, Surer
<1>3. v \in Artifacts /\ <<kind, v>> \in Candidates
  BY DEF PipeInv, Routed, Written, Pending
<1>4. linked' = v /\ (row' = v \/ (MayStay(v, linked) /\ row' = row))
  BY DEF Writes
<1> HIDE DEF v
<1>5. ASSUME v = Last, IsSurest
      PROVE  row' = Last
  <2>1. CASE linked = None
    BY <1>4, <1>5, <2>1 DEF MayStay
  <2>2. CASE linked # None /\ linked # Last
    <3>1. linked \in Artifacts /\ <<kind, linked>> \in Candidates
      BY <2>2 DEF PipeInv, Written
    <3>2. Surer(Last, linked)
      BY <1>5, <2>2, <3>1 DEF IsSurest
    <3>3. QED
      BY <1>4, <1>5, <3>2 DEF MayStay
  <2>3. CASE linked = Last
    BY <1>4, <1>5, <2>3 DEF PipeInv, Written
  <2>4. QED
    BY <2>1, <2>2, <2>3
<1>6. ASSUME NEW k \in Versions, dedup'[k].job.status # "none"
      PROVE  <<kind, dedup'[k].version>> \in Candidates
  <2>1. dedup[k].job.status # "none" /\ dedup'[k].version = dedup[k].version
    BY <1>6
  <2>2. QED
    BY <2>1 DEF PipeInv, Written
<1>7. QED
  BY <1>1, <1>2, <1>3, <1>4, <1>5, <1>6 DEF Written

\* A call on a job of queue deduplication.
LEMMA DedupKeeps ==
    ASSUME PipeInv, NEW i \in Versions, NEW job, Kept(job),
           Pending(dedup[i].job), job.status \in {"waiting", "active", "failed", "completed"},
           dedup' = [dedup EXCEPT ![i].job = job],
           Writes(dedup[i].version) \/ UNCHANGED <<linked, row>>,
           job.status = "completed" => Writes(dedup[i].version),
           UNCHANGED <<kind, page, stored, unparsed, norm, review, overtaken>>
    PROVE  PipeInv'
<1>1. /\ dedup'[i].job = job /\ dedup'[i].version = dedup[i].version
      /\ \A k \in Versions : k # i => dedup'[k] = dedup[k]
      /\ dedup' \in [Versions -> DedupRecord]
  BY DEF PipeInv, PipeTypes, Kept, JobOK, DedupRecord
<1>2. Artifacts' = Artifacts /\ Last' = Last /\ \A w \in Versions : JobId(w)' = JobId(w)
  BY DEF Artifacts, Last, JobId
<1>3. Artifacts \subseteq Versions
  BY DEF PipeInv, PipeTypes, Artifacts
<1>4. dedup[i].job.status # "none" /\ dedup'[i].job.status # "none"
  BY <1>1 DEF Pending
<1>5. \A k \in Versions :
          /\ dedup'[k].version = dedup[k].version
          /\ dedup'[k].job.status = "none" <=> dedup[k].job.status = "none"
  BY <1>1, <1>4
<1>6. PipeTypes'
  BY <1>1 DEF PipeInv, PipeTypes
<1>7. Followed'
  BY <1>2 DEF PipeInv, Followed
<1>8. Routed'
  <2>1. \A v \in Versions : norm'[v].status = "completed" =>
            IF <<kind, v>>' \in Candidates THEN dedup'[JobId(v)'].job.status # "none"
                                           ELSE v \in review'
    BY <1>2, <1>5, JobIdTellsPrints DEF PipeInv, Routed, PipeTypes
  <2>2. ASSUME NEW k \in Versions, dedup'[k].job.status # "none"
        PROVE  dedup'[k].version \in Artifacts' /\ JobId(dedup[k].version)' = k
    <3>1. dedup[k].version \in Artifacts /\ JobId(dedup[k].version) = k
      BY <1>5, <2>2 DEF PipeInv, Routed
    <3>2. JobId(dedup[k].version)' = JobId(dedup'[k].version)
      BY DEF JobId
    <3>3. QED
      BY <1>2, <1>5, <3>1, <3>2
  <2>3. \A v \in review' : <<kind, v>>' \notin Candidates
    BY DEF PipeInv, Routed
  <2>4. QED
    BY <2>1, <2>2, <2>3 DEF Routed
<1>9. LatestOnly'
  <2>1. SUFFICES ASSUME ~overtaken
                 PROVE  /\ \A v \in unparsed' : v = Last'
                        /\ \A v \in Versions : Pending(norm'[v]) => v = Last'
                        /\ \A k \in Versions : Pending(dedup'[k].job) => dedup'[k].version = Last'
                        /\ \A k \in Versions :
                               dedup'[k].job.status = "completed" /\ dedup'[k].version = Last'
                                   => linked' = Last'
    BY DEF LatestOnly
  <2>2. dedup[i].version = Last
    BY <2>1 DEF PipeInv, LatestOnly
  <2>3. \A v \in unparsed' : v = Last'
    BY <1>2, <2>1 DEF PipeInv, LatestOnly
  <2>4. \A v \in Versions : Pending(norm'[v]) => v = Last'
    BY <1>2, <2>1 DEF PipeInv, LatestOnly
  <2>5. \A k \in Versions : Pending(dedup'[k].job) => dedup'[k].version = Last'
    BY <1>1, <1>2, <2>1, <2>2 DEF PipeInv, LatestOnly
  <2>6. ASSUME NEW k \in Versions, dedup'[k].job.status = "completed", dedup'[k].version = Last'
        PROVE  linked' = Last'
    <3>1. CASE k = i
      BY <1>1, <1>2, <2>2, <2>6, <3>1 DEF Writes
    <3>2. CASE k # i
      <4>1. linked = Last
        BY <1>1, <1>2, <2>1, <2>6, <3>2 DEF PipeInv, LatestOnly
      <4>2. QED
        BY <1>2, <2>2, <4>1 DEF Writes
    <3>3. QED
      BY <3>1, <3>2
  <2>7. QED
    BY <2>3, <2>4, <2>5, <2>6
<1>10. Written'
  <2>1. CASE Writes(dedup[i].version)
    BY <1>5, <2>1, WriteKeeps
  <2>2. CASE UNCHANGED <<linked, row>>
    BY <1>5, <2>2, WrittenStays DEF PipeInv
  <2>3. QED
    BY <2>1, <2>2
<1>11. QED
  BY <1>6, <1>7, <1>8, <1>9, <1>10 DEF PipeInv

\* The end of a normalisation, reported or not: its result is routed.
LEMMA RoutingKeeps ==
    ASSUME PipeInv, NEW v \in Versions, NEW job, Kept(job),
           norm[v].status = "active", job.status \in {"waiting", "failed", "completed"},
           Routes(v), norm' = [norm EXCEPT ![v] = job],
           UNCHANGED <<kind, page, stored, unparsed, linked, row, overtaken>>
    PROVE  PipeInv'
<1> DEFINE i == JobId(v)
<1>1. /\ norm'[v] = job /\ \A w \in Versions : w # v => norm'[w] = norm[w]
      /\ norm' \in [Versions -> Job]
  BY DEF PipeInv, PipeTypes, Kept, JobOK
<1>2. Artifacts' = Artifacts /\ Last' = Last /\ \A w \in Versions : JobId(w)' = JobId(w)
  BY DEF Artifacts, Last, JobId
<1>3. v \in Artifacts /\ v \notin unparsed /\ Artifacts \subseteq Versions
  BY DEF PipeInv, PipeTypes, Followed, Artifacts
<1>4. i \in Versions /\ \A w \in Versions : JobId(w) \in Versions
  BY JobIdTellsPrints DEF PipeInv, PipeTypes
<1> DEFINE fresh == [job |-> Added(NoJob), version |-> v]
<1>5. /\ fresh \in DedupRecord /\ Kept(fresh.job)
      /\ fresh.job.status = "waiting" /\ fresh.version = v
  BY FirstAdd DEF DedupRecord, Kept, JobOK
<1>6. \/ dedup' = dedup
      \/ dedup[i].job.status = "none" /\ dedup' = [dedup EXCEPT ![i] = fresh]
  BY DEF Routes
<1>7. IF <<kind, v>> \in Candidates
      THEN /\ dedup[i].job.status = "none" => dedup' = [dedup EXCEPT ![i] = fresh]
           /\ review' = review
      ELSE review' = review \union {v}
  BY DEF Routes
<1> HIDE DEF i, fresh
<1>8. /\ dedup' \in [Versions -> DedupRecord]
      /\ \A k \in Versions :
             \/ dedup'[k] = dedup[k]
             \/ k = i /\ dedup[k].job.status = "none" /\ dedup'[k] = fresh
  BY <1>4, <1>5, <1>6 DEF PipeInv, PipeTypes
<1>9. <<kind, v>> \in Candidates => dedup'[i].job.status # "none"
  BY <1>4, <1>5, <1>7, <1>8 DEF PipeInv, PipeTypes
<1>10. PipeTypes'
  BY <1>1, <1>5, <1>8 DEF PipeInv, PipeTypes
<1>11. Followed'
  <2>1. review \subseteq review'
    BY <1>7
  <2>2. \A w \in Versions : norm'[w].status = "none" <=> norm[w].status = "none"
    BY <1>1
  <2>3. QED
    BY <1>2, <1>3, <2>1, <2>2 DEF PipeInv, Followed
<1>12. Routed'
  <2>1. ASSUME NEW w \in Versions, norm'[w].status = "completed"
        PROVE  IF <<kind, w>>' \in Candidates THEN dedup'[JobId(w)'].job.status # "none"
                                              ELSE w \in review'
    <3>1. CASE w = v
      BY <1>2, <1>7, <1>9, <3>1 DEF i
    <3>2. CASE w # v
      <4>1. IF <<kind, w>> \in Candidates THEN dedup[JobId(w)].job.status # "none"
                                          ELSE w \in review
        BY <1>1, <2>1, <3>2 DEF PipeInv, Routed
      <4>2. dedup[JobId(w)].job.status # "none" => dedup'[JobId(w)] = dedup[JobId(w)]
        BY <1>4, <1>8
      <4>3. QED
        BY <1>2, <1>7, <4>1, <4>2
    <3>3. QED
      BY <3>1, <3>2
  <2>2. ASSUME NEW k \in Versions, dedup'[k].job.status # "none"
        PROVE  dedup'[k].version \in Artifacts' /\ JobId(dedup[k].version)' = k
    <3>1. JobId(dedup[k].version)' = JobId(dedup'[k].version)
      BY DEF JobId
    <3>2. CASE dedup'[k] = dedup[k]
      <4>1. dedup[k].version \in Artifacts /\ JobId(dedup[k].version) = k
        BY <2>2, <3>2 DEF PipeInv, Routed
      <4>2. QED
        BY <1>2, <3>1, <3>2, <4>1
    <3>3. CASE k = i /\ dedup'[k] = fresh
      <4>1. dedup'[k].version = v /\ JobId(v) = k
        BY <1>5, <3>3 DEF i
      <4>2. QED
        BY <1>2, <1>3, <3>1, <4>1
    <3>4. QED
      BY <1>8, <3>2, <3>3
  <2>3. \A w \in review' : <<kind, w>>' \notin Candidates
    BY <1>7 DEF PipeInv, Routed
  <2>4. QED
    BY <2>1, <2>2, <2>3 DEF Routed
<1>13. LatestOnly'
  <2>1. SUFFICES ASSUME ~overtaken
                 PROVE  /\ \A w \in unparsed' : w = Last'
                        /\ \A w \in Versions : Pending(norm'[w]) => w = Last'
                        /\ \A k \in Versions : Pending(dedup'[k].job) => dedup'[k].version = Last'
                        /\ \A k \in Versions :
                               dedup'[k].job.status = "completed" /\ dedup'[k].version = Last'
                                   => linked' = Last'
    BY DEF LatestOnly
  <2>2. v = Last
    BY <2>1 DEF PipeInv, LatestOnly, Pending
  <2>3. \A w \in unparsed' : w = Last'
    BY <1>2, <2>1 DEF PipeInv, LatestOnly
  <2>4. \A w \in Versions : Pending(norm'[w]) => w = Last'
    BY <1>1, <1>2, <2>1, <2>2 DEF PipeInv, LatestOnly
  <2>5. \A k \in Versions : Pending(dedup'[k].job) => dedup'[k].version = Last'
    BY <1>2, <1>5, <1>8, <2>1, <2>2 DEF PipeInv, LatestOnly
  <2>6. \A k \in Versions :
            dedup'[k].job.status = "completed" /\ dedup'[k].version = Last' => linked' = Last'
    BY <1>2, <1>5, <1>8, <2>1 DEF PipeInv, LatestOnly
  <2>7. QED
    BY <2>3, <2>4, <2>5, <2>6
<1>14. Written'
  <2>1. IsSurest' = IsSurest
    BY <1>2 DEF IsSurest, Surer
  <2>2. \A k \in Versions : dedup'[k].job.status # "none" =>
            <<kind, dedup'[k].version>> \in Candidates
    <3>1. dedup' = dedup \/ <<kind, v>> \in Candidates
      BY DEF Routes
    <3>2. QED
      BY <1>5, <1>8, <3>1 DEF PipeInv, Written
  <2>3. QED
    BY <1>2, <2>1, <2>2 DEF PipeInv, Written
<1>15. QED
  BY <1>10, <1>11, <1>12, <1>13, <1>14 DEF PipeInv

\* A parse: the artifact is empty and goes to review, or its first job is added.
LEMMA ParseKeeps ==
    ASSUME PipeInv, NEW v \in Versions, RunParse(v)
    PROVE  PipeInv'
<1>1. /\ v \in unparsed /\ unparsed' = unparsed \ {v}
      /\ UNCHANGED <<kind, page, stored, dedup, linked, row, overtaken>>
  BY DEF RunParse
<1>2. Artifacts' = Artifacts /\ Last' = Last /\ \A w \in Versions : JobId(w)' = JobId(w)
  BY <1>1 DEF Artifacts, Last, JobId
<1>3. v \in Artifacts /\ Artifacts \subseteq Versions /\ norm[v].status = "none"
  BY <1>1 DEF PipeInv, PipeTypes, Followed, Artifacts
<1> DEFINE job == Added(norm[v])
<1>4. Kept(job) /\ job.status = "waiting"
  BY <1>3, KeptCalls DEF PipeInv, PipeTypes
<1> HIDE DEF job
<1>5. \/ /\ <<kind, v>> \in Empties /\ review' = review \union {v} /\ norm' = norm
      \/ /\ <<kind, v>> \notin Empties /\ review' = review /\ norm' = [norm EXCEPT ![v] = job]
  BY DEF RunParse, job
<1>6. /\ norm' \in [Versions -> Job]
      /\ \A w \in Versions : norm'[w] = norm[w] \/ (w = v /\ norm'[w] = job)
      /\ <<kind, v>> \notin Empties => norm'[v] = job
  BY <1>4, <1>5 DEF PipeInv, PipeTypes, Kept, JobOK
<1>7. PipeTypes'
  BY <1>1, <1>4, <1>6 DEF PipeInv, PipeTypes
<1>8. Followed'
  <2>1. unparsed' \subseteq Artifacts'
    BY <1>1, <1>2 DEF PipeInv, Followed
  <2>2. \A w \in unparsed' : norm'[w].status = "none"
    BY <1>1, <1>3, <1>6 DEF PipeInv, Followed
  <2>3. \A w \in Versions : norm'[w].status # "none" => w \in Artifacts' \ unparsed'
    BY <1>1, <1>2, <1>3, <1>6 DEF PipeInv, Followed
  <2>4. ASSUME NEW w \in Artifacts' \ unparsed', norm'[w].status = "none"
        PROVE  <<kind, w>>' \in Empties /\ w \in review'
    <3>1. w \in Versions
      BY <1>2, <1>3
    <3>2. CASE w = v
      BY <1>1, <1>4, <1>5, <1>6, <2>4, <3>2
    <3>3. CASE w # v
      <4>1. w \in Artifacts \ unparsed /\ norm[w].status = "none"
        BY <1>1, <1>2, <1>6, <2>4, <3>1, <3>3
      <4>2. <<kind, w>> \in Empties /\ w \in review
        BY <4>1 DEF PipeInv, Followed
      <4>3. QED
        BY <1>1, <1>5, <4>2
    <3>4. QED
      BY <3>2, <3>3
  <2>5. QED
    BY <2>1, <2>2, <2>3, <2>4 DEF Followed
<1>9. Routed'
  <2>1. ASSUME NEW w \in Versions, norm'[w].status = "completed"
        PROVE  IF <<kind, w>>' \in Candidates THEN dedup'[JobId(w)'].job.status # "none"
                                              ELSE w \in review'
    <3>1. norm[w].status = "completed"
      BY <1>4, <1>6, <2>1
    <3>2. QED
      BY <1>1, <1>2, <1>5, <3>1 DEF PipeInv, Routed
  <2>2. ASSUME NEW k \in Versions, dedup'[k].job.status # "none"
        PROVE  dedup'[k].version \in Artifacts' /\ JobId(dedup[k].version)' = k
    <3>1. dedup[k].version \in Artifacts /\ JobId(dedup[k].version) = k
      BY <1>1, <2>2 DEF PipeInv, Routed
    <3>2. JobId(dedup[k].version)' = JobId(dedup'[k].version)
      BY <1>1 DEF JobId
    <3>3. QED
      BY <1>1, <1>2, <3>1, <3>2
  <2>3. \A w \in review' : <<kind, w>>' \notin Candidates
    BY <1>1, <1>5, EmptiesMakeNoCandidates DEF PipeInv, Routed
  <2>4. QED
    BY <2>1, <2>2, <2>3 DEF Routed
<1>10. LatestOnly'
  <2>1. overtaken \/ v = Last
    BY <1>1 DEF PipeInv, LatestOnly
  <2>2. ~overtaken => \A w \in Versions : Pending(norm'[w]) => w = Last'
    BY <1>2, <1>6, <2>1 DEF PipeInv, LatestOnly
  <2>3. QED
    BY <1>1, <1>2, <2>2 DEF PipeInv, LatestOnly
<1>11. Written'
  BY <1>1, WrittenStays DEF PipeInv
<1>12. QED
  BY <1>7, <1>8, <1>9, <1>10, <1>11 DEF PipeInv

\* A body that is stored: a version that was not stored before, and what no job knows.
LEMMA StoreKeeps ==
    ASSUME PipeInv, ~ \E v \in Artifacts : <<kind, v, page>> \in SameBody,
           stored' = Append(stored, page), unparsed' = unparsed \union {page},
           overtaken' = (overtaken \/ OnTheWay),
           UNCHANGED <<kind, page, norm, dedup, review, linked, row>>
    PROVE  PipeInv'
<1>1. page \in Versions /\ kind \in Kinds /\ stored \in Seq(Versions)
  BY DEF PipeInv, PipeTypes
<1>2. page \notin Artifacts
  <2>1. <<kind, page, page>> \in SameBody
    BY <1>1, InAlike
  <2>2. QED
    BY <2>1
<1>3. /\ stored' \in Seq(Versions)
      /\ Artifacts' = Artifacts \union {page} /\ Last' = page
  <2>1. /\ stored' \in Seq(Versions) /\ Len(stored') = Len(stored) + 1
        /\ stored'[Len(stored) + 1] = page
        /\ \A n \in 1..Len(stored) : stored'[n] = stored[n]
    BY <1>1
  <2>2. DOMAIN stored = 1..Len(stored) /\ DOMAIN stored' = 1..(Len(stored) + 1) /\ Len(stored) \in Nat
    BY <1>1, <2>1
  <2>3. Last' = page
    BY <2>1 DEF Last
  <2>4. Artifacts' = Artifacts \union {page}
    BY <2>1, <2>2 DEF Artifacts
  <2>5. QED
    BY <2>1, <2>3, <2>4
<1>4. Artifacts \subseteq Versions
  BY <1>1 DEF Artifacts
<1>5. norm[page].status = "none" /\ page \notin unparsed
  BY <1>1, <1>2 DEF PipeInv, Followed
<1>6. PipeTypes'
  BY <1>3 DEF PipeInv, PipeTypes
<1>7. Followed'
  <2>1. unparsed' \subseteq Artifacts' /\ \A v \in unparsed' : norm'[v].status = "none"
    BY <1>3, <1>5 DEF PipeInv, Followed
  <2>2. \A v \in Versions : norm'[v].status # "none" => v \in Artifacts' \ unparsed'
    BY <1>3, <1>5 DEF PipeInv, Followed
  <2>3. Artifacts' \ unparsed' = Artifacts \ unparsed
    BY <1>2, <1>3
  <2>4. \A v \in Artifacts' \ unparsed' :
            norm'[v].status = "none" => <<kind, v>>' \in Empties /\ v \in review'
    BY <2>3 DEF PipeInv, Followed
  <2>5. QED
    BY <2>1, <2>2, <2>4 DEF Followed
<1>8. Routed'
  <2>1. \A v \in Versions : JobId(v)' = JobId(v)
    BY DEF JobId
  <2>2. \A v \in Versions : norm'[v].status = "completed" =>
            IF <<kind, v>>' \in Candidates THEN dedup'[JobId(v)'].job.status # "none"
                                           ELSE v \in review'
    BY <2>1 DEF PipeInv, Routed
  <2>3. ASSUME NEW k \in Versions, dedup'[k].job.status # "none"
        PROVE  dedup'[k].version \in Artifacts' /\ JobId(dedup[k].version)' = k
    <3>1. dedup[k].version \in Artifacts /\ JobId(dedup[k].version) = k
      BY <2>3 DEF PipeInv, Routed
    <3>2. JobId(dedup[k].version)' = JobId(dedup'[k].version)
      BY DEF JobId
    <3>3. QED
      BY <1>3, <3>1, <3>2
  <2>4. \A v \in review' : <<kind, v>>' \notin Candidates
    BY DEF PipeInv, Routed
  <2>5. QED
    BY <2>2, <2>3, <2>4 DEF Routed
<1>9. LatestOnly'
  <2>1. SUFFICES ASSUME ~overtaken'
                 PROVE  /\ \A v \in unparsed' : v = Last'
                        /\ \A v \in Versions : Pending(norm'[v]) => v = Last'
                        /\ \A k \in Versions : Pending(dedup'[k].job) => dedup'[k].version = Last'
                        /\ \A k \in Versions :
                               dedup'[k].job.status = "completed" /\ dedup'[k].version = Last'
                                   => linked' = Last'
    BY DEF LatestOnly
  <2>2. unparsed = {} /\ \A v \in Versions : ~Pending(norm[v]) /\ ~Pending(dedup[v].job)
    BY <2>1 DEF OnTheWay
  <2>3. ASSUME NEW k \in Versions, dedup[k].job.status = "completed"
        PROVE  dedup[k].version # page
    BY <1>2, <2>3 DEF PipeInv, Routed
  <2>4. QED
    BY <1>3, <2>2, <2>3
<1>10. Written'
  <2>1. linked' # Last'
    BY <1>1, <1>2, <1>3, VersionAssumption DEF PipeInv, Written
  <2>2. QED
    BY <1>3, <2>1 DEF PipeInv, Written
<1>11. QED
  BY <1>6, <1>7, <1>8, <1>9, <1>10 DEF PipeInv

\* A step that leaves the posting's way alone; the site may change meanwhile.
LEMMA AsideKeeps ==
    ASSUME PipeInv, page' \in Versions,
           UNCHANGED <<kind, stored, unparsed, norm, dedup, review, linked, row, overtaken>>
    PROVE  PipeInv'
<1>1. Artifacts' = Artifacts /\ Last' = Last /\ \A w \in Versions : JobId(w)' = JobId(w)
  BY DEF Artifacts, Last, JobId
<1>2. PipeTypes'
  BY DEF PipeInv, PipeTypes
<1>3. Followed'
  BY <1>1 DEF PipeInv, Followed
<1>4. Routed'
  <2>1. \A v \in Versions : norm'[v].status = "completed" =>
            IF <<kind, v>>' \in Candidates THEN dedup'[JobId(v)'].job.status # "none"
                                           ELSE v \in review'
    BY <1>1 DEF PipeInv, Routed
  <2>2. ASSUME NEW k \in Versions, dedup'[k].job.status # "none"
        PROVE  dedup'[k].version \in Artifacts' /\ JobId(dedup[k].version)' = k
    <3>1. dedup[k].version \in Artifacts /\ JobId(dedup[k].version) = k
      BY <2>2 DEF PipeInv, Routed
    <3>2. JobId(dedup[k].version)' = JobId(dedup'[k].version)
      BY DEF JobId
    <3>3. QED
      BY <1>1, <3>1, <3>2
  <2>3. \A v \in review' : <<kind, v>>' \notin Candidates
    BY DEF PipeInv, Routed
  <2>4. QED
    BY <2>1, <2>2, <2>3 DEF Routed
<1>5. LatestOnly'
  BY <1>1 DEF PipeInv, LatestOnly
<1>6. Written'
  BY WrittenStays DEF PipeInv
<1>7. QED
  BY <1>2, <1>3, <1>4, <1>5, <1>6 DEF PipeInv

LEMMA PipeInvStep ==
    ASSUME PipeInv, [Next]_vars
    PROVE  PipeInv'
<1>1. \A v \in Versions : Kept(norm[v]) /\ Kept(dedup[v].job) /\ page \in Versions
  BY DEF PipeInv, PipeTypes
<1>2. CASE UNCHANGED pipeVars
  BY <1>2, AsideKeeps DEF pipeVars, PipeInv, PipeTypes
<1>3. ASSUME NEW f \in Fetches, FetchBody(f)
      PROVE  PipeInv'
  <2>1. UNCHANGED <<kind, page, norm, dedup, review, linked, row>>
    BY <1>3 DEF FetchBody
  <2>2. CASE \E v \in Artifacts : <<kind, v, page>> \in SameBody
    BY <1>3, <2>1, <2>2, AsideKeeps DEF FetchBody, PipeInv, PipeTypes
  <2>3. CASE ~ \E v \in Artifacts : <<kind, v, page>> \in SameBody
    BY <1>3, <2>1, <2>3, StoreKeeps DEF FetchBody
  <2>4. QED
    BY <2>2, <2>3
<1>4. ASSUME NEW v \in Versions, SiteChanges(v)
      PROVE  PipeInv'
  BY <1>4, AsideKeeps DEF SiteChanges
<1>5. ASSUME NEW v \in Versions, RunParse(v)
      PROVE  PipeInv'
  BY <1>5, ParseKeeps
<1>6. ASSUME NEW v \in Versions, TakeNormalize(v) \/ NormalizeThrows(v)
      PROVE  PipeInv'
  <2>1. /\ UNCHANGED <<kind, page, stored, unparsed, dedup, review, linked, row, overtaken>>
        /\ Pending(norm[v])
    BY <1>6 DEF TakeNormalize, NormalizeThrows, Pending
  <2>2. PICK job : /\ Kept(job) /\ job.status \in {"waiting", "active", "failed"}
                   /\ norm' = [norm EXCEPT ![v] = job]
    BY <1>1, <1>6, KeptCalls DEF TakeNormalize, NormalizeThrows
  <2>3. QED
    BY <2>1, <2>2, NormKeeps
<1>7. ASSUME NEW v \in Versions, RunNormalize(v)
      PROVE  PipeInv'
  <2>1. /\ UNCHANGED <<kind, page, stored, unparsed, linked, row, overtaken>>
        /\ norm[v].status = "active" /\ Routes(v)
    BY <1>7 DEF RunNormalize
  <2>2. PICK job : /\ Kept(job) /\ job.status \in {"waiting", "failed", "completed"}
                   /\ norm' = [norm EXCEPT ![v] = job]
    BY <1>1, <1>7, KeptCalls DEF RunNormalize
  <2>3. QED
    BY <2>1, <2>2, RoutingKeeps
<1>8. ASSUME NEW i \in Versions, TakeDedup(i) \/ RunDedup(i) \/ DedupThrows(i)
      PROVE  PipeInv'
  <2>1. /\ UNCHANGED <<kind, page, stored, unparsed, norm, review, overtaken>>
        /\ Pending(dedup[i].job)
        /\ Writes(dedup[i].version) \/ UNCHANGED <<linked, row>>
    BY <1>8 DEF TakeDedup, RunDedup, DedupThrows, Pending
  <2>2. PICK job : /\ Kept(job) /\ job.status \in {"waiting", "active", "failed", "completed"}
                   /\ dedup' = [dedup EXCEPT ![i].job = job]
                   /\ job.status = "completed" => Writes(dedup[i].version)
    <3>1. CASE TakeDedup(i)
      BY <1>1, <3>1, KeptCalls DEF TakeDedup
    <3>2. CASE RunDedup(i)
      BY <1>1, <3>2, KeptCalls DEF RunDedup
    <3>3. CASE DedupThrows(i)
      BY <1>1, <3>3, KeptCalls DEF DedupThrows
    <3>4. QED
      BY <1>8, <3>1, <3>2, <3>3
  <2>3. QED
    BY <2>1, <2>2, DedupKeeps
<1>9. QED
  BY <1>2, <1>3, <1>4, <1>5, <1>6, <1>7, <1>8 DEF Next, vars

LEMMA PipeInvArrives ==
    ASSUME PipeInv
    PROVE  NewestArrives
<1>1. SUFFICES ASSUME stored # <<>>, ~overtaken, ~OnTheWay, IsNewPrint,
                      \A v \in Versions : norm[v].status # "failed",
                      \A i \in Versions : dedup[i].job.status # "failed"
               PROVE  IF <<kind, Last>> \in Candidates
                      THEN linked = Last /\ (IsSurest => row = Last) /\ Last \notin review
                      ELSE Last \in review
  BY DEF NewestArrives
<1>2. Last \in Artifacts /\ Artifacts \subseteq Versions
  <2>1. stored \in Seq(Versions) /\ Len(stored) \in DOMAIN stored
    BY <1>1 DEF PipeInv, PipeTypes
  <2>2. QED
    BY <2>1 DEF Artifacts, Last
<1>3. unparsed = {} /\ \A v \in Versions : ~Pending(norm[v]) /\ ~Pending(dedup[v].job)
  BY <1>1 DEF OnTheWay
<1>4. \A v \in Versions : /\ norm[v].status \in {"none", "completed"}
                          /\ dedup[v].job.status \in {"none", "completed"}
  <2>1. \A v \in Versions : /\ norm[v].status \in JobStatus \ {"evicted"}
                            /\ dedup[v].job.status \in JobStatus \ {"evicted"}
    BY DEF PipeInv, PipeTypes, Kept, JobOK, Job
  <2>2. QED
    BY <1>1, <1>3, <2>1 DEF JobStatus, Pending
<1>5. CASE norm[Last].status = "none"
  <2>1. <<kind, Last>> \in Empties /\ Last \in review
    BY <1>2, <1>3, <1>5 DEF PipeInv, Followed
  <2>2. QED
    BY <2>1, EmptiesMakeNoCandidates
<1>6. CASE norm[Last].status = "completed" /\ <<kind, Last>> \notin Candidates
  BY <1>2, <1>6 DEF PipeInv, Routed
<1>7. CASE norm[Last].status = "completed" /\ <<kind, Last>> \in Candidates
  <2> DEFINE i == JobId(Last)
             w == dedup[i].version
  <2>1. i \in Versions /\ \A v \in Versions : JobId(v) = i => <<kind, v, Last>> \in SamePrint
    BY <1>2, JobIdTellsPrints DEF PipeInv, PipeTypes
  <2>2. dedup[i].job.status # "none"
    BY <1>2, <1>7 DEF PipeInv, Routed
  <2>3. w \in Artifacts /\ JobId(w) = i
    BY <2>1, <2>2 DEF PipeInv, Routed
  <2>4. <<kind, w, Last>> \in SamePrint
    BY <1>2, <2>1, <2>3
  <2>5. w = Last
    BY <1>1, <2>3, <2>4 DEF IsNewPrint, Artifacts
  <2>6. dedup[i].job.status = "completed"
    BY <1>4, <2>1, <2>2
  <2>7. linked = Last /\ (IsSurest => row = Last)
    BY <1>1, <2>1, <2>5, <2>6 DEF PipeInv, LatestOnly, Written
  <2>8. Last \notin review
    BY <1>7 DEF PipeInv, Routed
  <2>9. QED
    BY <1>7, <2>7, <2>8
<1>8. QED
  BY <1>2, <1>4, <1>5, <1>6, <1>7

\* Through retries and stalls, every change of a posting arrives in the record or in
\* review, but for what NewestArrives sets aside (fetch.ts existing, normalize.ts jobId).
THEOREM NewestArrivesAlways == Spec => []NewestArrives
<1>1. Init => PipeInv
  BY PipeInvInit
<1>2. PipeInv /\ [Next]_vars => PipeInv'
  BY PipeInvStep
<1>3. PipeInv => NewestArrives
  BY PipeInvArrives
<1>4. QED
  BY <1>1, <1>2, <1>3, PTL DEF Spec

\* What is sent to review and what makes a candidate are never the same version: the
\* reviewer's queue and the record do not both have it (parse.ts, normalize.ts review).
THEOREM ReviewedIsNoCandidate ==
    Spec => [](\A v \in review : <<kind, v>> \notin Candidates)
<1>1. Init => PipeInv
  BY PipeInvInit
<1>2. PipeInv /\ [Next]_vars => PipeInv'
  BY PipeInvStep
<1>3. PipeInv => \A v \in review : <<kind, v>> \notin Candidates
  BY DEF PipeInv, Routed
<1>4. QED
  BY <1>1, <1>2, <1>3, PTL DEF Spec

\* Every fact of a candidate has evidence and nothing else has: for every connector,
\* site and table of normalize.ts ("EVIDENCE COMPLETENESS"; part of IsEvidenced).
THEOREM EvidenceIsComplete ==
    ASSUME NEW k \in Kinds, NEW v \in Versions
    PROVE  /\ \A f \in DOMAIN Result(k, v).facts \ {"locations"} :
                  Result(k, v).facts[f] # None <=> \E e \in Result(k, v).evidence : e.field = f
           /\ Result(k, v).facts.locations # <<>>
                  <=> \E e \in Result(k, v).evidence : e.field = "locations"
<1> DEFINE parsed == ParsedOf(k, v)
           facts  == Facts(parsed)
           given  == {g \in DOMAIN facts \ {"locations"} : facts[g] # None}
           single == {[field |-> f, method |-> Only(parsed[f]).method, uncertain |-> Only(parsed[f]).uncertain] :
                         f \in given}
           listed == {[field |-> "locations", method |-> parsed.locations[i].method,
                       uncertain |-> parsed.locations[i].uncertain] : i \in DOMAIN parsed.locations}
<1>1. Result(k, v).facts = facts /\ Result(k, v).evidence = single \union listed
  BY DEF Result, Normalize, EvidenceOf
<1>2. facts.locations # <<>> <=> DOMAIN parsed.locations # {}
  <2>1. facts.locations = [i \in DOMAIN parsed.locations |-> parsed.locations[i].value]
    BY DEF Facts, Values
  <2>2. QED
    BY <2>1
<1> HIDE DEF parsed, facts
<1>3. \A e \in listed : e.field = "locations"
  OBVIOUS
<1>4. \A f \in given : f # "locations" /\ \E e \in single : e.field = f
  <2>1. SUFFICES ASSUME NEW f \in given PROVE \E e \in single : e.field = f
    OBVIOUS
  <2> DEFINE e == [field |-> f, method |-> Only(parsed[f]).method, uncertain |-> Only(parsed[f]).uncertain]
  <2>2. e \in single /\ e.field = f
    OBVIOUS
  <2>3. QED
    BY <2>2
<1>5. \A e \in single : e.field \in given
  OBVIOUS
<1>6. DOMAIN parsed.locations # {} <=> listed # {}
  OBVIOUS
<1> HIDE DEF single, listed
<1>7. \A f \in DOMAIN facts \ {"locations"} :
          facts[f] # None <=> \E e \in single \union listed : e.field = f
  BY <1>3, <1>4, <1>5
<1>8. facts.locations # <<>> <=> \E e \in single \union listed : e.field = "locations"
  BY <1>2, <1>3, <1>4, <1>5, <1>6
<1>9. QED
  BY <1>1, <1>7, <1>8

-----------------------------------------------------------------------------
(***************************************************************************)
(* No fabrication: what each connector fetches, parses and maps of a site  *)
(* is what the posting of the reference publishes, for every site.         *)
(***************************************************************************)

\* What is kept of a sequence is an element of it that passes.
LEMMA KeptPlaces ==
    ASSUME NEW seq, NEW kept, NEW new,
           new = [n \in {Cardinality({j \in kept : j <= i}) : i \in kept} |->
                     seq[CHOOSE i \in kept : Cardinality({j \in kept : j <= i}) = n]]
    PROVE  \A n \in DOMAIN new : \E i \in kept : new[n] = seq[i]
<1> DEFINE Rank(i) == Cardinality({j \in kept : j <= i})
<1> SUFFICES ASSUME NEW n \in DOMAIN new
             PROVE  \E i \in kept : new[n] = seq[i]
  OBVIOUS
<1>1. new = [m \in {Rank(i) : i \in kept} |-> seq[CHOOSE i \in kept : Rank(i) = m]]
  OBVIOUS
<1> HIDE DEF Rank
<1>2. n \in {Rank(i) : i \in kept} /\ new[n] = seq[CHOOSE i \in kept : Rank(i) = n]
  BY <1>1
<1>3. PICK i \in kept : Rank(i) = n
  BY <1>2
<1>4. (CHOOSE j \in kept : Rank(j) = n) \in kept
  BY <1>3
<1>5. QED
  BY <1>2, <1>4

LEMMA JobPostingsArePostings ==
    ASSUME NEW site
    PROVE  \A n \in DOMAIN JobPostings(site) : IsJobPosting(JobPostings(site)[n])
<1>1. PICK seq : JobPostings(site) = Where(seq, IsJobPosting)
  BY DEF JobPostings
<1> DEFINE kept == {i \in DOMAIN seq : IsJobPosting(seq[i])}
           new  == Where(seq, IsJobPosting)
<1>2. \A n \in DOMAIN new : \E i \in kept : new[n] = seq[i]
  <2>1. new = [n \in {Cardinality({j \in kept : j <= i}) : i \in kept} |->
                seq[CHOOSE i \in kept : Cardinality({j \in kept : j <= i}) = n]]
    BY DEF Where
  <2> HIDE DEF kept, new
  <2>2. QED
    BY <2>1, KeptPlaces
<1>3. QED
  BY <1>1, <1>2

LEMMA StructuredListIsOf ==
    ASSUME NEW vs
    PROVE  \A n \in DOMAIN StructuredList(vs) :
               \E i \in DOMAIN vs : StructuredList(vs)[n] = Evidence(vs[i])
<1> DEFINE kept  == {i \in DOMAIN vs : vs[i] # None}
           given == Where(vs, LAMBDA v : v # None)
<1>1. \A n \in DOMAIN given : \E i \in kept : given[n] = vs[i]
  <2>1. given = [n \in {Cardinality({j \in kept : j <= i}) : i \in kept} |->
                    vs[CHOOSE i \in kept : Cardinality({j \in kept : j <= i}) = n]]
    BY DEF Where
  <2> HIDE DEF kept, given
  <2>2. QED
    BY <2>1, KeptPlaces
<1>2. StructuredList(vs) = [n \in DOMAIN given |-> Evidence(given[n])]
  BY DEF StructuredList
<1> HIDE DEF given
<1>3. QED
  BY <1>1, <1>2

\* What a field of one value says, and the first of a list.
LEMMA ValueOfStructured == ASSUME NEW v PROVE Value(Structured(v)) = v
<1>1. CASE v = None
  BY <1>1 DEF Value, Structured
<1>2. CASE v # None
  <2>1. Structured(v) = {Evidence(v)}
    BY <1>2 DEF Structured
  <2>2. Only(Structured(v)) = Evidence(v) /\ Structured(v) # {}
    BY <2>1 DEF Only
  <2>3. QED
    BY <2>2 DEF Value, Evidence
<1>3. QED
  BY <1>1, <1>2

\* A salary before it is normalised is that of one offer.
OfferedBy(offer, s) ==
    /\ {s.min, s.max} \subseteq {offer.min, offer.max, offer.single, None}
    /\ s.currency = offer.currency
    /\ s.period = offer.period

\* The fields of a parsed record are those the posting publishes, or empty.
States(k, own, p) ==
    /\ p.title = Structured(own.title)
    /\ p.descriptionHtml = Structured(own.description)
    /\ p.company \in {Structured(own.company), {}}
    /\ p.postedAt \in {Structured(ToIsoDate(own.posted)), {}}
    /\ p.closesAt \in {Structured(ToIsoDate(own.closes)), {}}
    /\ p.employmentType = {} \/ \E i \in DOMAIN own.types : p.employmentType = Structured(own.types[i])
    /\ \/ p.workArrangement \in {Structured(own.arrangement), {}}
       \/ own.remote /\ p.workArrangement = Structured("remote")
    /\ p.salary = {} \/ \E i \in DOMAIN own.pay, s \in {Value(p.salary)} :
                            p.salary = Structured(s) /\ OfferedBy(own.pay[i], s)
    /\ \A n \in DOMAIN p.locations : \E place \in LocationsOf(k, own) : p.locations[n] = Evidence(place)

\* Normalising keeps an offer's ends, though it may swap them, and its currency.
LEMMA NormalizeSalaryKeeps ==
    ASSUME NEW offer, NEW s, OfferedBy(offer, s), NormalizeSalary(s) # None
    PROVE  PaidBy(offer, NormalizeSalary(s))
<1>1. SalaryPeriod(s.period) \in {PeriodOf(offer.period), None}
  BY DEF OfferedBy, SalaryPeriod
<1> DEFINE swap == s.min # None /\ s.max # None /\ s.min > s.max
<1>2. NormalizeSalary(s) =
          [min |-> IF swap THEN s.max ELSE s.min, max |-> IF swap THEN s.min ELSE s.max,
           currency |-> s.currency, period |-> SalaryPeriod(s.period)]
  BY DEF NormalizeSalary
<1> HIDE DEF swap
<1>3. QED
  BY <1>1, <1>2 DEF OfferedBy, PaidBy

LEMMA StatesPublishes ==
    ASSUME NEW k, NEW own, NEW p, States(k, own, p)
    PROVE  Publishes(k, own, Facts(p))
<1> DEFINE facts == Facts(p)
<1>1. Value({}) = None
  BY DEF Value
<1>2. /\ facts.title = Value(p.title) /\ facts.descriptionHtml = Value(p.descriptionHtml)
      /\ facts.company = Value(p.company)
      /\ facts.postedAt = Value(p.postedAt) /\ facts.closesAt = Value(p.closesAt)
      /\ facts.employmentType = EmploymentType(Value(p.employmentType))
      /\ facts.workArrangement = WorkArrangement(Value(p.workArrangement))
      /\ facts.salary = IF p.salary = {} THEN None ELSE NormalizeSalary(Value(p.salary))
      /\ facts.locations = [n \in DOMAIN p.locations |-> p.locations[n].value]
  BY DEF Facts, Values
<1> HIDE DEF facts
<1>3. facts.title = own.title /\ facts.descriptionHtml = own.description
  BY <1>2, ValueOfStructured DEF States
<1>4. facts.company \in {own.company, None}
  BY <1>1, <1>2, ValueOfStructured DEF States
<1>5. facts.postedAt \in {own.posted, None} /\ facts.closesAt \in {own.closes, None}
  <2>1. /\ ToIsoDate(own.posted) \in {own.posted, None}
        /\ ToIsoDate(own.closes) \in {own.closes, None}
    BY DEF ToIsoDate
  <2>2. /\ Value(Structured(ToIsoDate(own.posted))) = ToIsoDate(own.posted)
        /\ Value(Structured(ToIsoDate(own.closes))) = ToIsoDate(own.closes)
    BY ValueOfStructured
  <2>3. /\ facts.postedAt \in {ToIsoDate(own.posted), None}
        /\ facts.closesAt \in {ToIsoDate(own.closes), None}
    BY <1>1, <1>2, <2>2 DEF States
  <2>4. QED
    BY <2>1, <2>2, <2>3
<1>6. facts.employmentType \in {TypeOf(own.types[i]) : i \in DOMAIN own.types} \union {None}
  <2>1. CASE p.employmentType = {}
    BY <1>1, <1>2, <2>1 DEF EmploymentType
  <2>2. CASE p.employmentType # {}
    <3>1. PICK i \in DOMAIN own.types : p.employmentType = Structured(own.types[i])
      BY <2>2 DEF States
    <3>2. facts.employmentType = EmploymentType(own.types[i])
      BY <1>2, <3>1, ValueOfStructured
    <3>3. QED
      BY <3>2 DEF EmploymentType
  <2>3. QED
    BY <2>1, <2>2
<1>7. ASSUME facts.workArrangement = "remote"
      PROVE  own.remote \/ (own.arrangement # None /\ ArrangementOf(own.arrangement) = "remote")
  <2>1. CASE p.workArrangement = {}
    BY <1>1, <1>2, <1>7, <2>1, NoneAssumption DEF WorkArrangement
  <2>2. CASE p.workArrangement = Structured(own.arrangement)
    <3>1. facts.workArrangement = WorkArrangement(own.arrangement)
      BY <1>2, <2>2, ValueOfStructured
    <3>2. QED
      BY <1>7, <3>1, NoneAssumption DEF WorkArrangement
  <2>3. QED
    BY <2>1, <2>2 DEF States
<1>8. \A n \in DOMAIN facts.locations : facts.locations[n] \in LocationsOf(k, own)
  <2>1. \A place : Evidence(place).value = place
    BY DEF Evidence
  <2> SUFFICES ASSUME NEW n \in DOMAIN p.locations
               PROVE  p.locations[n].value \in LocationsOf(k, own)
    BY <1>2
  <2>2. PICK place \in LocationsOf(k, own) : p.locations[n] = Evidence(place)
    BY DEF States
  <2>3. QED
    BY <2>1, <2>2
<1>9. facts.salary # None => \E i \in DOMAIN own.pay : PaidBy(own.pay[i], facts.salary)
  <2> SUFFICES ASSUME facts.salary # None
               PROVE  \E i \in DOMAIN own.pay : PaidBy(own.pay[i], facts.salary)
    OBVIOUS
  <2>1. p.salary # {} /\ facts.salary = NormalizeSalary(Value(p.salary))
    BY <1>2
  <2>2. PICK i \in DOMAIN own.pay : OfferedBy(own.pay[i], Value(p.salary))
    BY <2>1 DEF States
  <2>3. QED
    BY <2>1, <2>2, NormalizeSalaryKeeps
<1>10. QED
  BY <1>3, <1>4, <1>5, <1>6, <1>7, <1>8, <1>9 DEF Publishes, facts

\* The first entry of a list, and of the offers those with a salary.
LEMMA FirstOfIsThere ==
    ASSUME NEW seq
    PROVE  FirstOf(seq) = None \/ \E i \in DOMAIN seq : FirstOf(seq) = seq[i]
  BY DEF FirstOf

LEMMA FirstTypeIsOwn ==
    ASSUME NEW types
    PROVE  \/ Structured(FirstOf(types)) = {}
           \/ \E i \in DOMAIN types : Structured(FirstOf(types)) = Structured(types[i])
<1>1. CASE FirstOf(types) = None
  BY <1>1 DEF Structured
<1>2. QED
  BY <1>1, FirstOfIsThere

LEMMA SalariesAreOffered ==
    ASSUME NEW pay
    PROVE  /\ \/ JsonLdSalary(FirstOf(pay)) = None
              \/ \E i \in DOMAIN pay : OfferedBy(pay[i], JsonLdSalary(FirstOf(pay)))
           /\ \/ AshbySalary(pay) = None
              \/ \E i \in DOMAIN pay : OfferedBy(pay[i], AshbySalary(pay))
<1>1. \A n : ToNumber(n) \in {n, None}
  BY DEF ToNumber
<1>2. ASSUME JsonLdSalary(FirstOf(pay)) # None
      PROVE  \E i \in DOMAIN pay : OfferedBy(pay[i], JsonLdSalary(FirstOf(pay)))
  <2>1. FirstOf(pay) # None
    BY <1>2 DEF JsonLdSalary
  <2>2. PICK i \in DOMAIN pay : FirstOf(pay) = pay[i]
    BY <2>1, FirstOfIsThere
  <2> DEFINE base   == pay[i]
             min    == ToNumber(base.min)
             max    == ToNumber(base.max)
             single == ToNumber(base.single)
             both   == min = None /\ max = None
  <2>3. JsonLdSalary(base) =
            [min |-> IF both THEN single ELSE min, max |-> IF both THEN single ELSE max,
             currency |-> base.currency, period |-> base.period]
    BY <1>2, <2>1, <2>2 DEF JsonLdSalary
  <2>4. /\ min \in {base.min, None} /\ max \in {base.max, None}
        /\ single \in {base.single, None}
    BY <1>1
  <2> HIDE DEF min, max, single, both
  <2>5. OfferedBy(base, JsonLdSalary(base))
    BY <2>3, <2>4 DEF OfferedBy
  <2>6. QED
    BY <2>2, <2>5
<1>3. ASSUME AshbySalary(pay) # None
      PROVE  \E i \in DOMAIN pay : OfferedBy(pay[i], AshbySalary(pay))
  <2> DEFINE c == FirstWith(pay, LAMBDA p : p.min # None \/ p.max # None)
             s == [min |-> ToNumber(c.min), max |-> ToNumber(c.max),
                   currency |-> c.currency, period |-> c.period]
  <2>1. c # None /\ AshbySalary(pay) = s
    BY <1>3 DEF AshbySalary
  <2>2. PICK i \in DOMAIN pay : c = pay[i]
    BY <2>1 DEF FirstWith
  <2> HIDE DEF c
  <2>3. OfferedBy(c, s)
    BY <1>1 DEF OfferedBy
  <2>4. QED
    BY <2>1, <2>2, <2>3
<1>4. QED
  BY <1>2, <1>3

LEMMA NothingIsEmpty ==
    /\ DOMAIN Nothing = {"title", "company", "workArrangement", "employmentType", "salary",
                         "postedAt", "closesAt", "descriptionHtml", "applyUrl",
                         "canonicalUrlHint", "locations", "requirements", "skills"}
    /\ Nothing.title = {} /\ Nothing.company = {} /\ Nothing.workArrangement = {}
    /\ Nothing.employmentType = {} /\ Nothing.salary = {} /\ Nothing.postedAt = {}
    /\ Nothing.closesAt = {} /\ Nothing.descriptionHtml = {}
    /\ Nothing.locations = <<>>
  BY DEF Nothing, Single, Lists

\* What each mapper states, of the job or node it is given.
LEMMA GreenhouseStates ==
    ASSUME NEW job
    PROVE  States("greenhouse", job, MapGreenhouseJob(job))
<1> DEFINE p == MapGreenhouseJob(job)
<1>1. /\ p.title = Structured(job.title) /\ p.company = Structured(job.company)
      /\ p.locations = StructuredList(<<job.place>>)
      /\ p.postedAt = Structured(ToIsoDate(job.posted)) /\ p.closesAt = {}
      /\ p.descriptionHtml = Structured(job.description)
      /\ p.workArrangement = {} /\ p.employmentType = {} /\ p.salary = {}
  BY NothingIsEmpty DEF MapGreenhouseJob
<1> HIDE DEF p
<1>2. \A n \in DOMAIN p.locations :
          \E place \in LocationsOf("greenhouse", job) : p.locations[n] = Evidence(place)
  <2>1. \A i \in DOMAIN <<job.place>> : <<job.place>>[i] \in LocationsOf("greenhouse", job)
    BY DEF LocationsOf
  <2>2. QED
    BY <1>1, <2>1, StructuredListIsOf
<1>3. QED
  BY <1>1, <1>2 DEF States, p

LEMMA LeverStates ==
    ASSUME NEW job
    PROVE  States("lever", job, MapLeverPosting(job))
<1> DEFINE p  == MapLeverPosting(job)
           vs == IF job.locations # <<>> THEN job.locations ELSE <<job.place>>
<1>1. /\ p.title = Structured(job.title) /\ p.company = {}
      /\ p.locations = StructuredList(vs)
      /\ p.postedAt = Structured(ToIsoDate(job.posted)) /\ p.closesAt = {}
      /\ p.descriptionHtml = Structured(job.description)
      /\ p.workArrangement = Structured(job.arrangement)
      /\ p.employmentType = Structured(FirstOf(job.types)) /\ p.salary = {}
  BY NothingIsEmpty DEF MapLeverPosting
<1> HIDE DEF p
<1>2. \A n \in DOMAIN p.locations :
          \E place \in LocationsOf("lever", job) : p.locations[n] = Evidence(place)
  <2>1. \A i \in DOMAIN vs : vs[i] \in LocationsOf("lever", job)
    BY DEF LocationsOf
  <2> HIDE DEF vs
  <2>2. QED
    BY <1>1, <2>1, StructuredListIsOf
<1>3. QED
  BY <1>1, <1>2, FirstTypeIsOwn DEF States, p

LEMMA AshbyStates ==
    ASSUME NEW job, job.locations \in Seq({job.locations[n] : n \in DOMAIN job.locations})
    PROVE  States("ashby", job, MapAshbyJob(job, None))
<1> DEFINE p  == MapAshbyJob(job, None)
           vs == <<job.place>> \o job.locations
           wa == Or(job.arrangement, IF job.remote THEN "remote" ELSE None)
<1>1. /\ p.title = Structured(job.title) /\ p.company = Structured(None)
      /\ p.locations = StructuredList(vs)
      /\ p.postedAt = Structured(ToIsoDate(job.posted)) /\ p.closesAt = {}
      /\ p.descriptionHtml = Structured(job.description)
      /\ p.workArrangement = Structured(wa)
      /\ p.employmentType = Structured(FirstOf(job.types))
      /\ p.salary = Structured(AshbySalary(job.pay))
  BY NothingIsEmpty DEF MapAshbyJob
<1> HIDE DEF p
<1>2. \A n \in DOMAIN p.locations :
          \E place \in LocationsOf("ashby", job) : p.locations[n] = Evidence(place)
  <2>1. \A i \in DOMAIN vs : vs[i] \in LocationsOf("ashby", job)
    <3> DEFINE S == {job.locations[n] : n \in DOMAIN job.locations}
    <3>1. LocationsOf("ashby", job) = {job.place} \union S
      BY DEF LocationsOf
    <3>2. <<job.place>> \in Seq({job.place} \union S) /\ job.locations \in Seq({job.place} \union S)
      OBVIOUS
    <3> HIDE DEF S
    <3>3. vs \in Seq({job.place} \union S)
      BY <3>2
    <3>4. QED
      BY <3>1, <3>3
  <2> HIDE DEF vs
  <2>2. QED
    BY <1>1, <2>1, StructuredListIsOf
<1>3. \/ p.workArrangement \in {Structured(job.arrangement), {}}
      \/ job.remote /\ p.workArrangement = Structured("remote")
  <2>1. Structured(None) = {}
    BY DEF Structured
  <2>2. CASE job.remote
    BY <1>1, <2>2 DEF Or
  <2>3. CASE ~job.remote
    BY <1>1, <2>1, <2>3 DEF Or
  <2>4. QED
    BY <2>2, <2>3
<1>4. p.salary = {} \/ \E i \in DOMAIN job.pay, s \in {Value(p.salary)} :
                           p.salary = Structured(s) /\ OfferedBy(job.pay[i], s)
  <2>1. CASE AshbySalary(job.pay) = None
    BY <1>1, <2>1 DEF Structured
  <2>2. CASE AshbySalary(job.pay) # None
    BY <1>1, <2>2, SalariesAreOffered, ValueOfStructured
  <2>3. QED
    BY <2>1, <2>2
<1>5. p.company = {}
  BY <1>1 DEF Structured
<1>6. QED
  BY <1>1, <1>2, <1>3, <1>4, <1>5, FirstTypeIsOwn DEF States, p

LEMMA JsonLdStates ==
    ASSUME NEW node, NEW k \in {"jsonld", "manual_url"}
    PROVE  States(k, node, MapJsonLdJobPosting(node))
<1> DEFINE p  == MapJsonLdJobPosting(node)
           vs == [i \in DOMAIN node.locations |-> LocationLabel(node.locations[i])]
           ty == FirstWith(node.types, LAMBDA t : t # None)
<1>1. /\ p.title = Structured(node.title) /\ p.company = Structured(node.company)
      /\ p.locations = StructuredList(vs)
      /\ p.postedAt = Structured(ToIsoDate(node.posted))
      /\ p.closesAt = Structured(ToIsoDate(node.closes))
      /\ p.descriptionHtml = Structured(node.description)
      /\ p.workArrangement = Structured(IF node.remote THEN "remote" ELSE None)
      /\ p.employmentType = Structured(ty)
      /\ p.salary = Structured(JsonLdSalary(FirstOf(node.pay)))
  BY NothingIsEmpty DEF MapJsonLdJobPosting
<1> HIDE DEF p
<1>2. \A n \in DOMAIN p.locations :
          \E place \in LocationsOf(k, node) : p.locations[n] = Evidence(place)
  <2>1. \A i \in DOMAIN vs : vs[i] \in LocationsOf(k, node)
    BY DEF LocationsOf
  <2> HIDE DEF vs
  <2>2. QED
    BY <1>1, <2>1, StructuredListIsOf
<1>3. \/ p.workArrangement \in {Structured(node.arrangement), {}}
      \/ node.remote /\ p.workArrangement = Structured("remote")
  <2>1. Structured(None) = {}
    BY DEF Structured
  <2>2. CASE node.remote
    BY <1>1, <2>2
  <2>3. CASE ~node.remote
    BY <1>1, <2>1, <2>3
  <2>4. QED
    BY <2>2, <2>3
<1>4. p.salary = {} \/ \E i \in DOMAIN node.pay, s \in {Value(p.salary)} :
                           p.salary = Structured(s) /\ OfferedBy(node.pay[i], s)
  <2>1. CASE JsonLdSalary(FirstOf(node.pay)) = None
    BY <1>1, <2>1 DEF Structured
  <2>2. CASE JsonLdSalary(FirstOf(node.pay)) # None
    BY <1>1, <2>2, SalariesAreOffered, ValueOfStructured
  <2>3. QED
    BY <2>1, <2>2
<1>5. p.employmentType = {} \/ \E i \in DOMAIN node.types : p.employmentType = Structured(node.types[i])
  <2>1. ty = None \/ \E i \in DOMAIN node.types : ty = node.types[i]
    BY DEF FirstWith
  <2>2. QED
    BY <1>1, <2>1 DEF Structured
<1>6. QED
  BY <1>1, <1>2, <1>3, <1>4, <1>5 DEF States, p

\* Every piece of evidence of a parsed record is as certain as any other.
AllAre(u, p) ==
    /\ \A f \in Single : \A e \in p[f] : e.uncertain = u
    /\ \A n \in DOMAIN p.locations : p.locations[n].uncertain = u

LEMMA EvidenceIsAlike ==
    ASSUME NEW u, NEW p, AllAre(u, p)
    PROVE  \A e \in EvidenceOf(p) : e.uncertain = u
<1> DEFINE facts  == Facts(p)
           given  == {g \in DOMAIN facts \ {"locations"} : facts[g] # None}
           single == {[field |-> f, method |-> Only(p[f]).method, uncertain |-> Only(p[f]).uncertain] :
                         f \in given}
           listed == {[field |-> "locations", method |-> p.locations[i].method,
                       uncertain |-> p.locations[i].uncertain] : i \in DOMAIN p.locations}
<1>1. EvidenceOf(p) = single \union listed
  BY DEF EvidenceOf
<1>2. \A f \in given : f \in Single /\ p[f] # {}
  <2>1. Value({}) = None
    BY DEF Value
  <2>2. WorkArrangement(None) = None /\ EmploymentType(None) = None
    BY DEF WorkArrangement, EmploymentType
  <2>3. DOMAIN facts \ {"locations"} =
            {"title", "company", "workArrangement", "employmentType", "salary", "postedAt",
             "closesAt", "descriptionHtml"}
    BY DEF Facts
  <2>4. /\ facts.title = Value(p.title) /\ facts.descriptionHtml = Value(p.descriptionHtml)
        /\ facts.company = Value(p.company)
        /\ facts.postedAt = Value(p.postedAt) /\ facts.closesAt = Value(p.closesAt)
        /\ facts.employmentType = EmploymentType(Value(p.employmentType))
        /\ facts.workArrangement = WorkArrangement(Value(p.workArrangement))
        /\ facts.salary = IF p.salary = {} THEN None ELSE NormalizeSalary(Value(p.salary))
    BY DEF Facts
  <2> HIDE DEF facts
  <2> SUFFICES ASSUME NEW f \in DOMAIN facts \ {"locations"}, p[f] = {}
               PROVE  f \in Single /\ facts[f] = None
    BY <2>3 DEF Single
  <2>5. f \in Single
    BY <2>3 DEF Single
  <2>6. facts[f] = None
    BY <2>1, <2>2, <2>3, <2>4
  <2>7. QED
    BY <2>5, <2>6
<1> HIDE DEF facts, given
<1>3. \A e \in single : e.uncertain = u
  <2> SUFFICES ASSUME NEW f \in given
               PROVE  Only(p[f]).uncertain = u
    OBVIOUS
  <2>1. Only(p[f]) \in p[f]
    BY <1>2 DEF Only
  <2>2. QED
    BY <1>2, <2>1 DEF AllAre
<1>4. \A e \in listed : e.uncertain = u
  BY DEF AllAre
<1> HIDE DEF single, listed
<1>5. QED
  BY <1>1, <1>3, <1>4

\* What the mappers state is certain, and what is guessed from a page is not.
LEMMA StructuredIsCertain ==
    /\ \A v : \A e \in Structured(v) : e.uncertain = FALSE
    /\ \A vs : \A n \in DOMAIN StructuredList(vs) : StructuredList(vs)[n].uncertain = FALSE
<1>1. \A v : Evidence(v).uncertain = FALSE
  BY DEF Evidence
<1>2. ASSUME NEW vs
      PROVE  \A n \in DOMAIN StructuredList(vs) : StructuredList(vs)[n].uncertain = FALSE
  BY <1>1, StructuredListIsOf
<1>3. QED
  BY <1>1, <1>2 DEF Structured

LEMMA MappersAreCertain ==
    /\ AllAre(FALSE, Nothing)
    /\ \A job : AllAre(FALSE, MapGreenhouseJob(job))
    /\ \A job : AllAre(FALSE, MapLeverPosting(job))
    /\ \A job : AllAre(FALSE, MapAshbyJob(job, None))
    /\ \A node : AllAre(FALSE, MapJsonLdJobPosting(node))
<1>1. AllAre(FALSE, Nothing)
  <2>1. \A f \in Single : Nothing[f] = {}
    BY DEF Nothing
  <2>2. QED
    BY <2>1, NothingIsEmpty DEF AllAre
<1>2. ASSUME NEW job
      PROVE  AllAre(FALSE, MapGreenhouseJob(job))
  <2>1. MapGreenhouseJob(job).locations = StructuredList(<<job.place>>)
    BY NothingIsEmpty DEF MapGreenhouseJob
  <2>2. \A f \in Single : \A e \in MapGreenhouseJob(job)[f] : e.uncertain = FALSE
    BY StructuredIsCertain DEF MapGreenhouseJob, Nothing, Single, Lists
  <2>3. QED
    BY <2>1, <2>2, StructuredIsCertain DEF AllAre
<1>3. ASSUME NEW job
      PROVE  AllAre(FALSE, MapLeverPosting(job))
  <2> DEFINE vs == IF job.locations # <<>> THEN job.locations ELSE <<job.place>>
  <2>1. MapLeverPosting(job).locations = StructuredList(vs)
    BY NothingIsEmpty DEF MapLeverPosting
  <2>2. \A f \in Single : \A e \in MapLeverPosting(job)[f] : e.uncertain = FALSE
    BY StructuredIsCertain DEF MapLeverPosting, Nothing, Single, Lists
  <2> HIDE DEF vs
  <2>3. QED
    BY <2>1, <2>2, StructuredIsCertain DEF AllAre
<1>4. ASSUME NEW job
      PROVE  AllAre(FALSE, MapAshbyJob(job, None))
  <2> DEFINE vs == <<job.place>> \o job.locations
             p  == MapAshbyJob(job, None)
  <2>1. p.locations = StructuredList(vs)
    BY NothingIsEmpty DEF MapAshbyJob
  <2>2. /\ p.title = Structured(job.title) /\ p.company = Structured(None)
        /\ p.workArrangement = Structured(Or(job.arrangement, IF job.remote THEN "remote" ELSE None))
        /\ p.employmentType = Structured(FirstOf(job.types))
        /\ p.salary = Structured(AshbySalary(job.pay))
        /\ p.postedAt = Structured(ToIsoDate(job.posted)) /\ p.closesAt = {}
        /\ p.descriptionHtml = Structured(job.description)
        /\ p.applyUrl = Structured(Or(job.apply, job.url))
        /\ p.canonicalUrlHint = Structured(job.url)
    BY NothingIsEmpty DEF MapAshbyJob
  <2> HIDE DEF p, vs
  <2>3. \A f \in Single : \A e \in p[f] : e.uncertain = FALSE
    BY <2>2, StructuredIsCertain DEF Single
  <2>4. AllAre(FALSE, p)
    BY <2>1, <2>3, StructuredIsCertain DEF AllAre
  <2>5. QED
    BY <2>4 DEF p
<1>5. ASSUME NEW node
      PROVE  AllAre(FALSE, MapJsonLdJobPosting(node))
  <2> DEFINE vs == [i \in DOMAIN node.locations |-> LocationLabel(node.locations[i])]
             ty == FirstWith(node.types, LAMBDA t : t # None)
             p  == MapJsonLdJobPosting(node)
  <2>1. p.locations = StructuredList(vs)
    BY NothingIsEmpty DEF MapJsonLdJobPosting
  <2>2. /\ p.title = Structured(node.title) /\ p.company = Structured(node.company)
        /\ p.workArrangement = Structured(IF node.remote THEN "remote" ELSE None)
        /\ p.employmentType = Structured(ty)
        /\ p.salary = Structured(JsonLdSalary(FirstOf(node.pay)))
        /\ p.postedAt = Structured(ToIsoDate(node.posted))
        /\ p.closesAt = Structured(ToIsoDate(node.closes))
        /\ p.descriptionHtml = Structured(node.description)
        /\ p.applyUrl = Structured(node.url) /\ p.canonicalUrlHint = Structured(node.url)
    BY NothingIsEmpty DEF MapJsonLdJobPosting
  <2> HIDE DEF p, vs, ty
  <2>3. \A f \in Single : \A e \in p[f] : e.uncertain = FALSE
    BY <2>2, StructuredIsCertain DEF Single
  <2>4. AllAre(FALSE, p)
    BY <2>1, <2>3, StructuredIsCertain DEF AllAre
  <2>5. QED
    BY <2>4 DEF p
<1>6. QED
  BY <1>1, <1>2, <1>3, <1>4, <1>5

LEMMA PageIsUncertain ==
    ASSUME NEW meta, NEW url
    PROVE  AllAre(TRUE, ParseHtmlBestEffort(meta, url))
<1>1. \A v : \A e \in FromPage(v) : e.uncertain = TRUE
  BY DEF FromPage
<1>2. ParseHtmlBestEffort(meta, url).locations = <<>>
  BY NothingIsEmpty DEF ParseHtmlBestEffort
<1>3. \A f \in Single : \A e \in ParseHtmlBestEffort(meta, url)[f] : e.uncertain = TRUE
  BY <1>1 DEF ParseHtmlBestEffort, Nothing, Single, Lists
<1>4. QED
  BY <1>2, <1>3 DEF AllAre

\* What is parsed of the fetched artifact, by the posting of the reference.
LEMMA BoardsParseTheirOwn ==
    ASSUME NEW v \in Versions
    PROVE  /\ ParsedOf("greenhouse", v) =
                  IF Own("greenhouse", v) = None THEN Nothing
                                                 ELSE MapGreenhouseJob(Own("greenhouse", v))
           /\ ParsedOf("lever", v) =
                  IF Own("lever", v) = None THEN Nothing ELSE MapLeverPosting(Own("lever", v))
           /\ ParsedOf("ashby", v) =
                  IF Own("ashby", v) = None THEN [Nothing EXCEPT !.company = Structured(None)]
                                            ELSE MapAshbyJob(Own("ashby", v), None)
<1>1. /\ Content("greenhouse", v).one = Own("greenhouse", v)
      /\ Content("lever", v).one = Own("lever", v)
      /\ Content("ashby", v).one = Own("ashby", v)
  <2> DEFINE Found(k) == FirstWith(Site(v).jobs, LAMBDA j : j.id = RefOf(k).id)
  <2>1. /\ Own("greenhouse", v) = Found("greenhouse")
        /\ Own("lever", v) = Found("lever") /\ Own("ashby", v) = Found("ashby")
    BY DEF Own, FirstWith
  <2>2. /\ Content("greenhouse", v) = GreenhouseFetch(RefOf("greenhouse"), Site(v))
        /\ Content("lever", v) = LeverFetch(RefOf("lever"), Site(v))
        /\ Content("ashby", v) = AshbyFetch(Config, RefOf("ashby"), Site(v))
    BY DEF Content, Fetched
  <2>3. /\ Detail(RefOf("greenhouse"), Site(v)) = Found("greenhouse")
        /\ Detail(RefOf("lever"), Site(v)) = Found("lever")
    BY DEF Detail, FirstWith
  <2>4. /\ GreenhouseFetch(RefOf("greenhouse"), Site(v)).one = Detail(RefOf("greenhouse"), Site(v))
        /\ LeverFetch(RefOf("lever"), Site(v)).one = Detail(RefOf("lever"), Site(v))
    BY DEF GreenhouseFetch, LeverFetch, Artifact
  <2>5. AshbyFetch(Config, RefOf("ashby"), Site(v)).one = Found("ashby")
    BY DEF AshbyFetch, Artifact
  <2> HIDE DEF Found
  <2>6. QED
    BY <2>1, <2>2, <2>3, <2>4, <2>5
<1>2. ParseConfig.company = None
  BY ConfigAssumption DEF ParseConfig
<1> DEFINE g == Content("greenhouse", v)
           l == Content("lever", v)
           a == Content("ashby", v)
<1>3. /\ ParsedOf("greenhouse", v) = GreenhouseParse(g)
      /\ ParsedOf("lever", v) = LeverParse(l)
      /\ ParsedOf("ashby", v) = AshbyParse(ParseConfig, a)
  BY DEF ParsedOf, Parse
<1> HIDE DEF g, l, a
<1>4. QED
  BY <1>1, <1>2, <1>3 DEF GreenhouseParse, LeverParse, AshbyParse, g, l, a

LEMMA BoardPostingIsListed ==
    ASSUME NEW k \in {"greenhouse", "lever", "ashby"}, NEW v \in Versions, Own(k, v) # None
    PROVE  \E i \in DOMAIN Site(v).jobs : Own(k, v) = Site(v).jobs[i]
  BY DEF Own, FirstWith

\* jsonld takes the node of the reference while the page has it, else another or none.
LEMMA JsonLdParsesItsOwn ==
    ASSUME NEW v \in Versions
    PROVE  /\ Own("jsonld", v) # None =>
                  ParsedOf("jsonld", v) = MapJsonLdJobPosting(Own("jsonld", v))
           /\ \/ ParsedOf("jsonld", v) = Nothing
              \/ \E node : ParsedOf("jsonld", v) = MapJsonLdJobPosting(node)
<1> DEFINE ref     == RefOf("jsonld")
           own     == Own("jsonld", v)
           content == Content("jsonld", v)
           nodes   == JobPostings(Site(v))
<1>1. ref.page = PageUrl(Config)
  <2>1. 1 \in DOMAIN Discover("jsonld", Config, Site(First))
    BY ReferenceAssumption DEF Kinds
  <2>2. QED
    BY <2>1 DEF RefOf, Discover, JsonLdRefs, Refs
<1>2. Or(ref.page, PageUrl(Config)) = PageUrl(Config)
  BY <1>1 DEF Or
<1>3. ParsedOf("jsonld", v) = JsonLdParse(content)
  BY DEF ParsedOf, Parse
<1>4. content = JsonLdFetch(Config, ref, Site(v))
  BY DEF Content, Fetched
<1>5. ASSUME own # None
      PROVE  content.one = own /\ IsJobPosting(own)
  <2>1. own = FirstWith(nodes, LAMBDA n : ExternalId(n, PageUrl(Config)) = ref.id)
    BY DEF Own
  <2> DEFINE Node(url) == Or(FirstWith(nodes, LAMBDA n : ExternalId(n, url) = ref.id),
                             FirstOf(nodes))
             asked     == Or(ref.page, PageUrl(Config))
  <2>2. content.one = own
    <3>1. content.one = Node(asked)
      BY <1>4 DEF JsonLdFetch, Artifact
    <3>2. Node(PageUrl(Config)) = own
      BY <1>5, <2>1 DEF Or
    <3> HIDE DEF Node, asked
    <3>3. asked = PageUrl(Config)
      BY <1>2 DEF asked
    <3>4. QED
      BY <3>1, <3>2, <3>3
  <2>3. \E i \in DOMAIN nodes : own = nodes[i]
    BY <1>5, <2>1 DEF FirstWith
  <2>4. QED
    BY <2>2, <2>3, JobPostingsArePostings
<1>6. own # None => JsonLdParse(content) = MapJsonLdJobPosting(own)
  BY <1>5 DEF JsonLdParse, ResolveNode
<1>7. \/ JsonLdParse(content) = Nothing
      \/ \E node : JsonLdParse(content) = MapJsonLdJobPosting(node)
  BY DEF JsonLdParse
<1>8. QED
  BY <1>3, <1>6, <1>7

LEMMA ManualParsesItsOwn ==
    ASSUME NEW v \in Versions
    PROVE  ParsedOf("manual_url", v) =
               IF Own("manual_url", v) # None THEN MapJsonLdJobPosting(Own("manual_url", v))
               ELSE ParseHtmlBestEffort(Site(v).meta, Content("manual_url", v).url)
<1> DEFINE content == Content("manual_url", v)
<1>1. content.one = Site(v).document /\ content.site = Site(v)
  BY DEF Content, Fetched, ManualFetch, Artifact
<1>2. ParsedOf("manual_url", v) = ManualParse(content)
  BY DEF ParsedOf, Parse
<1> HIDE DEF content
<1>3. ResolveJsonLdNode(content) = Own("manual_url", v)
  BY <1>1 DEF ResolveJsonLdNode, Own, OwnDocument
<1>4. QED
  BY <1>1, <1>2, <1>3 DEF ManualParse, content

\* What any version of the site yields, by any connector, is what its posting publishes.
LEMMA EveryVersionIsEvidenced ==
    ASSUME NEW k \in Kinds, NEW v \in Versions
    PROVE  IsEvidenced(k, v)
<1> DEFINE own == Own(k, v)
           p   == ParsedOf(k, v)
           r   == Result(k, v)
           u   == k = "manual_url" /\ own = None
<1>1. r.facts = Facts(p) /\ r.evidence = EvidenceOf(p)
  BY DEF Result, Normalize
<1>2. (own # None => States(k, own, p)) /\ AllAre(u, p)
  <2>1. CASE k = "greenhouse"
    <3>1. p = IF own = None THEN Nothing ELSE MapGreenhouseJob(own)
      BY <2>1, BoardsParseTheirOwn
    <3>2. u = FALSE
      BY <2>1
    <3> HIDE DEF own, p, u
    <3>3. QED
      BY <2>1, <3>1, <3>2, GreenhouseStates, MappersAreCertain
  <2>2. CASE k = "lever"
    <3>1. p = IF own = None THEN Nothing ELSE MapLeverPosting(own)
      BY <2>2, BoardsParseTheirOwn
    <3>2. u = FALSE
      BY <2>2
    <3> HIDE DEF own, p, u
    <3>3. QED
      BY <2>2, <3>1, <3>2, LeverStates, MappersAreCertain
  <2>3. CASE k = "ashby"
    <3>1. p = IF own = None THEN [Nothing EXCEPT !.company = Structured(None)]
                            ELSE MapAshbyJob(own, None)
      BY <2>3, BoardsParseTheirOwn
    <3>2. u = FALSE
      BY <2>3
    <3>3. own # None => own.locations \in Seq({own.locations[n] : n \in DOMAIN own.locations})
      <4>1. ASSUME own # None
            PROVE  \E i \in DOMAIN Site(v).jobs : own = Site(v).jobs[i]
        BY <2>3, <4>1, BoardPostingIsListed
      <4> HIDE DEF own
      <4>2. QED
        BY <4>1, SiteAssumption
    <3>4. [Nothing EXCEPT !.company = Structured(None)] = Nothing
      <4>1. Structured(None) = Nothing.company
        BY NothingIsEmpty DEF Structured
      <4>2. Nothing = [f \in DOMAIN Nothing |-> Nothing[f]]
        BY DEF Nothing
      <4>3. QED
        BY <4>1, <4>2
    <3> HIDE DEF own, p, u
    <3>5. QED
      BY <2>3, <3>1, <3>2, <3>3, <3>4, AshbyStates, MappersAreCertain
  <2>4. CASE k = "jsonld"
    <3>1. /\ own # None => p = MapJsonLdJobPosting(own)
          /\ p = Nothing \/ \E node : p = MapJsonLdJobPosting(node)
      BY <2>4, JsonLdParsesItsOwn
    <3>2. u = FALSE
      BY <2>4
    <3> HIDE DEF own, p, u
    <3>3. QED
      BY <2>4, <3>1, <3>2, JsonLdStates, MappersAreCertain
  <2>5. CASE k = "manual_url"
    <3>1. p = IF own # None THEN MapJsonLdJobPosting(own)
              ELSE ParseHtmlBestEffort(Site(v).meta, Content(k, v).url)
      BY <2>5, ManualParsesItsOwn
    <3>2. u = (own = None)
      BY <2>5
    <3>3. AllAre(TRUE, ParseHtmlBestEffort(Site(v).meta, Content(k, v).url))
      BY PageIsUncertain
    <3> HIDE DEF own, p, u
    <3>4. CASE own = None
      <4>1. u = TRUE
        BY <3>2, <3>4
      <4>2. QED
        BY <3>1, <3>3, <3>4, <4>1
    <3>5. CASE own # None
      <4>1. u = FALSE
        BY <3>2, <3>5
      <4>2. QED
        BY <2>5, <3>1, <3>5, <4>1, JsonLdStates, MappersAreCertain
    <3>6. QED
      BY <3>4, <3>5
  <2>6. QED
    BY <2>1, <2>2, <2>3, <2>4, <2>5 DEF Kinds
<1>3. \A e \in r.evidence : e.uncertain = u
  BY <1>1, <1>2, EvidenceIsAlike
<1>4. own # None => Publishes(k, own, r.facts)
  BY <1>1, <1>2, StatesPublishes
<1>5. /\ \A f \in DOMAIN r.facts \ {"locations"} :
             r.facts[f] # None <=> \E e \in r.evidence : e.field = f
      /\ r.facts.locations # <<>> <=> \E e \in r.evidence : e.field = "locations"
  BY EvidenceIsComplete
<1>6. \A e \in r.evidence : e.uncertain <=> k = "manual_url" /\ own = None
  BY <1>3
<1>7. QED
  BY <1>4, <1>5, <1>6 DEF IsEvidenced

\* Every completed normalisation states what its posting publishes, each fact with its
\* evidence, and only what a page was guessed from is uncertain: for every connector,
\* site and table (normalize.ts "NO FABRICATION", "EVIDENCE COMPLETENESS").
THEOREM FactsAreEvidencedAlways == Spec => []FactsAreEvidenced
<1>1. Init => PipeInv
  BY PipeInvInit
<1>2. PipeInv /\ [Next]_vars => PipeInv'
  BY PipeInvStep
<1>3. PipeInv => FactsAreEvidenced
  <2> SUFFICES ASSUME PipeInv, NEW v \in Versions
               PROVE  <<kind, v>> \in Evidenced
    BY DEF FactsAreEvidenced
  <2>1. kind \in Kinds
    BY DEF PipeInv, PipeTypes
  <2>2. IsEvidenced(kind, v)
    BY <2>1, EveryVersionIsEvidenced
  <2> DEFINE Row(k) == {<<k, w>> : w \in {x \in Versions : IsEvidenced(k, x)}}
  <2>3. <<kind, v>> \in Row(kind)
    BY <2>2
  <2>4. Evidenced = UNION {Row(k) : k \in Kinds}
    BY DEF Evidenced, Those
  <2> HIDE DEF Row
  <2>5. QED
    BY <2>1, <2>3, <2>4
<1>4. QED
  BY <1>1, <1>2, <1>3, PTL DEF Spec
-----------------------------------------------------------------------------
(***************************************************************************)
(* The identity of a URL: the normal form is one, and what it leaves out   *)
(* makes no difference.  What sorting makes of the parameters is not       *)
(* proved: it is defined by choosing a permutation.                        *)
(***************************************************************************)

\* A URL as the parser leaves it, its path made of Segs.
ParsedUrls(Segs) ==
    [scheme : Schemes, host : STRING, port : Nat, path : Seq(Segs),
     params : Seq(Nat \X Nat), fragment : BOOLEAN]

\* A finite set of numbers has a greatest.
LEMMA GreatestIsThere ==
    ASSUME NEW S \in SUBSET Nat, S # {}, IsFiniteSet(S)
    PROVE  \E m \in S : \A n \in S : n <= m
<1> DEFINE Over(m) == {n \in S : n >= m}
           Families == {Over(m) : m \in S}
<1>1. Families \subseteq FiniteSubsetsOf(Nat) /\ Families # {}
  <2> SUFFICES ASSUME NEW m \in S PROVE Over(m) \in FiniteSubsetsOf(Nat)
    OBVIOUS
  <2>1. IsFiniteSet(Over(m))
    BY FS_Subset
  <2>2. QED
    BY <2>1 DEF FiniteSubsetsOf
<1>2. PICK T \in Families : \A U \in Families : <<U, T>> \notin StrictSubsetOrdering(Nat)
  BY <1>1, WFMin, FS_StrictSubsetOrderingWellFounded
<1>3. PICK m \in S : T = Over(m)
  BY <1>2
<1>4. ASSUME NEW n \in S, n > m PROVE FALSE
  <2>1. ASSUME NEW k \in Over(n) PROVE k \in Over(m)
    <3>1. k \in Nat /\ n \in Nat /\ m \in Nat /\ k \in S
      OBVIOUS
    <3>2. QED
      BY <1>4, <3>1
  <2>2. m \in Over(m) /\ m \notin Over(n)
    BY <1>4
  <2>3. <<Over(n), Over(m)>> \in StrictSubsetOrdering(Nat)
    BY <2>1, <2>2 DEF StrictSubsetOrdering
  <2>4. QED
    BY <1>2, <1>3, <2>3
<1>5. QED
  BY <1>4

\* The places of a path that hold a segment.
Full(path, empty) == {i \in DOMAIN path : path[i] # empty}

\* TrimmedPath over any value for the empty segment: the SMT backend does not take "".
Trim(path, empty) ==
    IF Full(path, empty) = {} THEN <<>>
    ELSE SubSeq(path, 1, CHOOSE i \in Full(path, empty) :
                             \A k \in Full(path, empty) : k <= i)

LEMMA TrimIsTrimmedPath == \A path : TrimmedPath(path) = Trim(path, "")
BY Zenon DEF TrimmedPath, Trim, Full

LEMMA FullPlaces ==
    ASSUME NEW Segs, NEW empty, NEW path \in Seq(Segs)
    PROVE  /\ Len(path) \in Nat
           /\ Full(path, empty) = {i \in 1..Len(path) : path[i] # empty}
           /\ IsFiniteSet(Full(path, empty)) /\ Full(path, empty) \in SUBSET Nat
<1>1. DOMAIN path = 1..Len(path) /\ Len(path) \in Nat
  OBVIOUS
<1>2. Full(path, empty) = {i \in 1..Len(path) : path[i] # empty}
  BY <1>1, Zenon DEF Full
<1>3. IsFiniteSet(1..Len(path))
  BY <1>1, FS_Interval
<1>4. IsFiniteSet(Full(path, empty))
  BY <1>2, <1>3, FS_Subset
<1>5. QED
  BY <1>1, <1>2, <1>4

LEMMA TrimEnds ==
    ASSUME NEW Segs, NEW empty, NEW path \in Seq(Segs)
    PROVE  \/ Full(path, empty) = {} /\ Trim(path, empty) = <<>>
           \/ \E n \in Full(path, empty) : /\ \A k \in Full(path, empty) : k <= n
                                    /\ Trim(path, empty) = SubSeq(path, 1, n)
<1>1. CASE Full(path, empty) = {}
  BY <1>1, Zenon DEF Trim
<1>2. CASE Full(path, empty) # {}
  <2>1. \E n \in Full(path, empty) : \A k \in Full(path, empty) : k <= n
    BY <1>2, FullPlaces, GreatestIsThere
  <2> DEFINE n == CHOOSE i \in Full(path, empty) : \A k \in Full(path, empty) : k <= i
  <2>2. n \in Full(path, empty) /\ \A k \in Full(path, empty) : k <= n
    BY <2>1, Zenon
  <2>3. Trim(path, empty) = SubSeq(path, 1, n)
    BY <1>2, Zenon DEF Trim
  <2>4. QED
    BY <2>2, <2>3, Zenon
<1>3. QED
  BY <1>1, <1>2

\* A path that is trimmed is left as it is.
LEMMA TrimTwice ==
    ASSUME NEW Segs, NEW empty, NEW path \in Seq(Segs)
    PROVE  Trim(Trim(path, empty), empty) = Trim(path, empty)
<1>1. CASE Full(path, empty) = {} /\ Trim(path, empty) = <<>>
  <2>1. Full(<<>>, empty) = {}
    BY DEF Full
  <2>2. <<>> \in Seq(Segs)
    OBVIOUS
  <2>3. Trim(<<>>, empty) = <<>>
    BY <2>1, <2>2, TrimEnds, Zenon
  <2>4. QED
    BY <1>1, <2>3
<1>2. ASSUME NEW n \in Full(path, empty), \A k \in Full(path, empty) : k <= n,
             Trim(path, empty) = SubSeq(path, 1, n)
      PROVE  Trim(Trim(path, empty), empty) = Trim(path, empty)
  <2> DEFINE short == SubSeq(path, 1, n)
  <2>1. n \in 1..Len(path) /\ Len(path) \in Nat /\ path[n] # empty
    BY FullPlaces
  <2>2. short \in Seq(Segs) /\ Len(short) = n /\ \A i \in 1..n : short[i] = path[i]
    BY <2>1
  <2> HIDE DEF short
  <2>3. n \in Nat /\ n > 0
    BY <2>1
  <2>4. Full(short, empty) = {i \in 1..n : short[i] # empty}
    BY <2>2, FullPlaces
  <2>5. n \in Full(short, empty) /\ \A k \in Full(short, empty) : k <= n
    BY <2>1, <2>2, <2>3, <2>4
  <2>6. PICK m \in Full(short, empty) : (\A k \in Full(short, empty) : k <= m)
                                   /\ Trim(short, empty) = SubSeq(short, 1, m)
    BY <2>2, <2>5, TrimEnds, Zenon
  <2>7. m = n
    BY <2>3, <2>4, <2>5, <2>6
  <2>8. SubSeq(short, 1, Len(short)) = short
    BY <2>2, SubSeqFull
  <2>9. QED
    BY <1>2, <2>2, <2>6, <2>7, <2>8 DEF short
<1>3. QED
  BY <1>1, <1>2, TrimEnds

\* A slash at the end makes no difference.
LEMMA TrimsItsEnd ==
    ASSUME NEW Segs, NEW empty \in Segs, NEW path \in Seq(Segs)
    PROVE  Trim(Append(path, empty), empty) = Trim(path, empty)
<1> DEFINE long == Append(path, empty)
<1>1. long \in Seq(Segs) /\ Len(long) = Len(path) + 1 /\ Len(path) \in Nat
        /\ (\A i \in 1..Len(path) : long[i] = path[i]) /\ long[Len(path) + 1] = empty
  OBVIOUS
<1> HIDE DEF long
<1>2. Full(long, empty) = Full(path, empty)
  <2>1. Full(long, empty) = {i \in 1..(Len(path) + 1) : long[i] # empty}
    BY <1>1, FullPlaces
  <2>2. Full(path, empty) = {i \in 1..Len(path) : path[i] # empty}
    BY FullPlaces
  <2>3. QED
    BY <1>1, <2>1, <2>2
<1>3. CASE Full(path, empty) = {}
  BY <1>1, <1>2, <1>3, TrimEnds, Zenon DEF long
<1>4. CASE Full(path, empty) # {}
  <2>1. PICK n \in Full(path, empty) : (\A k \in Full(path, empty) : k <= n)
                                  /\ Trim(path, empty) = SubSeq(path, 1, n)
    BY <1>4, TrimEnds, Zenon
  <2>2. PICK m \in Full(long, empty) : (\A k \in Full(long, empty) : k <= m)
                                  /\ Trim(long, empty) = SubSeq(long, 1, m)
    BY <1>1, <1>2, <1>4, TrimEnds, Zenon
  <2>3. m \in Full(path, empty)
    BY <1>2, <2>2
  <2>4. m <= n /\ n <= m
    BY <1>2, <2>1, <2>2, <2>3
  <2>5. n \in 1..Len(path) /\ m \in 1..Len(path)
    BY <2>1, <2>3, FullPlaces
  <2>6. m = n
    BY <1>1, <2>4, <2>5
  <2>7. SubSeq(long, 1, n) = SubSeq(path, 1, n)
    BY <1>1, <2>5
  <2>8. QED
    BY <2>1, <2>2, <2>6, <2>7 DEF long
<1>5. QED
  BY <1>3, <1>4

\* The normal form of a URL is one: canonicalizing it again changes neither port nor
\* path, and fragment, default port and slashes at the end make no difference
\* (canonical-url.ts).
THEOREM CanonicalIsStableAlways ==
    ASSUME NEW Segs, "" \in Segs, NEW url \in ParsedUrls(Segs)
    PROVE  /\ Port(Canonical(url)) = Canonical(url).port
           /\ TrimmedPath(Canonical(url).path) = Canonical(url).path
           /\ Canonical([url EXCEPT !.fragment = ~@]) = Canonical(url)
           /\ Canonical([url EXCEPT !.path = Append(@, "")]) = Canonical(url)
           /\ Canonical([url EXCEPT !.port = DefaultPort(url.scheme)])
                = Canonical([url EXCEPT !.port = 0])
<1>1. url.path \in Seq(Segs) /\ url.scheme \in Schemes /\ url.port \in Nat
  BY DEF ParsedUrls
<1>2. Port(Canonical(url)) = Canonical(url).port
  BY DEF Canonical, Port, DefaultPort
<1>3. TrimmedPath(Canonical(url).path) = Canonical(url).path
  <2>1. Canonical(url).path = TrimmedPath(url.path)
    BY DEF Canonical
  <2>2. QED
    BY <1>1, <2>1, TrimTwice, TrimIsTrimmedPath, Zenon
<1>4. Canonical([url EXCEPT !.fragment = ~@]) = Canonical(url)
  BY DEF Canonical, Port, ParsedUrls
<1>5. Canonical([url EXCEPT !.path = Append(@, "")]) = Canonical(url)
  <2> DEFINE long == Append(url.path, "")
  <2>1. TrimmedPath(long) = TrimmedPath(url.path)
    BY <1>1, TrimsItsEnd, TrimIsTrimmedPath, Zenon
  <2>2. [url EXCEPT !.path = Append(@, "")] = [url EXCEPT !.path = long]
    OBVIOUS
  <2> HIDE DEF long
  <2>3. Canonical([url EXCEPT !.path = long]) = Canonical(url)
    BY <2>1 DEF Canonical, Port, ParsedUrls
  <2>4. QED
    BY <2>2, <2>3, Zenon
<1>6. Canonical([url EXCEPT !.port = DefaultPort(url.scheme)])
        = Canonical([url EXCEPT !.port = 0])
  <2> DEFINE given == [url EXCEPT !.port = DefaultPort(url.scheme)]
             left  == [url EXCEPT !.port = 0]
  <2>1. /\ given.port = DefaultPort(url.scheme) /\ left.port = 0
        /\ given.scheme = url.scheme /\ left.scheme = url.scheme
        /\ given.host = url.host /\ left.host = url.host
        /\ given.path = url.path /\ left.path = url.path
        /\ given.params = url.params /\ left.params = url.params
    BY DEF ParsedUrls
  <2> HIDE DEF given, left
  <2>2. Port(given) = 0 /\ Port(left) = 0
    BY <2>1 DEF Port
  <2>3. QED
    BY <2>1, <2>2 DEF Canonical, given, left
<1>7. QED
  BY <1>2, <1>3, <1>4, <1>5, <1>6
=============================================================================
