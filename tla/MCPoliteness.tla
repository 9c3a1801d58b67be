---------------------------- MODULE MCPoliteness ----------------------------
(***************************************************************************)
(* The operators of Politeness against what they are to mean, over small   *)
(* documents, paths and buckets.                                           *)
(***************************************************************************)
EXTENDS Politeness

P == INSTANCE SequencesExt

UpTo(n, set) == UNION {[1..k -> set] : k \in 0..n}

RobotLines ==
    [field : {"user-agent"}, value : {<<"bot">>, Star}]
      \union [field : {"disallow"}, value : {<<"a">>, <<>>}]
      \union [field : {"allow", "sitemap"}, value : {<<"a">>}]

\* The rules of a document that follow a line naming the agent, with no group of
\* another name begun in between.
GivenTo(d, agent) ==
    LET names(i) == d[i].field = "user-agent"
        rules(i) == d[i].field \in {"allow", "disallow"}
        feeds(j, i) == /\ j < i /\ names(j) /\ d[j].value = agent
                       /\ ~\E r, n \in j..i : j < r /\ r < n /\ n < i /\ rules(r) /\ names(n) IN
    {i \in DOMAIN d : rules(i) /\ d[i].value # <<>> /\ \E j \in DOMAIN d : feeds(j, i)}

\* parseRobots gives an agent those and no others (robots.ts 58-109).
ASSUME RobotGroups ==
    \A d \in UpTo(4, RobotLines), a \in {<<"bot">>, Star} :
        LET g == Groups(d) IN
        P!ToSet(IF a \in DOMAIN g THEN g[a] ELSE <<>>) = {Rule(d[i]) : i \in GivenTo(d, a)}

Paths == {<<"/">> \o p : p \in UpTo(3, {"a", "b"})}

\* A star stands for any run of the path and a last dollar for its end (37-51).
ASSUME PatternMeaning ==
    \A p \in Paths :
        /\ Matches(<<"/", "*", "b">>, p) <=> \E i \in DOMAIN p : p[i] = "b"
        /\ Matches(<<"/", "*", "b", "$">>, p) <=> p[Len(p)] = "b"
        /\ Matches(<<"/", "$">>, p) <=> Len(p) = 1

Rules == {Rule([field |-> f, value |-> v]) :
             f \in {"allow", "disallow"},
             v \in {<<"/">>, <<"/", "a">>, <<"/", "*", "b">>, <<"/", "*", "b", "$">>, <<"/", "$">>}}

\* The order of the rules decides nothing: among the longest that match, one Allow is
\* enough (129-146).
ASSUME LongestRuleDecides ==
    \A rs \in UpTo(2, Rules), p \in {<<"/", "a", "b">>, <<"/">>} :
        LET hit == {r \in P!ToSet(rs) : Matches(r.pattern, p)} IN
        PathAllowed(rs, p) <=>
            hit = {} \/ \E r \in hit : r.allow /\ \A q \in hit : q.length <= r.length

\* One failed read of robots.txt allows every path of the host for good (170-180).
ASSUME FailureAllowsForGood ==
    LET no    == <<[field |-> "user-agent", value |-> Star], [field |-> "disallow", value |-> <<"/">>]>>
        after == Cached(<<>>, "acme", "failed") IN
    /\ ~IsAllowed(<<>>, "acme", no, <<"/", "a">>, <<"bot">>)
    /\ IsAllowed(after, "acme", no, <<"/", "a">>, <<"bot">>)

\* A deferral names the least wait after which a token is there, whatever was in the
\* bucket and however far it lies in time (rate-limiter.ts 76-98).
ASSUME WaitIsLeast ==
    \A c \in 1..3, w \in 1..4, p \in 0..12, t \in 0..3 :
        LET r == InMemory([parts |-> p, ts |-> 1], t, c, w) IN
        p <= c * w =>
            /\ r.bucket.parts \in 0..c * w
            /\ ~r.allowed => \A d \in 0..r.retry :
                   InMemory(r.bucket, r.bucket.ts + d, c, w).allowed <=> d = r.retry

\* The backoff stays below its upper bound and, without jitter, never shrinks (206-218).
ASSUME BackoffBounds ==
    \A n \in 0..13, b \in {0, 1, 7}, m \in {Absent, 20}, j \in {-1, 0, 5, 10, 12}, d \in 0..9 :
        /\ Backoff(n, b, m, j, d) \in 0..(IF m = Absent THEN b * 2^10 ELSE m)
        /\ Backoff(n, b, m, 0, d) <= Backoff(n + 1, b, m, 0, d)

\* No credential goes out, and a caller does not override agent or validators
\* (safe-fetcher.ts 306-322).
ASSUME HeadersAreOwn ==
    \A asked \in UNION {[hs -> {1}] : hs \in SUBSET (Credentials \union {"accept", "user-agent", "if-none-match"})},
       e \in {Absent, 2} :
        LET h == RequestHeaders(asked, 3, [etag |-> e, lastModified |-> Absent]) IN
        /\ DOMAIN h \intersect Credentials = {}
        /\ h["user-agent"] = 3
        /\ "accept" \in DOMAIN asked => h["accept"] = 1
        /\ e # Absent => h["if-none-match"] = e
=============================================================================
