----------------------------- MODULE Politeness -----------------------------
(***************************************************************************)
(* What packages/security offers for fetching politely, beside the shared  *)
(* limiter that module Fetching has: robots.txt (robots.ts), the limiter   *)
(* of one process and the backoff (rate-limiter.ts), and the headers that  *)
(* go out and the result that comes back (safe-fetcher.ts).  The worker    *)
(* wires none of robots, InMemoryRateLimiter and computeBackoffMs.         *)
(*                                                                         *)
(* Text is a sequence of tokens: a path, a pattern, the name of an agent.  *)
(* A line of robots.txt is a record; one with neither field nor colon is   *)
(* skipped by the code and is not in a document here.                      *)
(***************************************************************************)
EXTENDS Integers, Sequences

LOCAL INSTANCE TLC
LOCAL X == INSTANCE SequencesExt

CONSTANT Absent

Pick(a, b, cond) == IF cond THEN a ELSE b

-----------------------------------------------------------------------------
\* compileRulePath: the positions of the path a prefix of the pattern may end at,
\* one token of the pattern after the other; "$" counts only as the last token.
StepOver(path, ends, token) ==
    IF token = "*" THEN {q \in 0..Len(path) : \E p \in ends : p <= q}
    ELSE {p + 1 : p \in {q \in ends : q < Len(path) /\ path[q + 1] = token}}

Anchored(pattern) == pattern # <<>> /\ pattern[Len(pattern)] = "$"

Matches(pattern, path) ==
    LET body == Pick(SubSeq(pattern, 1, Len(pattern) - 1), pattern, Anchored(pattern))
        over(ends, token) == StepOver(path, ends, token)
        ends == X!FoldLeft(over, {0}, body) IN
    IF Anchored(pattern) THEN Len(path) \in ends ELSE ends # {}

Rule(line) == [allow |-> line.field = "allow", pattern |-> line.value,
               length |-> Len(line.value)]

\* A line naming an agent starts a group if the one before was of rules, and a rule is
\* given to every agent of its group; an empty one ends the naming and says nothing.
NameAgent(g, agent) ==
    [g EXCEPT !.agents = Append(Pick(<<>>, @, g.ruled), agent),
              !.ruled  = FALSE,
              !.rules  = IF agent \in DOMAIN @ THEN @
                         ELSE [a \in DOMAIN @ \union {agent} |-> IF a = agent THEN <<>> ELSE @[a]]]

GiveRule(g, line) ==
    [g EXCEPT !.ruled = TRUE,
              !.rules = [a \in DOMAIN @ |->
                  @[a] \o IF line.value = <<>> THEN <<>>
                          ELSE [i \in DOMAIN SelectSeq(g.agents, LAMBDA b : b = a) |-> Rule(line)]]]

ReadLine(g, line) ==
    CASE line.field = "user-agent"          -> NameAgent(g, line.value)
      [] line.field \in {"allow", "disallow"} -> GiveRule(g, line)
      [] OTHER                              -> g

Groups(document) ==
    X!FoldLeft(ReadLine, [agents |-> <<>>, ruled |-> FALSE, rules |-> <<>>], document).rules

Includes(text, part) ==
    \E i \in 0..(Len(text) - Len(part)) : SubSeq(text, i + 1, i + Len(part)) = part

Star == <<"*">>

\* parseRobots: the longest name that is part of the user agent, else the group "*".
RobotRules(document, userAgent) ==
    LET rules == Groups(document)
        named == {a \in DOMAIN rules \ {Star} : Includes(userAgent, a)} IN
    IF named # {}
    THEN rules[CHOOSE a \in named : \A b \in named : Len(b) <= Len(a)]
    ELSE IF Star \in DOMAIN rules THEN rules[Star] ELSE <<>>

\* isPathAllowed: the longest pattern that matches, an Allow among equals.
Outranks(best, rule, path) ==
    /\ Matches(rule.pattern, path)
    /\ rule.length >= best.length
    /\ rule.length > best.length \/ rule.allow

PathAllowed(rules, path) ==
    LET better(best, rule) ==
            IF Outranks(best, rule, path) THEN [length |-> rule.length, allow |-> rule.allow]
            ELSE best IN
    X!FoldLeft(better, [length |-> -1, allow |-> TRUE], rules).allow

\* CachedRobotsChecker: the first answer for a host is kept, a failure as no document.
Cached(cache, host, answer) ==
    IF host \in DOMAIN cache THEN cache
    ELSE [h \in DOMAIN cache \union {host} |->
             IF h # host THEN cache[h] ELSE IF answer = "failed" THEN Absent ELSE answer]

IsAllowed(cache, host, answer, path, userAgent) ==
    LET text == Cached(cache, host, answer)[host] IN
    text \in {Absent, <<>>} \/ PathAllowed(RobotRules(text, userAgent), path)

-----------------------------------------------------------------------------
\* InMemoryRateLimiter.acquire, in parts of a token: window of them are one, and
\* capacity flow in per unit of time.
InMemory(bucket, clock, capacity, window) ==
    LET old     == IF bucket = Absent THEN [parts |-> capacity * window, ts |-> clock] ELSE bucket
        elapsed == Pick(clock - old.ts, 0, clock > old.ts)
        full    == old.parts + elapsed * capacity
        parts   == Pick(full, capacity * window, full < capacity * window)
        ok      == parts >= window
        deficit == window - parts IN
    [allowed |-> ok,
     retry   |-> IF ok THEN 0 ELSE (deficit + capacity - 1) \div capacity,
     bucket  |-> [parts |-> Pick(parts - window, parts, ok), ts |-> clock]]

\* computeBackoffMs; the jitter is given in tenths, the draw in tenths below ten.
Backoff(attempt, base, max, jitter, draw) ==
    LET n      == Pick(attempt, 1, attempt >= 1)
        upper  == IF max = Absent THEN base * 2^10 ELSE max
        whole  == base * 2^(n - 1)
        capped == Pick(whole, upper, whole < upper)
        j      == Pick(Pick(jitter, 10, jitter <= 10), 0, jitter >= 0)
        floor  == capped * (10 - j) IN
    (10 * floor + draw * (10 * capped - floor) + 50) \div 100

-----------------------------------------------------------------------------
Credentials == {"authorization", "cookie", "proxy-authorization"}

Given(header, value) == [h \in {x \in {header} : value # Absent} |-> value]

\* buildHeaders: what the caller asked for without credentials; the agent and the
\* validators are the fetcher's.
RequestHeaders(asked, userAgent, conditional) ==
    Given("if-modified-since", conditional.lastModified)
        @@ Given("if-none-match", conditional.etag)
        @@ Given("user-agent", userAgent)
        @@ [h \in DOMAIN asked \ Credentials |-> asked[h]]

\* buildResult: a 304 has neither type nor body; the status is not looked at.
FetchResult(url, response) ==
    LET same == response.status = 304 IN
    [finalUrl |-> url, status |-> response.status, notModified |-> same,
     contentType |-> IF same THEN Absent ELSE response.type,
     body |-> IF same THEN <<>> ELSE response.body,
     byteSize |-> IF same THEN 0 ELSE Len(response.body),
     etag |-> response.etag, lastModified |-> response.lastModified]
=============================================================================
