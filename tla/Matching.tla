------------------------------ MODULE Matching ------------------------------
(***************************************************************************)
(* deduplicate (packages/shared/src/dedup.ts) and the similarities of its  *)
(* fuzzy stage (similarity.ts), as functions of the candidates.            *)
(*                                                                         *)
(* A similarity is a number of parts of Unit, which is exact as long as no *)
(* string is longer than six characters.  A string is a sequence of        *)
(* characters, of which Space separates words.  Keys are numbers, in the   *)
(* order the code sorts the keys.                                          *)
(***************************************************************************)
EXTENDS Integers, SequencesExt, FiniteSetsExt

CONSTANTS
    Space,
    None,
    MergeAt, ReviewAt       \* mergeThreshold, reviewThreshold, in parts of Unit

Unit == 3600

Greater(a, b) == IF a > b THEN a ELSE b
Smaller(a, b) == IF a < b THEN a ELSE b

-----------------------------------------------------------------------------
\* How far apart two matching characters may be.
MatchDistance(a, b) == Greater(0, Greater(Len(a), Len(b)) \div 2 - 1)

\* The characters of a and b that match: each of a takes the first of b in reach
\* that is the same and not taken.
Matched(a, b) ==
    LET Reach(i) == {j \in DOMAIN b : j >= i - MatchDistance(a, b)
                                      /\ j <= i + MatchDistance(a, b)}
        Take(m, i) ==
            LET free == {j \in Reach(i) \ m.right : a[i] = b[j]} IN
            IF free = {} THEN m
            ELSE [left |-> m.left \union {i}, right |-> m.right \union {Min(free)}]
    IN FoldLeft(Take, [left |-> {}, right |-> {}], [i \in DOMAIN a |-> i])

InOrder(S) == SetToSortSeq(S, <)

\* Matched characters that are not the same in order, not yet halved.
Transposed(a, b, m) ==
    LET l == InOrder(m.left)
        r == InOrder(m.right)
    IN Cardinality({k \in DOMAIN l : a[l[k]] # b[r[k]]})

Jaro(a, b) ==
    LET m == Matched(a, b)
        n == Cardinality(m.left)
    IN CASE a = b -> Unit
         [] a # b /\ n = 0 -> 0
         [] OTHER -> (n * 1200) \div Len(a) + (n * 1200) \div Len(b)
                       + ((2 * n - Transposed(a, b, m)) * 600) \div n

\* How many of the first four characters agree before one does not.
PrefixLength(a, b) ==
    Max({k \in 0..Smaller(4, Smaller(Len(a), Len(b))) : \A i \in 1..k : a[i] = b[i]})

JaroWinkler(a, b) ==
    LET base == Jaro(a, b) IN
    IF base = 0 THEN 0 ELSE base + PrefixLength(a, b) * ((Unit - base) \div 10)

\* tokenize: the words.
Words(s) ==
    {SubSeq(s, i, j) : <<i, j>> \in
        {p \in (DOMAIN s) \X (DOMAIN s) :
            /\ p[1] <= p[2]
            /\ \A k \in p[1]..p[2] : s[k] # Space
            /\ p[1] = 1 \/ s[p[1] - 1] = Space
            /\ p[2] = Len(s) \/ s[p[2] + 1] = Space}}

TokenSetSimilarity(a, b) ==
    LET A == Words(a)
        B == Words(b)
    IN CASE A = {} /\ B = {} -> Unit
         [] (A = {}) # (B = {}) -> 0
         [] OTHER -> (Cardinality(A \intersect B) * Unit) \div Cardinality(A \union B)

TitleSimilarity(a, b) == Greater(JaroWinkler(a, b), TokenSetSimilarity(a, b))

CompanySimilarity(a, b) == JaroWinkler(a, b)

\* A location key is None, or has a city, a region and a country, each of which may
\* be None, and whether it is remote.
LocationProximity(a, b) ==
    LET Same(part) == a[part] # None /\ a[part] = b[part] IN
    IF a = b THEN Unit
    ELSE IF None \in {a, b} THEN Unit \div 2
    ELSE IF a.remote /\ b.remote THEN Unit
    ELSE IF Same("city") THEN (9 * Unit) \div 10
    ELSE IF Same("region") THEN (7 * Unit) \div 10
    ELSE IF Same("country") THEN Unit \div 2
    ELSE 0

\* The default weights, in hundredths.
Weights == [title |-> 50, company |-> 35, location |-> 15]

FuzzyConfidence(c, d) ==
    (TitleSimilarity(c.title, d.title) * Weights.title
       + CompanySimilarity(c.company, d.company) * Weights.company
       + LocationProximity(c.location, d.location) * Weights.location) \div 100

-----------------------------------------------------------------------------
\* UnionFind.  Path compression is left out: it moves no key to another root.
Singletons(keys) == [parent |-> [k \in keys |-> k], rank |-> [k \in keys |-> 0]]

Find(uf, key) ==
    LET root[k \in DOMAIN uf.parent] ==
            IF uf.parent[k] = k THEN k ELSE root[uf.parent[k]]
    IN root[key]

\* The root with the higher rank wins; of equal ranks the smaller key, which gains one.
Union(uf, a, b) ==
    LET ra == Find(uf, a)
        rb == Find(uf, b)
        even   == uf.rank[ra] = uf.rank[rb]
        winner == IF even THEN Smaller(ra, rb)
                  ELSE IF uf.rank[ra] > uf.rank[rb] THEN ra ELSE rb
        loser  == IF winner = ra THEN rb ELSE ra
    IN IF ra = rb THEN uf
       ELSE [parent |-> [uf.parent EXCEPT ![loser] = winner],
             rank   |-> IF even THEN [uf.rank EXCEPT ![winner] = @ + 1] ELSE uf.rank]

\* identityTokens.
IdentityTokens(c) ==
    {<<"st", c.source>>, <<"url", c.url>>}
    \union (IF c.apply # None THEN {<<"apply", c.apply>>} ELSE {})
    \union (IF c.ats # None THEN {<<"ats", c.ats>>} ELSE {})

StageRank == [exact |-> 3, fingerprint |-> 2, fuzzy |-> 1]

\* recordStage: the stronger of the two stays.
Recorded(stage, key, rank) == [stage EXCEPT ![key] = Greater(@, rank)]

Joined(state, a, b, rank) ==
    [uf    |-> Union(state.uf, a, b),
     stage |-> Recorded(Recorded(state.stage, a, rank), b, rank)]

\* Stages 1 and 2: a candidate joins the first that had one of its tokens.
LinkByTokens(items, state, Tokens(_), rank) ==
    LET Owner(i, t) == Min({j \in 1..i : t \in Tokens(items[j])})
        Link(s, i) ==
            FoldSet(LAMBDA t, u : IF Owner(i, t) = i THEN u
                                  ELSE Joined(u, items[Owner(i, t)].key, items[i].key, rank),
                    s, Tokens(items[i]))
    IN FoldLeft(Link, state, [i \in DOMAIN items |-> i])

PrintToken(c) == {c.print}

\* Stage 3: the pairs the first two stages left apart, whose confidence is in range.
ApartPairs(items, uf, InRange(_)) ==
    {p \in (DOMAIN items) \X (DOMAIN items) :
        /\ p[1] < p[2]
        /\ Find(uf, items[p[1]].key) # Find(uf, items[p[2]].key)
        /\ InRange(FuzzyConfidence(items[p[1]], items[p[2]]))}

LinkByLikeness(items, state) ==
    FoldSet(LAMBDA p, s : Joined(s, items[p[1]].key, items[p[2]].key, StageRank.fuzzy),
            state, ApartPairs(items, state.uf, LAMBDA x : x >= MergeAt))

\* chooseCanonical's order: first-party, confidence, recency, key.
Beats(c, d) ==
    \/ c.firstParty /\ ~d.firstParty
    \/ /\ c.firstParty = d.firstParty
       /\ \/ c.confidence > d.confidence
          \/ /\ c.confidence = d.confidence
             /\ \/ c.updatedAt > d.updatedAt
                \/ c.updatedAt = d.updatedAt /\ c.key < d.key

ChooseCanonical(members) ==
    (CHOOSE c \in members : \A d \in members \ {c} : Beats(c, d)).key

\* The strongest stage any member was joined in; a single member counts as exact.
GroupStage(stage, keys) ==
    LET best == Max({stage[k] : k \in keys}) IN
    IF best = 0 THEN "exact" ELSE CHOOSE s \in DOMAIN StageRank : StageRank[s] = best

Deduplicate(candidates) ==
    LET items  == SetToSortSeq(candidates, LAMBDA c, d : c.key < d.key)
        keys   == {c.key : c \in candidates}
        start  == [uf |-> Singletons(keys), stage |-> [k \in keys |-> 0]]
        exact  == LinkByTokens(items, start, IdentityTokens, StageRank.exact)
        prints == LinkByTokens(items, exact, PrintToken, StageRank.fingerprint)
        fuzzy  == LinkByLikeness(items, prints)
        unsure == ApartPairs(items, prints.uf, LAMBDA x : x >= ReviewAt /\ x < MergeAt)
        With(root) == {c \in candidates : Find(fuzzy.uf, c.key) = root}
    IN [groups |-> {[members   |-> {c.key : c \in With(root)},
                     canonical |-> ChooseCanonical(With(root)),
                     stage     |-> GroupStage(fuzzy.stage, {c.key : c \in With(root)})] :
                    root \in {Find(fuzzy.uf, k) : k \in keys}},
        review |-> {{items[p[1]].key, items[p[2]].key} : p \in
                    {q \in unsure : Find(fuzzy.uf, items[q[1]].key)
                                      # Find(fuzzy.uf, items[q[2]].key)}}]
=============================================================================
