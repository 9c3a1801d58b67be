--------------------------- MODULE MCDedupPersist ---------------------------
(***************************************************************************)
(* Instance of DedupPersist for TLC, and the checks of deduplicate and of  *)
(* its similarities (module Matching) over bounded inputs.                 *)
(***************************************************************************)
EXTENDS DedupPersist

\* A posting in two versions, of which the second has another title and another URL,
\* and an aggregator that guesses what the first had from a page and later reads the
\* title of the second from structured data.
SharedSource     == <<"ats", "ats", "other", "other">>
SharedUrl        == <<"board", "page", "board", "board">>
SharedPrint      == <<"old", "new", "old", "old">>
SharedConfidence == <<10, 10, 3, 10>>

StampedSources == {"ats"}

-----------------------------------------------------------------------------
M == INSTANCE Matching WITH Space <- " ", MergeAt <- 3060, ReviewAt <- 2160

Texts == UNION {[1..n -> {"a", "b"}] : n \in 0..3} \union
         {<<"a", "b", "b", "a">>, <<"b", "a", "a", "b">>, <<"a", " ", "b">>, <<"b", " ", "a">>, <<"a", " ", "a">>, <<"a", "b", " ", "a", "b">>}

Keys == {None} \union [city : {None, "perth"}, region : {"wa"}, country : {None, "au"},
                       remote : BOOLEAN]

\* Every similarity is within its range, is whole exactly for what it takes to be the
\* same, and does not depend on the order of its arguments (similarity.ts, "All
\* functions are deterministic and symmetric").
ASSUME SimilaritySymmetric ==
    /\ \A a, b \in Texts :
        /\ M!JaroWinkler(a, b) = M!JaroWinkler(b, a)
        /\ M!JaroWinkler(a, b) \in 0..M!Unit
        /\ (M!JaroWinkler(a, b) = M!Unit) = (a = b)
        /\ M!TitleSimilarity(a, b) = M!TitleSimilarity(b, a)
        /\ M!TitleSimilarity(a, b) \in 0..M!Unit
    /\ \A k, l \in Keys : M!LocationProximity(k, l) = M!LocationProximity(l, k)

Candidate(key, url, print, title, ours) ==
    [key |-> key, source |-> key, url |-> url, print |-> print, apply |-> None,
     ats |-> None, title |-> title, company |-> <<"a">>, location |-> None,
     firstParty |-> ours, confidence |-> 1, updatedAt |-> 0]

Candidates(key) ==
    {Candidate(key, url, print, title, key = 2) :
        url \in {0, key}, print \in {0, key},
        title \in {<<"a", "b", "b", "a">>, <<"a", "b", "b">>, <<"b", "a", "a", "a">>}}

\* What joins two candidates, and how.
Alike(c, d) ==
    CASE M!IdentityTokens(c) \intersect M!IdentityTokens(d) # {} -> "exact"
      [] M!IdentityTokens(c) \intersect M!IdentityTokens(d) = {} ->
            IF c.print = d.print THEN "fingerprint"
            ELSE IF M!FuzzyConfidence(c, d) >= 3060 THEN "fuzzy" ELSE "apart"

\* Connected through alike candidates of S.
Together(S, c, d) ==
    \A T \in SUBSET S :
        /\ c \in T
        /\ \A x \in T, y \in S : Alike(x, y) # "apart" => y \in T
        => d \in T

\* deduplicate groups exactly what is connected, puts every candidate in one group
\* with a canonical member no other one beats, and asks for review of no pair it has
\* grouped (dedup.ts, Properties 2 and 3 and Req 36.3, 36.4, 37.1).
ASSUME GroupsAreComponents ==
    \A c \in Candidates(1), d \in Candidates(2), e \in Candidates(3) :
        LET S == {c, d, e}
            result == M!Deduplicate(S)
            GroupOf(x) == CHOOSE g \in result.groups : x.key \in g.members
        IN /\ UNION {g.members : g \in result.groups} = {1, 2, 3}
           /\ \A x, y \in S : (GroupOf(x) = GroupOf(y)) = Together(S, x, y)
           /\ \A g \in result.groups :
                /\ 2 \in g.members => g.canonical = 2
                /\ g.canonical \in g.members
                /\ g.stage # "exact" =>
                      \A x, y \in S : x # y /\ {x.key, y.key} \subseteq g.members =>
                          Alike(x, y) # "exact"
           /\ \A p \in result.review : \A g \in result.groups : ~(p \subseteq g.members)
=============================================================================
