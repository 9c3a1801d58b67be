---------------------------- MODULE MCExtraction ----------------------------
(***************************************************************************)
(* Instance of Extraction for TLC: versions of a site with one posting or  *)
(* two.  "title" differs from "whole" in fields the fingerprint has and in *)
(* a type no enum knows; in "more" the text is new, which the fingerprint  *)
(* leaves out, and another posting is put first; in "gone" the board has   *)
(* only that one and the page has no JobPosting; in "alone" the page is    *)
(* the posting itself, paid by the hour.                                   *)
(***************************************************************************)
EXTENDS Extraction, MCPoliteness

S == INSTANCE SequencesExt

CONSTANT Id, OtherId

Link(path, params) ==
    [scheme |-> "https", host |-> "acme", port |-> 0, path |-> path, params |-> params,
     fragment |-> FALSE]

MCBoardUrl(slug)      == Link(<<"boards", slug>>, <<>>)
MCDetailUrl(slug, id) == Link(<<"boards", slug, "jobs">>, <<>>)

MCTitleForm(t)   == t
MCArrangement(a) == IF a \in {"remote", "hybrid"} THEN a ELSE None
MCType(t)        == IF t \in {"full time", "permanent"} THEN "full_time" ELSE None
MCPeriod(p)      == IF p \in {"year", "annum"} THEN "year" ELSE None

MCConfig == [slug |-> "acme", url |-> Link(<<"careers">>, <<>>), pageUrl |-> None,
             company |-> <<"acme">>]

Whole0 == [id |-> Id, listed |-> TRUE, schema |-> "JobPosting",
           title |-> "engineer", company |-> <<"acme", "pty", "ltd">>,
           place |-> <<"sydney", "nsw">>, locations |-> <<<<"perth", "australia">>>>,
           arrangement |-> None, remote |-> FALSE, types |-> <<"full time">>,
           pay |-> <<[min |-> 120, max |-> 90, single |-> None, currency |-> "aud",
                      period |-> "annum"]>>,
           posted |-> "day", closes |-> Unclear, description |-> "text",
           apply |-> None, url |-> Link(<<"jobs", "">>, <<>>),
           skills |-> <<"tla">>, requirements |-> <<<<"degree">>, <<>>, <<>>>>]

Other == [Whole0 EXCEPT !.id = OtherId, !.title = "cook", !.description = "other text",
                        !.url = None, !.place = <<"hobart">>, !.locations = <<>>,
                        !.types = <<>>]

Meta == [ogTitle |-> None, title |-> "careers", h1 |-> None, siteName |-> <<"acme">>,
         description |-> None, ogDescription |-> None, canonical |-> None, ogUrl |-> None]

\* A node of JSON-LD gives an address part by part.
Node(p) == [p EXCEPT !.locations = <<<<"perth", None, "australia">>, <<None, None, None>>>>]

Shows(postings, nodes) ==
    [jobs |-> postings, blocks |-> <<[i \in DOMAIN nodes |-> Node(nodes[i])], <<>>>>,
     document |-> None, meta |-> Meta]

Lead == [Whole0 EXCEPT !.title = "lead", !.types = <<"gig">>, !.remote = TRUE,
                       !.arrangement = "remote", !.place = <<"anywhere">>]
Bare == [Whole0 EXCEPT !.title = None, !.schema = "Organization"]
Text == [Whole0 EXCEPT !.description = "new text"]

Hourly == [Whole0 EXCEPT
              !.arrangement = "hybrid", !.types = <<>>,
              !.pay = <<[min |-> None, max |-> None, single |-> 50, currency |-> "aud",
                         period |-> "hour"]>>]

MCSite(v) ==
    CASE v = "whole" -> Shows(<<Whole0>>, <<Whole0>>)
      [] v = "title" -> Shows(<<Lead>>, <<Lead>>)
      [] v = "more"  -> Shows(<<Other, Text>>, <<Bare, Other, Text>>)
      [] v = "gone"  -> Shows(<<Other>>, <<Bare>>)
      [] v = "alone" -> [Shows(<<Hourly>>, <<>>) EXCEPT !.document = Node(Hourly)]

Interchangeable == Permutations(Fetches)

MCLag    == [p \in Procs |-> IF p = CHOOSE q \in Procs : TRUE THEN 0 ELSE 1]
MCBudget == [fault |-> 1, change |-> 2]

-----------------------------------------------------------------------------
(***************************************************************************)
(* The pure parts.                                                         *)
(***************************************************************************)

\* The three tables of location.ts share no spelling, so that the order in which
\* parseLocation tries them decides nothing, and every city is in a region it knows.
ASSUME TablesApart ==
    /\ DOMAIN AuRegions \intersect DOMAIN AuCities = {}
    /\ DOMAIN Countries \intersect (DOMAIN AuRegions \union DOMAIN AuCities) = {}
    /\ \A c \in DOMAIN AuCities : \E r \in DOMAIN AuRegions : AuRegions[r] = AuCities[c]

Place(text) == ParseLocation(text, FALSE).place

\* An Australian city is the same place with or without its region and country after
\* it, and after them when the country comes first.
ASSUME PlaceIsSettled ==
    \A c \in DOMAIN AuCities, r \in DOMAIN AuRegions, n \in {"au", "australia"} :
        AuRegions[r] = AuCities[c] =>
            \A text \in {<<c>>, <<c, r>>, <<c, n>>, <<c, r, n>>, <<n, r, c>>, <<r, c>>,
                         <<"remote", c>>} :
                Place(text) = Place(<<c>>)

\* A region proves the country, so that the country named after it is read as the city
\* (location.ts 107, 113, 123).
ASSUME CountryReadAsCity ==
    /\ Place(<<"nsw", "australia">>) = [city |-> "australia", region |-> "NSW", country |-> "AU"]
    /\ Place(<<"nsw">>) = [city |-> NoPart, region |-> "NSW", country |-> "AU"]

\* Where it is not: a city of another country that has the name of an Australian one is
\* put in Australia, unless the country is named first (location.ts 116-120 sets the
\* country before the segment after it is read).
ASSUME NamesakeIsMoved ==
    /\ Place(<<"perth", "uk">>).country = "AU"
    /\ Place(<<"uk", "perth">>).country = "GB"

SomeUrls ==
    [scheme : {"http", "https"}, host : {"acme"}, port : {0, 80, 443}, fragment : BOOLEAN,
     path : {<<>>, <<"">>, <<"jobs">>, <<"jobs", "">>, <<"jobs", "", "">>},
     params : UNION {[1..n -> {1, 2} \X {1, 2}] : n \in 0..2}]

\* canonicalizeUrl is idempotent and blind to the order of parameters, to tracking, to
\* the fragment, the default port and trailing slashes, and to nothing else.
ASSUME CanonicalIsStable ==
    \A u \in SomeUrls :
        /\ Canonical(Canonical(u)) = Canonical(u)
        /\ Canonical([u EXCEPT !.params = S!Reverse(@)]) = Canonical(u)
        /\ Canonical([u EXCEPT !.params = Append(@, <<1, 1>>), !.path = Append(@, ""),
                               !.fragment = ~@]) = Canonical(u)
        /\ Canonical([u EXCEPT !.params = Append(@, <<2, 3>>)]) # Canonical(u)

\* A probe reports an empty board as healthy, a page without postings as degraded, and
\* every missing config as failing.
ASSUME ProbesDiffer ==
    LET empty == [jobs |-> <<>>, blocks |-> <<>>, status |-> 200]
        none  == [f \in DOMAIN MCConfig |-> None] IN
    /\ \A k \in Kinds : Health(k, none, empty) = "failing" /\ ~Configured(k, none)
    /\ \A k \in Kinds : Health(k, MCConfig, empty) = IF k = "jsonld" THEN "degraded" ELSE "healthy"

\* A Lever posting does not name its company and an Ashby job has it from the config of
\* the connection, which runParse leaves empty (lever.ts 159, ashby.ts 195, parse.ts 119):
\* however complete, each goes to review for want of one, and would for Ashby, given the
\* config, become a record (requirement 33.1).
ASSUME BoardsLackCompany ==
    \A v \in {"whole", "title", "more", "alone"} :
        /\ \A k \in {"lever", "ashby"} : ~Result(k, v).ok
        /\ Result("greenhouse", v).ok
        /\ Normalize(Parse("ashby", MCConfig, Content("ashby", v)), Content("ashby", v).url).ok

\* The limiter of one process and the shared script decide alike and leave the same
\* bucket behind (rate-limiter.ts 76-98, 113-144).
ASSUME LimitersAgree ==
    \A p \in 0..Capacity * Window, t \in 0..3, clock \in 0..3 :
        LET b == [parts |-> p, ts |-> t, used |-> TRUE]
            r == InMemory([parts |-> p, ts |-> t], clock, Capacity, Window)
            full == Refilled(b, clock) IN
        /\ r.allowed <=> full >= Window
        /\ r.bucket.parts = IF r.allowed THEN full - Window ELSE full
=============================================================================
