---------------------------- MODULE Normalising ----------------------------
(***************************************************************************)
(* From a parsed posting to a canonical candidate: normalize               *)
(* (packages/shared).  A location is the sequence of its segments (module  *)
(* Places), a URL a record (module CanonicalUrl), a company the sequence   *)
(* of its words; the other values stand for all their spellings.           *)
(***************************************************************************)
EXTENDS Connectors, Places, CanonicalUrl

CONSTANTS
    TitleForm(_),   \* normalizeTitle
    ArrangementOf(_), TypeOf(_), PeriodOf(_)
                    \* the value of the enum, or None

LegalSuffixes == {"inc", "incorporated", "llc", "llp", "ltd", "limited", "pty", "plc", "co",
                  "corp", "corporation", "gmbh", "ag", "sa", "bv", "group", "holdings"}

\* The words without the legal form at the end; one word always stays.
NormalizeCompany(words) ==
    LET kept == {i \in DOMAIN words : words[i] \notin LegalSuffixes} \union {1} IN
    SubSeq(words, 1, CHOOSE i \in kept : \A k \in kept : k <= i)

\* An enum's value, omitted rather than guessed.
WorkArrangement(v) == IF v = None THEN None ELSE ArrangementOf(v)
EmploymentType(v)  == IF v = None THEN None ELSE TypeOf(v)
SalaryPeriod(v)    == IF v = None THEN None ELSE PeriodOf(v)

\* The evidence of a field that has any, and the value of a field.
Only(ev) == CHOOSE e \in ev : TRUE

Value(ev) == IF ev = {} THEN None ELSE Only(ev).value

Values(evs) == [i \in DOMAIN evs |-> evs[i].value]

\* Ends that are the wrong way round change places.
NormalizeSalary(s) ==
    LET swap   == s.min # None /\ s.max # None /\ s.min > s.max
        period == SalaryPeriod(s.period) IN
    IF s.min = None /\ s.max = None /\ s.currency = None /\ period = None THEN None
    ELSE [min |-> IF swap THEN s.max ELSE s.min, max |-> IF swap THEN s.min ELSE s.max,
          currency |-> s.currency, period |-> period]

\* The first candidate that is a web URL, in its canonical form.
Resolve(candidates) ==
    LET usable == FirstWith(candidates, LAMBDA u : u # None /\ IsWebUrl(u)) IN
    IF usable = None THEN None ELSE Canonical(usable)

\* The facts a candidate is made of.  No mapper fills in a seniority.
Facts(parsed) ==
    [title           |-> Value(parsed.title),
     company         |-> Value(parsed.company),
     workArrangement |-> WorkArrangement(Value(parsed.workArrangement)),
     employmentType  |-> EmploymentType(Value(parsed.employmentType)),
     salary          |-> IF parsed.salary = {} THEN None
                         ELSE NormalizeSalary(Value(parsed.salary)),
     postedAt        |-> Value(parsed.postedAt),
     closesAt        |-> Value(parsed.closesAt),
     descriptionHtml |-> Value(parsed.descriptionHtml),
     locations       |-> Values(parsed.locations)]

\* An evidence row for each fact that is taken over, one for each location.
EvidenceOf(parsed) ==
    LET facts == Facts(parsed) IN
    {[field |-> f, method |-> Only(parsed[f]).method, uncertain |-> Only(parsed[f]).uncertain] :
        f \in {g \in DOMAIN facts \ {"locations"} : facts[g] # None}}
    \union {[field |-> "locations", method |-> parsed.locations[i].method,
             uncertain |-> parsed.locations[i].uncertain] : i \in DOMAIN parsed.locations}

\* A location is remote by itself or because the arrangement is.
Locations(facts) ==
    [i \in DOMAIN facts.locations |->
        ParseLocation(facts.locations[i], facts.workArrangement = "remote")]

IsRemote(facts) ==
    facts.workArrangement = "remote" \/ \E i \in DOMAIN Locations(facts) : Locations(facts)[i].remote

Fingerprint(facts) ==
    <<IF facts.company = None THEN <<>> ELSE NormalizeCompany(facts.company),
      TitleForm(facts.title), LocationKey(Locations(facts), IsRemote(facts)),
      facts.employmentType>>

\* normalize: the candidate, or why it is none.
Normalize(parsed, sourceUrl) ==
    LET facts == Facts(parsed)
        url   == Resolve(<<Value(parsed.canonicalUrlHint), sourceUrl, Value(parsed.applyUrl)>>) IN
    [ok          |-> facts.title # None /\ facts.company # None /\ url # None,
     facts       |-> facts,
     url         |-> url,
     applyUrl    |-> Resolve(<<Value(parsed.applyUrl)>>),
     fingerprint |-> Fingerprint(facts),
     evidence    |-> EvidenceOf(parsed)]
=============================================================================
