----------------------------- MODULE Extraction -----------------------------
(***************************************************************************)
(* One posting on its way from the board to the canonical record: it is    *)
(* fetched now and then (modules Fetching and Connectors) while the board  *)
(* changes, a body not seen before is stored and parsed, and the parsed    *)
(* record is normalised (module Normalising) and queued for deduplication  *)
(* under a job id made of its source and fingerprint (stages/normalize.ts).*)
(*                                                                         *)
(* Two handlers of a queue may run at a time, also in other processes.     *)
(* What is stored of an artifact, and what deduplication does to other     *)
(* records, is modelled in Ingestion and DedupPersist.                     *)
(***************************************************************************)
EXTENDS Fetching, Normalising

CONSTANTS
    Versions,       \* of the site
    Site(_),        \* what it serves in a version
    First,          \* the version there is at first
    Config,         \* of the connection
    Budget          \* bound on throws and deaths after the fetch, changes of the site

ASSUME VersionAssumption == First \in Versions /\ None \notin Versions
ASSUME BudgetAssumption  == Budget \in [{"fault", "change"} -> Nat]

\* An absent text is none of the words the mappers write themselves.
ASSUME NoneAssumption == None # "remote"

ASSUME ConfigAssumption == {"slug", "url", "pageUrl", "company"} \subseteq DOMAIN Config

\* Discovery found a posting to begin with, on every kind of site.
ASSUME ReferenceAssumption == \A k \in Kinds : 1 \in DOMAIN Discover(k, Config, Site(First))

\* The further locations of a job are a list (ashby-connector.ts secondaryLocations).
ASSUME SiteAssumption ==
    \A v \in Versions : \A i \in DOMAIN Site(v).jobs :
        LET more == Site(v).jobs[i].locations IN more \in Seq({more[n] : n \in DOMAIN more})

VARIABLES
    kind,       \* the connector of the connection
    page,       \* the version the site is in
    fetched,    \* history: the version fetched last
    stored,     \* artifacts, a version each, in the order they were stored
    unparsed,   \* those whose parse job has not run
    norm,       \* records of queue normalization; the job id names the artifact
    dedup,      \* records of queue deduplication, by fingerprint
    review,     \* versions with an open review item
    linked,     \* the version the record's source row was last written from
    row,        \* the version the record's own values were last written from
    overtaken,  \* history: a version was stored while an earlier one was on its way
    budget

pipeVars == <<kind, page, fetched, stored, unparsed, norm, dedup, review, linked,
              row, overtaken, budget>>
vars == <<fetchVars, pipeVars>>

\* The reference discovery made: the first one on the site.
RefOf(k) == Discover(k, Config, Site(First))[1]

\* What a connector fetches for it.
Content(k, v) == Fetched(k, Config, RefOf(k), Site(v))

\* runParse leaves the config of the connection out (connectionConfig: {}).
ParseConfig == [f \in DOMAIN Config |-> None]

ParsedOf(k, v) == Parse(k, ParseConfig, Content(k, v))

Result(k, v) == Normalize(ParsedOf(k, v), Content(k, v).url)

\* The versions of each kind that pass a test, and those that are alike in something.
Those(Test(_, _)) ==
    UNION {{<<k, v>> : v \in {w \in Versions : Test(k, w)}} : k \in Kinds}

Alike(Part(_, _)) ==
    UNION {{<<k, v, w>> : w \in {u \in Versions : Part(k, v) = Part(k, u)}} :
              k \in Kinds, v \in Versions}

\* What the stages tell apart: the versions that parse to nothing, those that make a
\* candidate, and which have the same body or fingerprint.
Empties    == Those(LAMBDA k, v : IsEmpty(ParsedOf(k, v)))
Candidates == Those(LAMBDA k, v : Result(k, v).ok)
SameBody   == Alike(Content)
SamePrint  == Alike(LAMBDA k, v : Result(k, v).fingerprint)

\* The versions with evidence from structured data, which has confidence 1; what is
\* guessed from a page has 0.3, and a candidate has that of its best evidence.
Sure == Those(LAMBDA k, v : \E e \in Result(k, v).evidence : e.method = "STRUCTURED_DATA")

\* Mutation: the job id is made of the source alone.
JobIdOfSource(v) == First

\* dedup:<key>:<fingerprint>; the key is the source's, the same for all versions.  A
\* version stands for the fingerprint, the same one for all versions that have it.
JobId(v) == CHOOSE w \in Versions : <<kind, v, w>> \in SamePrint

Init ==
    /\ FetchInit
    /\ kind \in Kinds
    /\ page = First
    /\ fetched = None
    /\ stored = <<>>
    /\ unparsed = {}
    /\ norm = [v \in Versions |-> NoJob]
    /\ dedup = [i \in Versions |-> [job |-> NoJob, version |-> None]]
    /\ review = {}
    /\ linked = None
    /\ row = None
    /\ overtaken = FALSE
    /\ budget = Budget

Artifacts == {stored[i] : i \in DOMAIN stored}

OnTheWay ==
    \/ unparsed # {}
    \/ \E v \in Versions : Pending(norm[v])
    \/ \E i \in Versions : Pending(dedup[i].job)

Spends(b) == budget[b] > 0 /\ budget' = [budget EXCEPT ![b] = @ - 1]

-----------------------------------------------------------------------------
SiteChanges(v) ==
    /\ v # page
    /\ page' = v
    /\ Spends("change")
    /\ UNCHANGED <<fetchVars, kind, fetched, stored, unparsed, norm, dedup, review, linked,
                   row, overtaken>>

\* A body that was stored before is not stored and parsed again.
FetchBody(f) ==
    /\ Body(f)
    /\ fetched' = page
    /\ IF \E v \in Artifacts : <<kind, v, page>> \in SameBody
       THEN UNCHANGED <<stored, unparsed, overtaken>>
       ELSE /\ stored' = Append(stored, page)
            /\ unparsed' = unparsed \union {page}
            /\ overtaken' = (overtaken \/ OnTheWay)
    /\ UNCHANGED <<kind, page, norm, dedup, review, linked, row, budget>>

\* runParse: a record with neither title nor description goes to review.
RunParse(v) ==
    /\ v \in unparsed
    /\ unparsed' = unparsed \ {v}
    /\ IF <<kind, v>> \in Empties
       THEN review' = review \union {v} /\ UNCHANGED norm
       ELSE norm' = [norm EXCEPT ![v] = Added(@)] /\ UNCHANGED review
    /\ UNCHANGED <<fetchVars, kind, page, fetched, stored, dedup, linked, row, overtaken,
                   budget>>

TakeNormalize(v) ==
    /\ norm[v].status = "waiting"
    /\ norm' = [norm EXCEPT ![v] = Taken(@)]
    /\ UNCHANGED <<fetchVars, kind, page, fetched, stored, unparsed, dedup, review, linked,
                   row, overtaken, budget>>

\* The review item, or the dedup job: an add under an id that is known does nothing.
Routes(v) ==
    IF <<kind, v>> \in Candidates
    THEN /\ dedup' = IF dedup[JobId(v)].job.status = "none"
                     THEN [dedup EXCEPT ![JobId(v)] = [job |-> Added(NoJob), version |-> v]]
                     ELSE dedup
         /\ UNCHANGED review
    ELSE review' = review \union {v} /\ UNCHANGED dedup

\* runNormalize, to its end or cut off just before the worker reports it.
RunNormalize(v) ==
    /\ norm[v].status = "active"
    /\ Routes(v)
    /\ \/ norm' = [norm EXCEPT ![v] = Completed(@)] /\ UNCHANGED budget
       \/ norm' = [norm EXCEPT ![v] = Stalled(@)] /\ Spends("fault")
    /\ UNCHANGED <<fetchVars, kind, page, fetched, stored, unparsed, linked, row, overtaken>>

NormalizeThrows(v) ==
    /\ norm[v].status = "active"
    /\ norm' = [norm EXCEPT ![v] = Thrown(@)]
    /\ Spends("fault")
    /\ UNCHANGED <<fetchVars, kind, page, fetched, stored, unparsed, dedup, review, linked,
                   row, overtaken>>

TakeDedup(i) ==
    /\ dedup[i].job.status = "waiting"
    /\ dedup' = [dedup EXCEPT ![i].job = Taken(@)]
    /\ UNCHANGED <<fetchVars, kind, page, fetched, stored, unparsed, norm, review, linked,
                   row, overtaken, budget>>

Surer(v, w) == <<kind, v>> \in Sure /\ <<kind, w>> \notin Sure

\* Whether the values written last can stay when v arrives and the source row is of
\* version w.  Of equal confidences the newer wins, by the update time of the candidate
\* (only Greenhouse has one) and the time of the last deduplication, texts of two time
\* zones: either may come out as the newer.
MayStay(v, w) == w # None /\ ~Surer(v, w)
MayWin(v, w)  == ~MayStay(v, w) \/ (kind = "greenhouse" /\ ~Surer(w, v))

\* The source row and its evidence become those of v, the record's own values only if v
\* is chosen over what is stored.
Writes(v) ==
    /\ linked' = v
    /\ \/ MayWin(v, linked) /\ row' = v
       \/ MayStay(v, linked) /\ UNCHANGED row

\* runDedup's transaction, reported or not.
RunDedup(i) ==
    /\ dedup[i].job.status = "active"
    /\ Writes(dedup[i].version)
    /\ \/ dedup' = [dedup EXCEPT ![i].job = Completed(@)] /\ UNCHANGED budget
       \/ dedup' = [dedup EXCEPT ![i].job = Stalled(@)] /\ Spends("fault")
    /\ UNCHANGED <<fetchVars, kind, page, fetched, stored, unparsed, norm, review, overtaken>>

DedupThrows(i) ==
    /\ dedup[i].job.status = "active"
    /\ dedup' = [dedup EXCEPT ![i].job = Thrown(@)]
    /\ Spends("fault")
    /\ UNCHANGED <<fetchVars, kind, page, fetched, stored, unparsed, norm, review, linked,
                   row, overtaken>>

Fetch ==
    \/ Tick
    \/ \E f \in Fetches :
        \/ AddFetch(f)
        \/ \E p \in Procs : TakeFetch(f, p)
        \/ RefuseDomain(f) \/ PassLimiter(f)
        \/ RefuseAddress(f) \/ RequestFails(f)
        \/ \E d \in Domains : Redirect(f, d)
        \/ NotModified(f) \/ Headers(f) \/ BodyFails(f)

Next ==
    \/ Fetch /\ UNCHANGED pipeVars
    \/ \E f \in Fetches : FetchBody(f)
    \/ \E v \in Versions :
        \/ SiteChanges(v) \/ RunParse(v)
        \/ TakeNormalize(v) \/ RunNormalize(v) \/ NormalizeThrows(v)
    \/ \E i \in Versions : TakeDedup(i) \/ RunDedup(i) \/ DedupThrows(i)

Spec == Init /\ [][Next]_vars

-----------------------------------------------------------------------------
(***************************************************************************)
(* Properties.                                                             *)
(***************************************************************************)

Last == stored[Len(stored)]

\* No earlier version has the fingerprint of the last one.
IsNewPrint ==
    \A i \in DOMAIN stored :
        stored[i] # Last => <<kind, stored[i], Last>> \notin SamePrint

\* It is surer than every other candidate that was stored.
IsSurest ==
    \A v \in Artifacts : v # Last /\ <<kind, v>> \in Candidates => Surer(Last, v)

\* Once nothing is on its way the last version fetched is that of the source row, or a
\* review item names it, unless it was stored before, has the fingerprint of an earlier
\* one, overtook one, or a job on the way failed for good (fetch.ts existing,
\* normalize.ts jobId): through retries, every other change arrives.  The record's own
\* values are those of it only where it is the first candidate or surer than all before:
\* another change is recorded as seen and may never be shown (dedup.ts 94, 292, 336).
NewestArrives ==
    (/\ stored # <<>> /\ <<kind, fetched, Last>> \in SameBody /\ ~overtaken
     /\ ~OnTheWay /\ IsNewPrint
     /\ \A v \in Versions : norm[v].status # "failed"
     /\ \A i \in Versions : dedup[i].job.status # "failed")
    => IF <<kind, Last>> \in Candidates
       THEN linked = Last /\ (IsSurest => row = Last) /\ Last \notin review
       ELSE Last \in review

\* A page that is itself a posting in JSON-LD.
OwnDocument(v) ==
    LET document == Site(v).document IN
    IF document # None /\ IsJobPosting(document) THEN document ELSE None

\* The posting the reference is of, as a version of the site has it.
Own(k, v) ==
    CASE k = "jsonld" -> FirstWith(JobPostings(Site(v)),
                             LAMBDA n : ExternalId(n, PageUrl(Config)) = RefOf(k).id)
      [] k = "manual_url" -> Or(FirstOf(JobPostings(Site(v))), OwnDocument(v))
      [] OTHER -> FirstWith(Site(v).jobs, LAMBDA j : j.id = RefOf(k).id)

\* The locations a posting names: a board's as they are, a node's by the parts given.
LocationsOf(k, own) ==
    IF k \in {"jsonld", "manual_url"}
    THEN {LocationLabel(own.locations[i]) : i \in DOMAIN own.locations}
    ELSE {own.place} \union {own.locations[i] : i \in DOMAIN own.locations}

\* The ends, the currency and the period of a salary are those of one offer.
PaidBy(offer, salary) ==
    /\ {salary.min, salary.max} \subseteq {offer.min, offer.max, offer.single, None}
    /\ salary.currency = offer.currency
    /\ salary.period \in {PeriodOf(offer.period), None}

\* The facts are those the posting publishes, or left out.
Publishes(k, own, facts) ==
    /\ facts.title = own.title
    /\ facts.descriptionHtml = own.description
    /\ facts.company \in {own.company, None}
    /\ facts.postedAt \in {own.posted, None}
    /\ facts.closesAt \in {own.closes, None}
    /\ facts.employmentType \in {TypeOf(own.types[i]) : i \in DOMAIN own.types} \union {None}
    /\ facts.workArrangement = "remote" =>
           own.remote \/ (own.arrangement # None /\ ArrangementOf(own.arrangement) = "remote")
    /\ \A i \in DOMAIN facts.locations : facts.locations[i] \in LocationsOf(k, own)
    /\ facts.salary # None => \E i \in DOMAIN own.pay : PaidBy(own.pay[i], facts.salary)

\* What is normalised is what the posting of the reference publishes, as long as the
\* site has it and however its neighbours change: nothing is taken from another
\* posting or made up, and each fact has exactly its evidence, which is uncertain when
\* it was guessed from a page (normalize.ts "NO FABRICATION", "EVIDENCE COMPLETENESS").
\* The posting gone, jsonld takes the first of the page instead (jsonld-connector.ts
\* 111), which is why Own is asked for.
IsEvidenced(k, v) ==
    LET own == Own(k, v)
        r   == Result(k, v) IN
    /\ own # None => Publishes(k, own, r.facts)
    /\ \A f \in DOMAIN r.facts \ {"locations"} :
           r.facts[f] # None <=> \E e \in r.evidence : e.field = f
    /\ r.facts.locations # <<>> <=> \E e \in r.evidence : e.field = "locations"
    /\ \A e \in r.evidence : e.uncertain <=> k = "manual_url" /\ own = None

Evidenced == Those(IsEvidenced)

\* Every completed normalisation, in every interleaving and of every version and kind of
\* connector, states what its posting publishes (IsEvidenced).
FactsAreEvidenced ==
    \A v \in Versions : norm[v].status = "completed" => <<kind, v>> \in Evidenced
=============================================================================
