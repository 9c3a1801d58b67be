----------------------------- MODULE Connectors -----------------------------
(***************************************************************************)
(* The connectors (packages/connectors): which postings of a board or page *)
(* each of them refers to, what it fetches for a reference and how it maps *)
(* what it fetched.                                                        *)
(*                                                                         *)
(* A site is what the source serves at one time: the jobs of its board;    *)
(* the blocks of JSON-LD on its page, each the sequence of the nodes it    *)
(* flattens to (none when it does not parse); the metadata of the page;    *)
(* and a document, when the page is a JSON-LD document itself.  Jobs and   *)
(* nodes are records of the same fields; None stands for a field that is   *)
(* absent or blank (cleanString), Unclear for a text that is no date and   *)
(* no number.  A value stands for all its encodings (entities, Unicode).   *)
(***************************************************************************)
EXTENDS Naturals, Sequences, FiniteSets

LOCAL Seqs == INSTANCE SequencesExt

CONSTANTS
    None,
    Unclear,
    BoardUrl(_),        \* the board's API, by its slug
    DetailUrl(_, _)     \* one posting there, by slug and id

Kinds == {"greenhouse", "lever", "ashby", "jsonld", "manual_url"}

\* The fields of a parsed posting that hold one value, and the lists.
Single == {"title", "company", "workArrangement", "employmentType", "salary",
           "postedAt", "closesAt", "descriptionHtml", "applyUrl", "canonicalUrlHint"}
Lists  == {"locations", "requirements", "skills"}

\* One value or, where it is absent, another: ??.
Or(a, b) == IF a # None THEN a ELSE b

FirstOf(seq) == IF 1 \in DOMAIN seq THEN seq[1] ELSE None

FirstWith(seq, Test(_)) ==
    LET first == {i \in DOMAIN seq :
                     Test(seq[i]) /\ \A j \in DOMAIN seq : Test(seq[j]) => i <= j} IN
    IF first = {} THEN None ELSE seq[CHOOSE i \in first : TRUE]

\* SelectSeq, by places: an element is put at the number of those kept up to it.
Where(seq, Test(_)) ==
    LET kept    == {i \in DOMAIN seq : Test(seq[i])}
        Rank(i) == Cardinality({j \in kept : j <= i})
    IN  [n \in {Rank(i) : i \in kept} |-> seq[CHOOSE i \in kept : Rank(i) = n]]

ToIsoDate(v) == IF v = Unclear THEN None ELSE v

ToNumber(v) == IF v = Unclear THEN None ELSE v

-----------------------------------------------------------------------------
(***************************************************************************)
(* Evidence: absent values never get any.  A field is the set of the one   *)
(* piece of evidence there is, or empty; a list is a sequence of pieces.   *)
(***************************************************************************)

Evidence(v) == [value |-> v, method |-> "STRUCTURED_DATA", uncertain |-> FALSE]

Structured(v) == IF v = None THEN {} ELSE {Evidence(v)}

\* What is guessed from a page's metadata is uncertain.
FromPage(v) ==
    IF v = None THEN {} ELSE {[value |-> v, method |-> "PARSER", uncertain |-> TRUE]}

StructuredList(vs) ==
    LET given == Where(vs, LAMBDA v : v # None) IN
    [i \in DOMAIN given |-> Evidence(given[i])]

Nothing == [f \in Single \union Lists |-> IF f \in Single THEN {} ELSE <<>>]

IsEmpty(parsed) == parsed.title = {} /\ parsed.descriptionHtml = {}

-----------------------------------------------------------------------------
(***************************************************************************)
(* JSON-LD.                                                                *)
(***************************************************************************)

IsJobPosting(node) == node.schema = "JobPosting"

JobPostings(site) == Where(Seqs!FlattenSeq(site.blocks), IsJobPosting)

\* An identifier, else the URL, else that of the page, else what the node says.
ExternalId(node, page) == Or(node.id, Or(node.url, Or(page, <<node.company, node.title>>)))

\* The parts of an address that are given, or no location.
LocationLabel(address) ==
    LET parts == IF address = None THEN <<>> ELSE Where(address, LAMBDA p : p # None) IN
    IF parts = <<>> THEN None ELSE parts

\* A range, or one value for both ends.
JsonLdSalary(base) ==
    IF base = None THEN None
    ELSE LET min    == ToNumber(base.min)
             max    == ToNumber(base.max)
             single == ToNumber(base.single)
             both   == min = None /\ max = None IN
         IF both /\ single = None /\ base.currency = None /\ base.period = None THEN None
         ELSE [min |-> IF both THEN single ELSE min, max |-> IF both THEN single ELSE max,
               currency |-> base.currency, period |-> base.period]

MapJsonLdJobPosting(node) ==
    [Nothing EXCEPT
        !.title            = Structured(node.title),
        !.company          = Structured(node.company),
        !.locations        = StructuredList([i \in DOMAIN node.locations |->
                                                 LocationLabel(node.locations[i])]),
        !.workArrangement  = Structured(IF node.remote THEN "remote" ELSE None),
        !.employmentType   = Structured(FirstWith(node.types, LAMBDA t : t # None)),
        !.postedAt         = Structured(ToIsoDate(node.posted)),
        !.closesAt         = Structured(ToIsoDate(node.closes)),
        !.descriptionHtml  = Structured(node.description),
        !.applyUrl         = Structured(node.url),
        !.canonicalUrlHint = Structured(node.url),
        !.salary           = Structured(JsonLdSalary(FirstOf(node.pay))),
        !.skills           = StructuredList(node.skills),
        !.requirements     = StructuredList(Seqs!FlattenSeq(node.requirements))]

-----------------------------------------------------------------------------
(***************************************************************************)
(* An artifact is one job or node, or a page or board as it was served.    *)
(***************************************************************************)

Artifact(one, site, url) == [one |-> one, site |-> site, url |-> url]

Refs(seq, Ref(_)) == [i \in DOMAIN seq |-> Ref(seq[i])]

\* The references to the jobs of a board that have an id, at their own API URL.
DetailRefs(kind, config, site) ==
    Refs(Where(site.jobs, LAMBDA j : j.id # None),
         LAMBDA j : [id |-> j.id, url |-> DetailUrl(config.slug, j.id),
                     key |-> <<kind, config.slug, j.id>>, page |-> None])

\* What that URL serves: the job, while the board has it.
Detail(ref, site) == FirstWith(site.jobs, LAMBDA j : j.id = ref.id)

GreenhouseRefs(config, site) == DetailRefs("greenhouse", config, site)

GreenhouseFetch(ref, site) == Artifact(Detail(ref, site), None, ref.url)

\* A Greenhouse job has one location, and neither a salary nor a type.
MapGreenhouseJob(job) ==
    [Nothing EXCEPT
        !.title            = Structured(job.title),
        !.company          = Structured(job.company),
        !.locations        = StructuredList(<<job.place>>),
        !.postedAt         = Structured(ToIsoDate(job.posted)),
        !.descriptionHtml  = Structured(job.description),
        !.applyUrl         = Structured(job.url),
        !.canonicalUrlHint = Structured(job.url)]

GreenhouseParse(artifact) ==
    IF artifact.one = None THEN Nothing ELSE MapGreenhouseJob(artifact.one)

LeverRefs(config, site) == DetailRefs("lever", config, site)

LeverFetch(ref, site) == Artifact(Detail(ref, site), None, ref.url)

\* A Lever posting does not name its company.
MapLeverPosting(job) ==
    [Nothing EXCEPT
        !.title            = Structured(job.title),
        !.locations        = StructuredList(IF job.locations # <<>> THEN job.locations
                                                                    ELSE <<job.place>>),
        !.workArrangement  = Structured(job.arrangement),
        !.employmentType   = Structured(FirstOf(job.types)),
        !.postedAt         = Structured(ToIsoDate(job.posted)),
        !.descriptionHtml  = Structured(job.description),
        !.applyUrl         = Structured(Or(job.apply, job.url)),
        !.canonicalUrlHint = Structured(job.url)]

LeverParse(artifact) ==
    IF artifact.one = None THEN Nothing ELSE MapLeverPosting(artifact.one)

\* Unlisted jobs are not referred to.
AshbyRefs(config, site) ==
    Refs(Where(site.jobs, LAMBDA j : j.listed /\ j.id # None),
         LAMBDA j : [id |-> j.id, url |-> Or(j.url, BoardUrl(config.slug)),
                     key |-> <<"ashby", config.slug, j.id>>, page |-> None])

\* The whole board again, narrowed to the job while it is there, listed or not.
AshbyFetch(config, ref, site) ==
    LET job == FirstWith(site.jobs, LAMBDA j : j.id = ref.id) IN
    Artifact(job, IF job = None THEN site ELSE None, BoardUrl(config.slug))

\* The first component that has an end, though it may not be a number.
AshbySalary(pay) ==
    LET c == FirstWith(pay, LAMBDA p : p.min # None \/ p.max # None) IN
    IF c = None THEN None
    ELSE LET salary == [min |-> ToNumber(c.min), max |-> ToNumber(c.max),
                        currency |-> c.currency, period |-> c.period] IN
         IF \A f \in DOMAIN salary : salary[f] = None THEN None ELSE salary

\* Nor does an Ashby job name the company: the connection's config may.
MapAshbyJob(job, company) ==
    [Nothing EXCEPT
        !.title            = Structured(job.title),
        !.company          = Structured(company),
        !.locations        = StructuredList(<<job.place>> \o job.locations),
        !.workArrangement  = Structured(Or(job.arrangement,
                                           IF job.remote THEN "remote" ELSE None)),
        !.employmentType   = Structured(FirstOf(job.types)),
        !.postedAt         = Structured(ToIsoDate(job.posted)),
        !.descriptionHtml  = Structured(job.description),
        !.applyUrl         = Structured(Or(job.apply, job.url)),
        !.canonicalUrlHint = Structured(job.url),
        !.salary           = Structured(AshbySalary(job.pay))]

\* A board in place of a job has none of a job's fields.
AshbyParse(config, artifact) ==
    IF artifact.one = None THEN [Nothing EXCEPT !.company = Structured(config.company)]
    ELSE MapAshbyJob(artifact.one, config.company)

PageUrl(config) == Or(config.url, config.pageUrl)

JsonLdRefs(config, site) ==
    LET page == PageUrl(config) IN
    Refs(JobPostings(site),
         LAMBDA n : [id |-> ExternalId(n, page), url |-> Or(n.url, page),
                     key |-> <<"jsonld", ExternalId(n, page)>>, page |-> page])

\* Mutation: the first node of the page, whichever was referred to.
JsonLdFetchFirst(config, ref, site) ==
    LET node == FirstOf(JobPostings(site)) IN
    Artifact(node, IF node = None THEN site ELSE None, PageUrl(config))

\* The node of the reference, or else the first of the page, or else the page.
JsonLdFetch(config, ref, site) ==
    LET page  == Or(ref.page, PageUrl(config))
        nodes == JobPostings(site)
        node  == Or(FirstWith(nodes, LAMBDA n : ExternalId(n, page) = ref.id), FirstOf(nodes))
    IN  Artifact(node, IF node = None THEN site ELSE None, page)

ResolveNode(artifact) ==
    IF artifact.one # None /\ IsJobPosting(artifact.one) THEN artifact.one
    ELSE IF artifact.site = None THEN None ELSE FirstOf(JobPostings(artifact.site))

JsonLdParse(artifact) ==
    LET node == ResolveNode(artifact) IN
    IF node = None THEN Nothing ELSE MapJsonLdJobPosting(node)

ManualRefs(config) ==
    <<[id |-> config.url, url |-> config.url, key |-> <<"manual_url", config.url>>,
       page |-> None]>>

ManualFetch(ref, site) == Artifact(site.document, site, ref.url)

ResolveJsonLdNode(artifact) ==
    Or(FirstOf(JobPostings(artifact.site)),
       IF artifact.one # None /\ IsJobPosting(artifact.one) THEN artifact.one ELSE None)

\* The metadata of a page, the first of each kind that it has.
ParseHtmlBestEffort(meta, finalUrl) ==
    LET link == Or(meta.canonical, Or(meta.ogUrl, finalUrl)) IN
    [Nothing EXCEPT
        !.title            = FromPage(Or(meta.ogTitle, Or(meta.title, meta.h1))),
        !.company          = FromPage(meta.siteName),
        !.descriptionHtml  = FromPage(Or(meta.description, meta.ogDescription)),
        !.applyUrl         = FromPage(link),
        !.canonicalUrlHint = FromPage(link)]

ManualParse(artifact) ==
    LET node == ResolveJsonLdNode(artifact) IN
    IF node # None THEN MapJsonLdJobPosting(node)
    ELSE ParseHtmlBestEffort(artifact.site.meta, artifact.url)

-----------------------------------------------------------------------------
(***************************************************************************)
(* The registry.                                                           *)
(***************************************************************************)

\* Without these discover and fetch throw.
Configured(kind, config) ==
    IF kind = "jsonld" THEN PageUrl(config) # None
    ELSE IF kind = "manual_url" THEN config.url # None
    ELSE config.slug # None

Discover(kind, config, site) ==
    CASE kind = "greenhouse" -> GreenhouseRefs(config, site)
      [] kind = "lever"      -> LeverRefs(config, site)
      [] kind = "ashby"      -> AshbyRefs(config, site)
      [] kind = "jsonld"     -> JsonLdRefs(config, site)
      [] kind = "manual_url" -> ManualRefs(config)

Fetched(kind, config, ref, site) ==
    CASE kind = "greenhouse" -> GreenhouseFetch(ref, site)
      [] kind = "lever"      -> LeverFetch(ref, site)
      [] kind = "ashby"      -> AshbyFetch(config, ref, site)
      [] kind = "jsonld"     -> JsonLdFetch(config, ref, site)
      [] kind = "manual_url" -> ManualFetch(ref, site)

Parse(kind, config, artifact) ==
    CASE kind = "greenhouse" -> GreenhouseParse(artifact)
      [] kind = "lever"      -> LeverParse(artifact)
      [] kind = "ashby"      -> AshbyParse(config, artifact)
      [] kind = "jsonld"     -> JsonLdParse(artifact)
      [] kind = "manual_url" -> ManualParse(artifact)

\* One probe; the answer is None when the request throws.
BoardHealth(config, answer) ==
    IF config.slug = None \/ answer = None THEN "failing"
    ELSE IF answer.jobs = None THEN "degraded" ELSE "healthy"

JsonLdHealth(config, answer) ==
    IF PageUrl(config) = None \/ answer = None THEN "failing"
    ELSE IF JobPostings(answer) = <<>> THEN "degraded" ELSE "healthy"

ManualHealth(config, answer) ==
    IF config.url = None \/ answer = None THEN "failing"
    ELSE IF answer.status \in 200..399 THEN "healthy" ELSE "degraded"

Health(kind, config, answer) ==
    CASE kind = "jsonld"     -> JsonLdHealth(config, answer)
      [] kind = "manual_url" -> ManualHealth(config, answer)
      [] OTHER               -> BoardHealth(config, answer)
=============================================================================
