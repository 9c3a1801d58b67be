---------------------------- MODULE DedupPersist ----------------------------
(***************************************************************************)
(* The back half of the worker's pipeline: normalization hands a candidate *)
(* to queue deduplication, and runDedup (apps/worker/src/stages/dedup.ts)  *)
(* reads its neighbourhood, runs deduplicate() (packages/shared/src/       *)
(* dedup.ts) and writes the canonical opportunity, all in ONE transaction  *)
(* at Postgres's default isolation, READ COMMITTED.  The two reads of the  *)
(* transaction are steps of their own, because other transactions commit   *)
(* between them (each is two queries with nothing to tell apart between);  *)
(* its writes are one step, because they take effect at the commit and     *)
(* writers of a row wait for each other.                                   *)
(*                                                                         *)
(* A version is one normalized record of a source: it has the source (the  *)
(* pair source_type, external_id), a canonical URL, a fingerprint, and     *)
(* stands for all its other fields.  Versions of a source are published in *)
(* the order of their numbers.  Time is what has been published: a moment  *)
(* is the set of versions published before it, so that a source's own      *)
(* updatedAt compares with a row's last_updated_at by membership.          *)
(*                                                                         *)
(* Left out: child rows, evidence, revisions, duplicate_groups and outbox  *)
(* rows, which the same transaction writes and no stage here reads; the    *)
(* apply URL, a third match that acts like the fingerprint; the fuzzy      *)
(* stage, whose pairs are gathered rows, and those already share a URL, an *)
(* identity or a fingerprint with the candidate unless they moved between  *)
(* the reads.                                                              *)
(***************************************************************************)
EXTENDS JobQueue, FiniteSets

CONSTANTS
    Sources,        \* <<source_type, external_id>> pairs
    FirstParty,     \* sources of connectors with isFirstParty
    Stamped,        \* sources whose records carry updatedAt (greenhouse)
    Urls, Prints,   \* canonical URLs, fingerprints
    Versions,       \* the records, numbered
    SourceOf, UrlOf, PrintOf,
    ConfidenceOf,   \* evidenceConfidence, the most any evidence has, in tenths
    OppIds,         \* ids of opportunities; random UUIDs, so in any order
    Concurrency,    \* deduplication jobs at a time
    None,           \* no row
    Budget          \* bound on interrupted handlers and trimmed records

ASSUME RecordAssumption ==
    /\ FirstParty \subseteq Sources /\ Stamped \subseteq FirstParty
    /\ Versions \subseteq Nat /\ OppIds \subseteq Nat
    /\ SourceOf \in [Versions -> Sources]
    /\ UrlOf \in [Versions -> Urls]
    /\ PrintOf \in [Versions -> Prints]
    /\ ConfidenceOf \in [Versions -> Nat]
    \* Rows have different URLs, so an insert that may happen finds a free id.
    /\ Cardinality(OppIds) >= Cardinality(Urls)

ASSUME PersistBoundAssumption ==
    /\ Concurrency \in Nat \ {0}
    /\ Budget \in Nat

VARIABLES
    published,  \* versions their sources have put up
    opps,       \* opportunities rows
    src,        \* opportunity_sources rows
    job,        \* records of queue deduplication
    carries,    \* the data of each job: its version
    run,        \* the handler of each job
    disturbed,  \* history: handlers that saw another transaction commit
    raced,      \* history: one of them committed
    budget      \* what is left of Budget

vars == <<published, opps, src, job, carries, run, disturbed, raced, budget>>

\* The deduplication jobId is `dedup:${candidate.key}:${candidate.fingerprint}`.
SlotOf(v) == <<SourceOf[v], PrintOf[v]>>
Slots == {SlotOf(v) : v \in Versions}

Moments == SUBSET Versions

\* from: the version whose values the row has; last: last_updated_at.
Opportunity == [from : Versions, status : {"New", "Duplicate"}, last : Moments]

SourceRow == [opp : OppIds, version : Versions]

ASSUME NoneAssumption ==
    /\ None \notin OppIds \union Versions
    /\ None \notin Opportunity \union SourceRow

NoneYet(S) == [x \in S |-> None]

IdleRun == [pc |-> "idle", now |-> {}, ids |-> {},
            opps |-> NoneYet(OppIds), src |-> NoneYet(Sources)]

Run == [pc : {"idle", "ids", "rows", "write", "finish"},
        now : Moments, ids : SUBSET OppIds,
        opps : [OppIds -> Opportunity \union {None}],
        src : [Sources -> SourceRow \union {None}]]

Init ==
    /\ published = {}
    /\ opps = NoneYet(OppIds)
    /\ src = NoneYet(Sources)
    /\ job = [k \in Slots |-> NoJob]
    /\ carries = NoneYet(Slots)
    /\ run = [k \in Slots |-> IdleRun]
    /\ disturbed = {}
    /\ raced = FALSE
    /\ budget = Budget

Spend ==
    /\ budget > 0
    /\ budget' = budget - 1

Rows(table) == {x \in DOMAIN table : table[x] # None}

-----------------------------------------------------------------------------
\* A source puts up its next version.
Publish(v) ==
    /\ v \notin published
    /\ \A u \in Versions : SourceOf[u] = SourceOf[v] /\ u < v => u \in published
    /\ published' = published \union {v}
    /\ UNCHANGED <<opps, src, job, carries, run, disturbed, raced, budget>>

\* runNormalize's last call, in whatever order normalization jobs come: an add
\* that finds a record of the same source and fingerprint is dropped, data
\* included.
Submit(v) ==
    LET k == SlotOf(v) IN
    /\ v \in published
    /\ job[k].status \in {"none", "evicted"}
    /\ job' = [job EXCEPT ![k] = Added(@)]
    /\ carries' = [carries EXCEPT ![k] = v]
    /\ UNCHANGED <<published, opps, src, run, disturbed, raced, budget>>

Evict(k) ==
    /\ Spend
    /\ job[k].status = "completed"
    /\ job' = [job EXCEPT ![k] = Evicted(@)]
    /\ UNCHANGED <<published, opps, src, carries, run, disturbed, raced>>

-----------------------------------------------------------------------------
(***************************************************************************)
(* deduplicate() over the candidate v and the rows gathered in m.          *)
(***************************************************************************)

On(m, o) == {s \in Rows(m.src) : m.src[s].opp = o}

\* An opportunity without sources contributes no member to group.
Peopled(m) == {o \in m.ids : On(m, o) # {}}

PrintsOn(m, o) == {PrintOf[m.src[s].version] : s \in On(m, o)}

\* Shares an identity token or the fingerprint with the candidate ...
Touches(m, v, o) ==
    \/ UrlOf[m.opps[o].from] = UrlOf[v]
    \/ SourceOf[v] \in On(m, o)
    \/ PrintOf[v] \in PrintsOn(m, o)

\* ... or, through sources of both, with another gathered opportunity.
Linked(m, o, p) == PrintsOn(m, o) \intersect PrintsOn(m, p) # {}

\* The opportunities of the candidate's component: union-find over members,
\* where sources of one opportunity share its URL.
Group(m, v) ==
    {o \in Peopled(m) :
        \A S \in SUBSET Peopled(m) :
            /\ \A p \in Peopled(m) : Touches(m, v, p) => p \in S
            /\ \A p \in S, q \in Peopled(m) : Linked(m, p, q) => q \in S
            => o \in S}

\* Its updatedAt is later than the row's last_updated_at; without one it is "".
Newer(v, row) == SourceOf[v] \in Stamped /\ v \notin row.last

\* The gathered sources of a set of opportunities.
Members(m, g) == {s \in Rows(m.src) : m.src[s].opp \in g}

\* Mutation: whatever comes last is canonical.
CandidateAlways(m, v, g) == TRUE

\* The candidate comes before a gathered source: it is first-party and that one is not,
\* or they are alike and it has more confidence, or as much and is newer.
Beats(m, v, s) ==
    \/ SourceOf[v] \in FirstParty /\ s \notin FirstParty
    \/ /\ SourceOf[v] \in FirstParty <=> s \in FirstParty
       /\ LET stored == ConfidenceOf[m.src[s].version] IN
          \/ ConfidenceOf[v] > stored
          \/ ConfidenceOf[v] = stored /\ Newer(v, m.opps[m.src[s].opp])

\* chooseCanonical picks the candidate.
CandidateWins(m, v, g) == \A s \in Members(m, g) : Beats(m, v, s)

-----------------------------------------------------------------------------
(***************************************************************************)
(* runDedup.                                                               *)
(***************************************************************************)

Start(k) ==
    /\ job[k].status = "waiting"
    /\ Cardinality({l \in Slots : run[l].pc # "idle"}) < Concurrency
    /\ job' = [job EXCEPT ![k] = Taken(@)]
    /\ run' = [run EXCEPT ![k] = [IdleRun EXCEPT !.pc = "ids", !.now = published]]
    /\ UNCHANGED <<published, opps, src, carries, disturbed, raced, budget>>

\* Mutations: the fingerprint clause is missing; the canonical URL query is.
MatchesIdentityOrUrl(v) ==
    {src[s].opp : s \in {t \in Rows(src) : t = SourceOf[v]}}
    \union {o \in Rows(opps) : UrlOf[opps[o].from] = UrlOf[v]}
MatchesIdentityOrPrint(v) ==
    {src[s].opp : s \in {t \in Rows(src) :
                            t = SourceOf[v] \/ PrintOf[src[t].version] = PrintOf[v]}}

Matches(v) ==
    {src[s].opp : s \in {t \in Rows(src) :
                            t = SourceOf[v] \/ PrintOf[src[t].version] = PrintOf[v]}}
    \union {o \in Rows(opps) : UrlOf[opps[o].from] = UrlOf[v]}

GatherIds(k) ==
    /\ run[k].pc = "ids"
    /\ run' = [run EXCEPT ![k].ids = Matches(carries[k]),
                          ![k].pc = IF Matches(carries[k]) = {} THEN "write" ELSE "rows"]
    /\ UNCHANGED <<published, opps, src, job, carries, disturbed, raced, budget>>

\* Every source of those opportunities, and the opportunities.
GatherRows(k) ==
    /\ run[k].pc = "rows"
    /\ run' = [run EXCEPT
                ![k].pc = "write",
                ![k].opps = [o \in OppIds |-> IF o \in run[k].ids THEN opps[o] ELSE None],
                ![k].src = [s \in Sources |->
                    IF s \in Rows(src) /\ src[s].opp \in run[k].ids THEN src[s] ELSE None]]
    /\ UNCHANGED <<published, opps, src, job, carries, disturbed, raced, budget>>

\* The smallest id of the group g; a new row gets any id that is free.
Targets(g) ==
    IF g = {} THEN OppIds \ Rows(opps) ELSE {o \in g : \A p \in g : o <= p}

\* opportunities_canonical_url_unique: a row other than the target has v's URL.
UrlTaken(v, g) == \E o \in Rows(opps) \ Targets(g) : UrlOf[opps[o].from] = UrlOf[v]

\* Mutation: the sources of merged opportunities stay where they are.
StayPut(v, g, target) == [src EXCEPT ![SourceOf[v]] = [opp |-> target, version |-> v]]

\* Sources of the merged opportunities move to target, and the candidate's own
\* row is inserted or updated.
Moved(v, g, target) ==
    [s \in Sources |->
        IF s = SourceOf[v] THEN [opp |-> target, version |-> v]
        ELSE IF s \in Rows(src) /\ src[s].opp \in g THEN [src[s] EXCEPT !.opp = target]
        ELSE src[s]]

\* Mutation: the insert is left out.
MergedUpdateOnly(v, g, target, wins, now) ==
    [o \in OppIds |->
        IF o \notin g THEN opps[o]
        ELSE IF o = target THEN [opps[o] EXCEPT !.from = IF wins THEN v ELSE @, !.last = now]
        ELSE [opps[o] EXCEPT !.status = "Duplicate", !.last = now]]

\* A new row, or the target with the candidate's values if it wins; the others
\* of the group become Duplicate and keep their canonical_url.
Merged(v, g, target, wins, now) ==
    [o \in OppIds |->
        IF o \notin g
        THEN IF o = target THEN [from |-> v, status |-> "New", last |-> now] ELSE opps[o]
        ELSE IF o = target THEN [opps[o] EXCEPT !.from = IF wins THEN v ELSE @, !.last = now]
        ELSE [opps[o] EXCEPT !.status = "Duplicate", !.last = now]]

\* Handlers that have read what a commit now changes.
Overlapping(k) == {l \in Slots \ {k} : run[l].pc \in {"rows", "write"}}

Commit(k) ==
    LET v == carries[k]
        m == run[k]
        g == Group(m, v)
        wins == CandidateWins(m, v, g)
    IN
    /\ m.pc = "write"
    /\ wins => ~UrlTaken(v, g)
    /\ \E target \in Targets(g) :
        /\ opps' = Merged(v, g, target, wins, m.now)
        /\ src' = Moved(v, g, target)
    /\ run' = [run EXCEPT ![k] = [IdleRun EXCEPT !.pc = "finish"]]
    /\ raced' = (raced \/ k \in disturbed)
    /\ disturbed' = (disturbed \ {k}) \union Overlapping(k)
    /\ UNCHANGED <<published, job, carries, budget>>

\* The insert, or the update of the target, violates the unique index: the
\* transaction rolls back and the job's attempt has failed.
Conflict(k) ==
    LET v == carries[k]
        m == run[k]
        g == Group(m, v)
    IN
    /\ m.pc = "write"
    /\ CandidateWins(m, v, g)
    /\ UrlTaken(v, g)
    /\ run' = [run EXCEPT ![k] = IdleRun]
    /\ job' = [job EXCEPT ![k] = Thrown(@)]
    /\ disturbed' = disturbed \ {k}
    /\ UNCHANGED <<published, opps, src, carries, raced, budget>>

\* No record of this system's connectors carries a closure signal, so nothing
\* else happens after the commit.
Finish(k) ==
    /\ run[k].pc = "finish"
    /\ run' = [run EXCEPT ![k] = IdleRun]
    /\ job' = [job EXCEPT ![k] = Completed(@)]
    /\ UNCHANGED <<published, opps, src, carries, disturbed, raced, budget>>

\* The database is away, a lock wait is cut short, or the process dies: the
\* transaction rolls back unless it has committed.
Interrupted(k) ==
    /\ Spend
    /\ run[k].pc # "idle"
    /\ run' = [run EXCEPT ![k] = IdleRun]
    /\ \/ job' = [job EXCEPT ![k] = Thrown(@)]
       \/ job' = [job EXCEPT ![k] = Stalled(@)]
    /\ disturbed' = disturbed \ {k}
    /\ UNCHANGED <<published, opps, src, carries, raced>>

-----------------------------------------------------------------------------
Step(k) ==
    Start(k) \/ GatherIds(k) \/ GatherRows(k) \/ Commit(k) \/ Conflict(k) \/ Finish(k)

Next ==
    \/ \E v \in Versions : Publish(v) \/ Submit(v)
    \/ \E k \in Slots : Step(k) \/ Evict(k) \/ Interrupted(k)

Spec == Init /\ [][Next]_vars

-----------------------------------------------------------------------------
(***************************************************************************)
(* Properties.                                                             *)
(***************************************************************************)

\* Every variable has its type; a row a source points to exists; a job that may
\* run has its data.
TypeOK ==
    /\ published \in Moments
    /\ opps \in [OppIds -> Opportunity \union {None}]
    /\ src \in [Sources -> SourceRow \union {None}]
    /\ \A s \in Rows(src) : src[s].opp \in Rows(opps)
    /\ job \in [Slots -> Job]
    /\ carries \in [Slots -> Versions \union {None}]
    /\ \A k \in Slots : job[k].status # "none" =>
            carries[k] # None /\ SlotOf(carries[k]) = k
    /\ run \in [Slots -> Run]
    /\ disturbed \subseteq {k \in Slots : run[k].pc \in {"rows", "write"}}
    /\ raced \in BOOLEAN
    /\ budget \in Nat

Commits(k) == run[k].pc = "write" /\ run'[k].pc = "finish"

\* A transaction no other one overlapped leaves every source with the
\* candidate's fingerprint on the candidate's opportunity: the gathered
\* neighbourhood misses nobody (Req 36.2).
CommitUnites ==
    [][\A k \in Slots : Commits(k) /\ k \notin disturbed =>
        \A s \in Rows(src') : PrintOf[src'[s].version] = PrintOf[carries[k]] =>
            src'[s].opp = src'[SourceOf[carries[k]]].opp]_vars

\* Unless transactions overlapped, no source is attached to an opportunity that
\* was merged away, where no list shows it: retries, re-runs after the commit and
\* late versions included (Req 36.2, 37.1).
NoSourceStranded ==
    raced \/ \A s \in Rows(src) : opps[src[s].opp].status # "Duplicate"

\* Unless transactions overlapped, none replaces the values a first-party source gave an
\* opportunity by an aggregator's, however sure: merges, retries, re-runs and late
\* versions never part a listed row from the first-party source that guards it
\* (Req 36.4, chooseCanonical).
FirstPartyKept ==
    [][~raced' => \A o \in Rows(opps) :
        SourceOf[opps[o].from] \in FirstParty => SourceOf[opps'[o].from] \in FirstParty]_vars

Holders(v) == {o \in Rows(opps) : UrlOf[opps[o].from] = UrlOf[v]}

SourcesOf(v) == {s \in Rows(src) :
                    s = SourceOf[v] \/ PrintOf[src[s].version] = PrintOf[v]}

\* Losing a race for a canonical URL heals on the retry: with no other
\* transaction in between, an attempt is rolled back only when the URL belongs to
\* a merged-away opportunity, to one that an earlier race left without a source,
\* or when the candidate joins it with another one.
RollsBackOnlyOnMerge ==
    [][\A k \in Slots :
        run[k].pc = "write" /\ run'[k].pc = "idle" /\ budget' = budget /\ k \notin disturbed =>
            \E h \in Holders(carries[k]) :
                \/ opps[h].status = "Duplicate"
                \/ raced /\ \A s \in Rows(src) : src[s].opp # h
                \/ \E s \in SourcesOf(carries[k]) : src[s].opp # h]_vars
=============================================================================
