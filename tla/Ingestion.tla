----------------------------- MODULE Ingestion ------------------------------
(***************************************************************************)
(* The front half of the worker's pipeline for ONE connection: discovery,  *)
(* source-fetch, artifact-parse and retention-cleanup, the queues between  *)
(* them, the raw_artifacts table, the object store and the connector       *)
(* checkpoint (apps/worker/src/stages/{discovery,fetch,parse,retention}.ts,*)
(* checkpoint-store.ts, storage/artifact-store.ts).                        *)
(*                                                                         *)
(* Every await of a handler is a step of its own, so handlers interleave   *)
(* where the event loop and the other worker processes let them, and a     *)
(* handler may throw or its process die between any two of them.           *)
(*                                                                         *)
(* A page's content stands for its body AND its validator (ETag): equal    *)
(* contents have equal ETags.  An artifact's body stands for its sha256.   *)
(* A raw_artifacts row is identified by the columns of its unique index,   *)
(* <<source_url, content_hash>>: connection_id is fixed.                   *)
(* Run counters, parser_runs rows and log lines are left out: no stage     *)
(* reads them.                                                             *)
(***************************************************************************)
EXTENDS JobQueue, FiniteSets

CONSTANTS
    Refs,           \* the postings discover() yields, by dedupKey
    Urls,           \* URLs of the source
    Contents,       \* what a URL can serve
    Bodies,         \* bodies of artifacts
    RefUrl,         \* [Refs -> Urls]: ref.url, under which validators are saved
    PageUrl,        \* [Refs -> Urls]: the URL connector.fetch() requests
    ListUrls,       \* the URL discover() requests, if it is one of Urls
    Narrow,         \* [Refs -> [Contents -> Bodies]]: the body fetch() returns
    Unparsable,     \* bodies that parse() throws on or that come out empty
    NoContent,      \* absent validator / content
    BatchSize,      \* artifacts per retention-cleanup job
    Budget          \* bounds on what the environment does, by kind

ASSUME SourceAssumption ==
    /\ RefUrl \in [Refs -> Urls]
    /\ PageUrl \in [Refs -> Urls]
    /\ ListUrls \subseteq Urls
    /\ Narrow \in [Refs -> [Contents -> Bodies]]
    /\ Unparsable \subseteq Bodies
    /\ NoContent \notin Contents

\* Page changes, pauses and resumes, rows falling due, job records trimmed,
\* handlers cut off.
Kinds == {"change", "toggle", "due", "evict", "fail"}

ASSUME BoundAssumption ==
    /\ BatchSize \in Nat \ {0}
    /\ Budget \in [Kinds -> Nat]

VARIABLES
    connection,     \* connections.status of the connection
    page,           \* what each URL of the source serves now
    checkpoint,     \* connector_checkpoints.etags
    objects,        \* bodies in the object store (the key is the hash)
    rows,           \* raw_artifacts rows
    due,            \* rows whose retention_until has passed
    deleted,        \* rows with deleted_at set
    fetchJob,       \* records of queue source-fetch, by dedupKey
    parseJob,       \* records of queue artifact-parse, by artifact
    reviews,        \* open review_queue_items per artifact
    handed,         \* artifacts with a normalization job
    discoverer,     \* the running discovery job
    fetchPc, fetchCk, fetchSeen,    \* the handler of each fetch job
    parsePc,                        \* the handler of each parse job
    cleaner,        \* the running retention-cleanup job
    dropped,        \* history: artifacts whose fetch was cut off before parse
    budget          \* what is left of Budget

artifactVars == <<objects, rows, due, deleted>>
fetchVars    == <<fetchJob, fetchPc, fetchCk, fetchSeen, dropped>>
parseVars    == <<parseJob, parsePc, reviews, handed>>
envVars      == <<connection, page, budget>>
vars == <<envVars, artifactVars, fetchVars, parseVars,
          checkpoint, discoverer, cleaner>>

Artifacts == Urls \X Bodies

ArtifactOf(r, c) == <<PageUrl[r], Narrow[r][c]>>

BodyOf(a) == a[2]

Etags == [Urls -> Contents \union {NoContent}]

FetchPcs == {"idle", "load", "request", "lookup", "put", "insert",
             "save", "saveSkip", "enqueue"}
ParsePcs == {"idle", "get", "parse", "review", "finish"}

Discoverer ==
    [pc : {"idle", "load", "list", "stream"},
     etag : [ListUrls -> Contents \union {NoContent}], todo : SUBSET Refs]

Cleaner == [pc : {"idle", "delete", "tombstone"}, batch : SUBSET Artifacts,
            cur : SUBSET Artifacts]

IdleDiscoverer ==
    [pc |-> "idle", etag |-> [u \in ListUrls |-> NoContent], todo |-> {}]

IdleCleaner == [pc |-> "idle", batch |-> {}, cur |-> {}]

Init ==
    /\ connection = "active"
    /\ page \in [Urls -> Contents]
    /\ checkpoint = [u \in Urls |-> NoContent]
    /\ objects = {} /\ rows = {} /\ due = {} /\ deleted = {}
    /\ fetchJob = [r \in Refs |-> NoJob]
    /\ parseJob = [a \in Artifacts |-> NoJob]
    /\ reviews = [a \in Artifacts |-> 0]
    /\ handed = {}
    /\ discoverer = IdleDiscoverer
    /\ fetchPc = [r \in Refs |-> "idle"]
    /\ fetchCk = [r \in Refs |-> [u \in Urls |-> NoContent]]
    /\ fetchSeen = [r \in Refs |-> NoContent]
    /\ parsePc = [a \in Artifacts |-> "idle"]
    /\ cleaner = IdleCleaner
    /\ dropped = {}
    /\ budget = Budget

Spend(kind) ==
    /\ budget[kind] > 0
    /\ budget' = [budget EXCEPT ![kind] = @ - 1]

-----------------------------------------------------------------------------
(***************************************************************************)
(* The environment: the source's pages change, the user pauses and resumes *)
(* the connection, time passes retention_until, BullMQ trims its records.  *)
(***************************************************************************)

PageChanges(u) ==
    /\ Spend("change")
    /\ \E c \in Contents \ {page[u]} : page' = [page EXCEPT ![u] = c]
    /\ UNCHANGED <<connection, artifactVars, fetchVars, parseVars,
                   checkpoint, discoverer, cleaner>>

ToggleConnection ==
    /\ Spend("toggle")
    /\ connection' = IF connection = "active" THEN "paused" ELSE "active"
    /\ UNCHANGED <<page, artifactVars, fetchVars, parseVars,
                   checkpoint, discoverer, cleaner>>

\* A fetch handler between its lookup and its last await works on artifact a.
Holds(r, a) ==
    /\ fetchPc[r] \in {"put", "insert", "save", "enqueue"}
    /\ ArtifactOf(r, fetchSeen[r]) = a

\* The row of a is in and its parse is still to be queued.
Delivers(r, a) ==
    fetchPc[r] \in {"save", "enqueue"} /\ ArtifactOf(r, fetchSeen[r]) = a

\* Retention is at least a day and an attempt lasts seconds: a row does not
\* fall due while the attempt that is storing it still runs.
FallsDue(a) ==
    /\ Spend("due")
    /\ a \in rows \ due
    /\ \A r \in Refs : ~Holds(r, a)
    /\ due' = due \union {a}
    /\ UNCHANGED <<connection, page, objects, rows, deleted, fetchVars,
                   parseVars, checkpoint, discoverer, cleaner>>

EvictFetchJob(r) ==
    /\ Spend("evict")
    /\ fetchJob[r].status = "completed"
    /\ fetchJob' = [fetchJob EXCEPT ![r] = Evicted(@)]
    /\ UNCHANGED <<connection, page, artifactVars, parseVars, checkpoint,
                   discoverer, cleaner, fetchPc, fetchCk, fetchSeen, dropped>>

EvictParseJob(a) ==
    /\ Spend("evict")
    /\ parseJob[a].status = "completed"
    /\ parseJob' = [parseJob EXCEPT ![a] = Evicted(@)]
    /\ UNCHANGED <<connection, page, artifactVars, fetchVars, checkpoint,
                   discoverer, cleaner, parsePc, reviews, handed>>

-----------------------------------------------------------------------------
(***************************************************************************)
(* Discovery (stages/discovery.ts).  A job that finds the connection not   *)
(* active does nothing.                                                    *)
(***************************************************************************)

DiscoveryStart ==
    /\ discoverer.pc = "idle"
    /\ connection = "active"
    /\ discoverer' = [discoverer EXCEPT !.pc = "load"]
    /\ UNCHANGED <<envVars, artifactVars, fetchVars, parseVars,
                   checkpoint, cleaner>>

DiscoveryLoad ==
    /\ discoverer.pc = "load"
    /\ discoverer' = [discoverer EXCEPT !.pc = "list",
                                        !.etag = [u \in ListUrls |-> checkpoint[u]]]
    /\ UNCHANGED <<envVars, artifactVars, fetchVars, parseVars,
                   checkpoint, cleaner>>

\* A 304 on the page that lists the postings has no body to find them in.
ListUnmodified == \E u \in ListUrls : discoverer.etag[u] = page[u]

DiscoveryList ==
    /\ discoverer.pc = "list"
    /\ discoverer' = IF ListUnmodified THEN IdleDiscoverer
                     ELSE [discoverer EXCEPT !.pc = "stream", !.todo = Refs]
    /\ UNCHANGED <<envVars, artifactVars, fetchVars, parseVars,
                   checkpoint, cleaner>>

DiscoveryYield(r) ==
    /\ discoverer.pc = "stream"
    /\ r \in discoverer.todo
    /\ fetchJob' = [fetchJob EXCEPT ![r] = Added(@)]
    /\ discoverer' = IF discoverer.todo = {r} THEN IdleDiscoverer
                     ELSE [discoverer EXCEPT !.todo = @ \ {r}]
    /\ UNCHANGED <<envVars, artifactVars, parseVars, checkpoint,
                   cleaner, fetchPc, fetchCk, fetchSeen, dropped>>

\* The listing request fails, the process dies, or shutdown aborts the loop.
DiscoveryAbort ==
    /\ Spend("fail")
    /\ discoverer.pc # "idle"
    /\ discoverer' = IdleDiscoverer
    /\ UNCHANGED <<connection, page, artifactVars, fetchVars, parseVars,
                   checkpoint, cleaner>>

-----------------------------------------------------------------------------
(***************************************************************************)
(* Source-fetch (stages/fetch.ts).                                         *)
(***************************************************************************)

FetchGoto(r, pc) == fetchPc' = [fetchPc EXCEPT ![r] = pc]

FetchReturns(r) ==
    /\ FetchGoto(r, "idle")
    /\ fetchJob' = [fetchJob EXCEPT ![r] = Completed(@)]
    /\ fetchCk' = [fetchCk EXCEPT ![r] = [u \in Urls |-> NoContent]]

\* The connection row is read first; a handler that finds it paused or
\* removed returns, and its job is completed like any other.
FetchStart(r) ==
    /\ fetchJob[r].status = "waiting"
    /\ \/ /\ connection = "active"
          /\ FetchGoto(r, "load")
          /\ fetchJob' = [fetchJob EXCEPT ![r] = Taken(@)]
          /\ UNCHANGED fetchCk
       \/ /\ connection # "active"
          /\ FetchReturns(r)
    /\ fetchSeen' = [fetchSeen EXCEPT ![r] = NoContent]
    /\ UNCHANGED <<envVars, artifactVars, parseVars, checkpoint,
                   discoverer, cleaner, dropped>>

FetchLoad(r) ==
    /\ fetchPc[r] = "load"
    /\ FetchGoto(r, "request")
    /\ fetchCk' = [fetchCk EXCEPT ![r] = checkpoint]
    /\ UNCHANGED <<envVars, artifactVars, parseVars, checkpoint,
                   discoverer, cleaner, fetchJob, fetchSeen, dropped>>

\* Mutation: validators are not kept per URL.
NotModifiedAnywhere(r) == \E u \in Urls : fetchCk[r][u] = page[PageUrl[r]]

\* A conditional GET with the validator read at "load".
NotModified(r) == fetchCk[r][PageUrl[r]] = page[PageUrl[r]]

FetchRequest(r) ==
    /\ fetchPc[r] = "request"
    /\ FetchGoto(r, IF NotModified(r) THEN "saveSkip" ELSE "lookup")
    /\ fetchSeen' = [fetchSeen EXCEPT ![r] = page[PageUrl[r]]]
    /\ UNCHANGED <<envVars, artifactVars, parseVars, checkpoint,
                   discoverer, cleaner, fetchJob, fetchCk, dropped>>

\* Mutation: the lookup leaves out the content hash.
StoredForUrl(r) == \E b \in Bodies : <<PageUrl[r], b>> \in rows

\* An identical body stored for this URL, whenever that was: a replay.
AlreadyStored(r) == ArtifactOf(r, fetchSeen[r]) \in rows

FetchLookup(r) ==
    /\ fetchPc[r] = "lookup"
    /\ FetchGoto(r, IF AlreadyStored(r) THEN "saveSkip" ELSE "put")
    /\ UNCHANGED <<envVars, artifactVars, parseVars, checkpoint,
                   discoverer, cleaner, fetchJob, fetchCk, fetchSeen, dropped>>

FetchPut(r) ==
    /\ fetchPc[r] = "put"
    /\ FetchGoto(r, "insert")
    /\ objects' = objects \union {BodyOf(ArtifactOf(r, fetchSeen[r]))}
    /\ UNCHANGED <<envVars, rows, due, deleted, parseVars, checkpoint,
                   discoverer, cleaner, fetchJob, fetchCk, fetchSeen, dropped>>

\* onConflictDoNothing, then the id of whichever row holds the unique key.
FetchInsert(r) ==
    /\ fetchPc[r] = "insert"
    /\ FetchGoto(r, "save")
    /\ rows' = rows \union {ArtifactOf(r, fetchSeen[r])}
    /\ UNCHANGED <<envVars, objects, due, deleted, parseVars, checkpoint,
                   discoverer, cleaner, fetchJob, fetchCk, fetchSeen, dropped>>

\* advanceCheckpoint: the WHOLE map read at "load" is written back, with this
\* URL's validator merged in.
Advanced(r) == [fetchCk[r] EXCEPT ![RefUrl[r]] = fetchSeen[r]]

\* Mutation: the handler returns without queueing the parse.
FetchSaveReturns(r) ==
    /\ fetchPc[r] \in {"save", "saveSkip"}
    /\ FetchReturns(r)
    /\ checkpoint' = Advanced(r)
    /\ UNCHANGED <<envVars, artifactVars, parseVars,
                   discoverer, cleaner, fetchSeen, dropped>>

FetchSave(r) ==
    /\ \/ /\ fetchPc[r] = "save"
          /\ FetchGoto(r, "enqueue")
          /\ UNCHANGED <<fetchJob, fetchCk>>
       \/ /\ fetchPc[r] = "saveSkip"
          /\ FetchReturns(r)
    /\ checkpoint' = Advanced(r)
    /\ UNCHANGED <<envVars, artifactVars, parseVars,
                   discoverer, cleaner, fetchSeen, dropped>>

FetchEnqueue(r) ==
    /\ fetchPc[r] = "enqueue"
    /\ FetchReturns(r)
    /\ parseJob' = [parseJob EXCEPT ![ArtifactOf(r, fetchSeen[r])] = Added(@)]
    /\ UNCHANGED <<envVars, artifactVars, checkpoint, discoverer,
                   cleaner, fetchSeen, dropped, parsePc, reviews, handed>>

\* The handler throws (network, database, Redis, storage), or its process dies.
FetchInterrupted(r) ==
    /\ Spend("fail")
    /\ fetchPc[r] # "idle"
    /\ FetchGoto(r, "idle")
    /\ \/ fetchJob' = [fetchJob EXCEPT ![r] = Thrown(@)]
       \/ fetchJob' = [fetchJob EXCEPT ![r] = Stalled(@)]
    /\ fetchCk' = [fetchCk EXCEPT ![r] = [u \in Urls |-> NoContent]]
    /\ fetchSeen' = [fetchSeen EXCEPT ![r] = NoContent]
    /\ dropped' = IF fetchPc[r] \in {"save", "enqueue"}
                  THEN dropped \union {ArtifactOf(r, fetchSeen[r])} ELSE dropped
    /\ UNCHANGED <<connection, page, artifactVars, parseVars, checkpoint,
                   discoverer, cleaner>>

-----------------------------------------------------------------------------
(***************************************************************************)
(* Artifact-parse (stages/parse.ts).                                       *)
(***************************************************************************)

ParseGoto(a, pc) == parsePc' = [parsePc EXCEPT ![a] = pc]

ParseReturns(a) ==
    /\ ParseGoto(a, "idle")
    /\ parseJob' = [parseJob EXCEPT ![a] = Completed(@)]

\* The row is read; one reclaimed by retention leaves nothing to parse.
ParseStart(a) ==
    /\ parseJob[a].status = "waiting"
    /\ \/ /\ a \in rows \ deleted
          /\ ParseGoto(a, "get")
          /\ parseJob' = [parseJob EXCEPT ![a] = Taken(@)]
       \/ /\ a \in deleted
          /\ ParseReturns(a)
    /\ UNCHANGED <<envVars, artifactVars, fetchVars, checkpoint,
                   discoverer, cleaner, reviews, handed>>

\* storage.get throws when the object is gone.
ParseGet(a) ==
    /\ parsePc[a] = "get"
    /\ \/ /\ BodyOf(a) \in objects
          /\ ParseGoto(a, IF BodyOf(a) \in Unparsable THEN "review" ELSE "parse")
          /\ UNCHANGED parseJob
       \/ /\ BodyOf(a) \notin objects
          /\ ParseGoto(a, "idle")
          /\ parseJob' = [parseJob EXCEPT ![a] = Thrown(@)]
    /\ UNCHANGED <<envVars, artifactVars, fetchVars, checkpoint,
                   discoverer, cleaner, reviews, handed>>

\* Mutations: no return after the review; the review item is not inserted.
ParseReviewFallsThrough(a) ==
    /\ parsePc[a] = "review"
    /\ reviews' = [reviews EXCEPT ![a] = @ + 1]
    /\ ParseGoto(a, "parse")
    /\ UNCHANGED <<envVars, artifactVars, fetchVars, checkpoint,
                   discoverer, cleaner, parseJob, handed>>
ParseReviewSilent(a) ==
    /\ parsePc[a] = "review"
    /\ ParseGoto(a, "finish")
    /\ UNCHANGED <<envVars, artifactVars, fetchVars, checkpoint,
                   discoverer, cleaner, parseJob, reviews, handed>>

\* routeToReview inserts the item; the handler returns some awaits later.
ParseReview(a) ==
    /\ parsePc[a] = "review"
    /\ reviews' = [reviews EXCEPT ![a] = @ + 1]
    /\ ParseGoto(a, "finish")
    /\ UNCHANGED <<envVars, artifactVars, fetchVars, checkpoint,
                   discoverer, cleaner, parseJob, handed>>

\* normalization.add: the id is the artifact's, so a second add collapses.
ParseHandOver(a) ==
    /\ parsePc[a] = "parse"
    /\ handed' = handed \union {a}
    /\ ParseGoto(a, "finish")
    /\ UNCHANGED <<envVars, artifactVars, fetchVars, checkpoint,
                   discoverer, cleaner, parseJob, reviews>>

ParseFinish(a) ==
    /\ parsePc[a] = "finish"
    /\ ParseReturns(a)
    /\ UNCHANGED <<envVars, artifactVars, fetchVars, checkpoint,
                   discoverer, cleaner, reviews, handed>>

\* Another await of the handler throws, or its process dies.
ParseInterrupted(a) ==
    /\ Spend("fail")
    /\ parsePc[a] # "idle"
    /\ ParseGoto(a, "idle")
    /\ \/ parseJob' = [parseJob EXCEPT ![a] = Thrown(@)]
       \/ parseJob' = [parseJob EXCEPT ![a] = Stalled(@)]
    /\ UNCHANGED <<connection, page, artifactVars, fetchVars, checkpoint,
                   discoverer, cleaner, reviews, handed>>

-----------------------------------------------------------------------------
(***************************************************************************)
(* Retention-cleanup (stages/retention.ts): concurrency 1.                 *)
(***************************************************************************)

\* Mutation: the query does not look at retention_until.
AnyLive == rows \ deleted

Reclaimable == due \ deleted

\* A batch of the query's result, all of it when the limit allows; it comes in
\* the order of retention_until, here in any order.
Batches ==
    {batch \in SUBSET Reclaimable :
        Cardinality(batch) = IF Cardinality(Reclaimable) < BatchSize
                             THEN Cardinality(Reclaimable) ELSE BatchSize}

RetentionSelect ==
    /\ cleaner.pc = "idle"
    /\ \E batch \in Batches : \E a \in batch :
              cleaner' = [pc |-> "delete", batch |-> batch \ {a}, cur |-> {a}]
    /\ UNCHANGED <<envVars, artifactVars, fetchVars, parseVars,
                   checkpoint, discoverer>>

\* Mutation: a storage error ends the job.
RetentionDeleteThrows(a) ==
    /\ cleaner.pc = "delete"
    /\ cleaner.cur = {a}
    /\ \/ /\ objects' = objects \ {BodyOf(a)}
          /\ cleaner' = [cleaner EXCEPT !.pc = "tombstone"]
       \/ /\ cleaner' = IdleCleaner
          /\ UNCHANGED objects
    /\ UNCHANGED <<envVars, rows, due, deleted, fetchVars, parseVars,
                   checkpoint, discoverer>>

\* A storage error is logged and the row is tombstoned all the same.
RetentionDelete(a) ==
    /\ cleaner.pc = "delete"
    /\ cleaner.cur = {a}
    /\ \/ objects' = objects \ {BodyOf(a)}
       \/ UNCHANGED objects
    /\ cleaner' = [cleaner EXCEPT !.pc = "tombstone"]
    /\ UNCHANGED <<envVars, rows, due, deleted, fetchVars, parseVars,
                   checkpoint, discoverer>>

RetentionTombstone(a) ==
    /\ cleaner.pc = "tombstone"
    /\ cleaner.cur = {a}
    /\ deleted' = deleted \union {a}
    /\ \/ /\ cleaner.batch = {}
          /\ cleaner' = IdleCleaner
       \/ \E b \in cleaner.batch :
            cleaner' = [pc |-> "delete", batch |-> cleaner.batch \ {b}, cur |-> {b}]
    /\ UNCHANGED <<envVars, objects, rows, due, fetchVars, parseVars,
                   checkpoint, discoverer>>

RetentionInterrupted ==
    /\ Spend("fail")
    /\ cleaner.pc # "idle"
    /\ cleaner' = IdleCleaner
    /\ UNCHANGED <<connection, page, artifactVars, fetchVars, parseVars,
                   checkpoint, discoverer>>

-----------------------------------------------------------------------------
FetchStep(r) ==
    \/ FetchStart(r) \/ FetchLoad(r) \/ FetchRequest(r) \/ FetchLookup(r)
    \/ FetchPut(r) \/ FetchInsert(r) \/ FetchSave(r) \/ FetchEnqueue(r)

ParseStep(a) ==
    \/ ParseStart(a) \/ ParseGet(a) \/ ParseReview(a)
    \/ ParseHandOver(a) \/ ParseFinish(a)

CleanStep ==
    \/ RetentionSelect
    \/ \E a \in Artifacts : RetentionDelete(a) \/ RetentionTombstone(a)

Next ==
    \/ \E u \in Urls : PageChanges(u)
    \/ ToggleConnection
    \/ \E a \in Artifacts : FallsDue(a) \/ EvictParseJob(a)
    \/ DiscoveryStart \/ DiscoveryLoad \/ DiscoveryList \/ DiscoveryAbort
    \/ \E r \in Refs : DiscoveryYield(r) \/ EvictFetchJob(r)
    \/ \E r \in Refs : FetchStep(r) \/ FetchInterrupted(r)
    \/ \E a \in Artifacts : ParseStep(a) \/ ParseInterrupted(a)
    \/ CleanStep \/ RetentionInterrupted

Spec == Init /\ [][Next]_vars

(***************************************************************************)
(* Fairness: workers keep taking jobs and awaits end (SafeFetcher and the  *)
(* clients have timeouts), the scheduler keeps enqueuing discovery and     *)
(* retention-cleanup.  Nothing makes a page change, a user act, a record   *)
(* be trimmed or a handler fail; Budget bounds how often each happens.     *)
(***************************************************************************)
DiscoveryStep ==
    \/ DiscoveryStart \/ DiscoveryLoad \/ DiscoveryList
    \/ \E r \in Refs : DiscoveryYield(r)

Fairness ==
    /\ WF_vars(DiscoveryStep)
    /\ \A r \in Refs : WF_vars(FetchStep(r))
    /\ \A a \in Artifacts : WF_vars(ParseStep(a))
    /\ WF_vars(CleanStep)

FairSpec == Spec /\ Fairness

-----------------------------------------------------------------------------
(***************************************************************************)
(* Properties.                                                             *)
(***************************************************************************)

\* Every variable has its type.
TypeOK ==
    /\ connection \in {"active", "paused"}
    /\ page \in [Urls -> Contents]
    /\ checkpoint \in Etags
    /\ objects \subseteq Bodies
    /\ rows \subseteq Artifacts
    /\ due \subseteq rows
    /\ deleted \subseteq due
    /\ fetchJob \in [Refs -> Job]
    /\ parseJob \in [Artifacts -> Job]
    /\ reviews \in [Artifacts -> Nat]
    /\ handed \subseteq rows
    /\ discoverer \in Discoverer
    /\ fetchPc \in [Refs -> FetchPcs]
    /\ fetchCk \in [Refs -> Etags]
    /\ fetchSeen \in [Refs -> Contents \union {NoContent}]
    /\ parsePc \in [Artifacts -> ParsePcs]
    /\ cleaner \in Cleaner
    /\ dropped \subseteq rows
    /\ budget \in [Kinds -> Nat]

\* A validator in the checkpoint vouches for something stored: whatever
\* handlers overwrite each other's checkpoint, throw or die, no URL has a
\* saved ETag before an artifact with that content is a row (the order put,
\* insert, save of fetch.ts; a wrong order makes the next 304 lose a posting).
CheckpointBacked ==
    \A u \in Urls : checkpoint[u] # NoContent =>
        \E r \in Refs : RefUrl[r] = u /\ ArtifactOf(r, checkpoint[u]) \in rows

\* A fetch that takes a short cut (304, or an identical body stored before)
\* does so for a posting whose own artifact is a row: skipping the store and
\* the parse never skips a posting that has none (Req 26.3, 32).
ShortCutMeansStored ==
    \A r \in Refs : fetchPc[r] = "saveSkip" => ArtifactOf(r, fetchSeen[r]) \in rows

\* A row loses its body to retention only: the body is put before the row is
\* inserted, and whatever throws, dies or is repeated, it can be read until a row
\* with these bytes is past its retention.  That may be another URL's row, since
\* artifact-store.ts keys objects by hash and not by row (Req 32.1, 53.2).
LiveArtifactHasBody ==
    \A a \in rows \ deleted :
        BodyOf(a) \in objects \/ \E b \in due : BodyOf(b) = BodyOf(a)

\* What requirement 32.3 asks for ("THE System SHALL retain Raw_Artifacts according to
\* the configurable raw-source retention policy"): a row keeps its body until its own
\* retention is over, whatever other URLs serve (artifact-store.ts 63-69).
OwnRetentionHolds ==
    \A a \in rows \ due : BodyOf(a) \in objects

\* The only way an artifact can be stored and never be queued for parsing is a
\* fetch handler cut off between the insert and the enqueue: every other path
\* through runFetch that leaves a row behind queues it.
OnlyInterruptionStrands ==
    \A a \in rows : parseJob[a].status = "none" =>
        a \in dropped \/ \E r \in Refs : Delivers(r, a)

\* A record whose body does not parse enters the review queue and nothing of it
\* reaches normalization; one that parses is never reviewed (Req 35.1).
NothingFabricated ==
    \A a \in Artifacts : reviews[a] > 0 => a \notin handed /\ parseJob[a].status # "none"

\* Artifacts that were ever given to parse, and those a reviewer has been shown.
Queued   == {a \in Artifacts : parseJob[a].status # "none"}
Reviewed == {a \in Artifacts : reviews[a] > 0}

\* The stages keep what Custody promises of every artifact, whatever retries,
\* dies or overlaps: body before row, row before parse, a live artifact queued,
\* no record handed on from a body that does not parse, no body given up before a
\* row that has it is past its retention, no step taken back (Req 32.1, 35.1, 53.2).
Promise == INSTANCE Custody WITH
    stored <- rows, queued <- Queued, reviewed <- Reviewed,
    expired <- due, reclaimed <- deleted

KeepsCustody == Promise!Safety

\* Every fetch job that is queued settles: retries are bounded and no handler
\* waits for another (Req 27.3).
FetchSettles == \A r \in Refs : Pending(fetchJob[r]) ~> Settled(fetchJob[r])

\* An artifact queued for parsing is handed over, reviewed, reclaimed or its job
\* fails for good: no outcome is lost on the way (Req 35).
ParseHasOutcome ==
    \A a \in Artifacts : Pending(parseJob[a]) ~>
        (a \in handed \/ reviews[a] > 0 \/ a \in deleted \/ parseJob[a].status = "failed")

\* An artifact past its retention is tombstoned, also when its cleanup job is
\* cut off or the object store answers with an error (Req 53.2).
ExpiredReclaimed == \A a \in Artifacts : a \in due ~> a \in deleted

\* As long as a connection stays active, each posting it lists is stored unless
\* its fetch job fails for good: no death, error or trimmed record in discovery or
\* fetch loses the first contact (Req 21.2).
FirstContactStored ==
    \A r \in Refs :
        [](connection = "active" /\ fetchJob[r].status # "failed") =>
            <>(\E c \in Contents : ArtifactOf(r, c) \in rows)

=============================================================================
