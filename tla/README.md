# CareerStack: TLA+ models, model checking and proofs

CareerStack finds job postings: a worker discovers, fetches, parses, normalizes and
deduplicates postings from the boards a user connects, and an API serves the result
together with the user's profiles, sessions and privacy functions. This directory has
TLA+ models of the parts where interleavings, failures and retries decide whether the
program is right, TLC configurations that check them, and proofs for every value of
the constants. Paths below are relative to `src/`; `W/` is `apps/worker/src/`, `A/` is
`apps/api/src/`, `P/` is `packages/`.

## 1. Inventory

The worker and the API are separate processes that meet in Postgres and Redis. A stage
of the pipeline is a BullMQ handler: it is started from a job, awaits database, object
store, network and queue calls one after the other, and adds the next stage's job. There
is no transaction around a handler (deduplication has one inside), so what another
handler sees, and what a death leaves behind, is decided await by await.

| Component | State it keeps | Operations | Talks to |
|---|---|---|---|
| Job queues (`W/queues.ts`, `W/context.ts`, `W/workers.ts`) | one record per jobId in Redis: status, attempts, stalls | add, take, complete, fail and retry with backoff, stalled check, trimming of completed records | every stage |
| Scheduler (`W/scheduler.ts`) | timers | adds discovery, outbox, sweep and cleanup jobs under time-bucketed ids | queues |
| Discovery (`W/stages/discovery.ts`) | none of its own; opens runs | lists postings, adds one fetch job each | connectors, checkpoint store |
| Source-fetch (`W/stages/fetch.ts`) | `raw_artifacts` rows | conditional request, look up, put body, insert row, save checkpoint, add parse job | connectors, object store, checkpoint store |
| Artifact-parse (`W/stages/parse.ts`) | `review_queue_items`, `parser_runs` | parse a body; review item or normalization job | object store |
| Retention-cleanup (`W/stages/retention.ts`) | `deleted_at` | select expired rows, delete the object, tombstone | object store |
| Checkpoint store, artifact store (`W/checkpoint-store.ts`, `W/storage/`) | validators per URL and connection; objects keyed by connection and hash | load and save of the whole map; put, get, delete | fetch, parse, retention |
| Connectors (`P/connectors`) | none | discover, fetch, parse for greenhouse, lever, ashby, jsonld, manual_url | SafeFetcher |
| Normalization (`W/stages/normalize.ts`, `P/shared/src/normalize.ts`) | none | map a parsed record to a candidate; add a dedup job | queues |
| Deduplication and persistence (`W/stages/dedup.ts`, `P/shared/src/dedup.ts`) | `opportunities`, `opportunity_sources`, child rows, revisions, groups, outbox | one transaction per job: gather the neighbourhood, group, insert, update or merge | expiry queue |
| Expiry (`W/stages/expiry.ts`) | `opportunities.status` | targeted closure; sweep by `closing_at` | – |
| Outbox relay (`W/stages/outbox.ts`) | `published_at` | select, publish, mark | – |
| Export (`W/stages/export.ts`, `A/privacy/export*.ts`) | `exports` rows and objects | request, assemble, store, mark ready, sign a URL | account deletion |
| Account and data deletion (`A/privacy/*deletion*`) | all of a user's rows | one transaction | export, connections |
| Runs, health, dead letters (`W/runs.ts`, `W/dlq.ts`) | `connector_runs`, failure counters, dead-letter queues | open, count, record a failure | stages |
| Connections API (`A/connections`) | `connections.status` and config | create, update, pause, remove, disconnect | discovery |
| Role profiles (`A/role-profiles`) | profiles and the active pointer | create, activate, duplicate, delete | – |
| Idempotency keys (`A/common/idempotency`) | reservations in memory | reserve, complete, release, prune | every mutating request |
| Sessions, magic links, OAuth (`P/auth`, `A/auth`) | sessions, link tokens, accounts | issue, authenticate, rotate, revoke; issue, verify | – |
| Rate limiter, SafeFetcher (`P/security`) | a token bucket per domain | acquire, defer; fetch under bounds | connectors |
| SSRF guard, robots, URLs, sanitizer (`P/security`) | none | pure functions | – |
| Opportunities API (`A/opportunities`) | save and dismiss marks | list with keyset pages, detail, save, dismiss, clear | web application |
| Live events (`A/events`, `use-live-updates.ts`) | open streams | publish, subscribe, reconnect | export |
| Admin and health (`A/admin`, `A/health`) | none | lists of what the stages recorded | – |
| Web application (`apps/web`) | query cache, forms, dialogs | optimistic mutations, polling, forms | API |
| Schema, contracts, config, observability, ui | – | declarations and presentation | – |

What makes each part correct, and what is hard about it:

- **Ingestion** (discovery to parse, and cleanup): no posting is lost between two stages;
  no short cut (304, replay, collapsed job) skips what was never stored; a live artifact
  has its body; an invalid record reaches review and nothing else. Hard: five fetches
  and five parses at once over one checkpoint and one object store, a death between any
  two awaits, retries that find their own leftovers.
- **Deduplication**: matching records end on one opportunity, sources keep their link,
  first-party values win. Hard: two READ COMMITTED transactions with stale reads,
  retries after unique violations, re-runs after the commit, merges by random id.
- **Job queues**: bounded retries, one record per id. Hard: a record that outlives its
  job absorbs later adds; a stalled job fails without reaching the dead-letter relay.
- **Expiry**: only definitive signals close; a passed closing date always expires.
- **Outbox, export, deletion**: at-least-once, no bundle of a deleted user. Hard: the
  job and the deletion share no lock.
- **Runs and health**: counters and status agree with what the stages did. `finishRun`
  and `recordConnectionHealthy` are never called.
- **Role profiles**: exactly one active profile. Hard: check and write in separate
  statements.
- **Connections**: removed is final; paused means no fetches.
- **Idempotency, sessions, links**: one execution per key, one live successor per
  session, one use per link. Hard: two requests at once.
- **Rate limiter**: never above the budget; deferred, not dropped.
- **Extraction** (connectors, normalization): a record states what its posting publishes
  and nothing else; the newest version arrives at the source row. Hard: the posting is looked up again in a
  page that has changed since discovery; ids of queue jobs that two versions share.
- **Opportunities list and overlay**: every matching row is listed once; what is shown is
  the user's own last decision. Hard: rows move between pages; answers arrive out of order.
- **Live updates**: a broken stream comes back; a waiting page sees an outcome.

## 2. Plan

The modules in the order they were written, and what composes what:

1. `JobQueue`, the record of one job; every module of a stage extends it.
2. `Ingestion` (fetch, parse, cleanup), which implements the abstract `Custody`, and
   `DedupPersist` (the dedup transaction).
3. `Accounts`, `RoleProfiles`, `Connections`: the API's handlers, statement by statement.
4. `Lifecycle` (persist, targeted closure, sweep) and `Outbox`, which implements the abstract
   `EventStream`.
5. `LiveUpdates` and `Exports`, composed: the page polls, the stream breaks, the job retries.
6. `Explorer`: list query, overlay and the web client's cache.
7. `Fetching`, `Connectors`, `Places`, `CanonicalUrl`, `Normalising`, composed in
   `Extraction`: one posting from the board to the queue of deduplication.
8. Algorithms and data mappings without steps: `Matching`, `Politeness`, `ProfileForms`,
   `ConnectionForms`, `Dialogs`, `AdminView`.

Left for later: deletion as one transaction across the modules that each have its rows.

## 3. Modules

Each module starts with a comment on what it is about and what it leaves out, and
`PROJECT.json` maps every definition to its lines. A handler is never one step: every await
on the database, the queue, the object store or the network ends a step, and a transaction
is split where another one may commit between its statements.

### Stages of the worker

**JobQueue.** One job's record and what BullMQ does to it, as operators from record to
record (`Added`, `Taken`, `Completed`, `Thrown`, `Stalled`, `Evicted`). BullMQ is not in the
repository: these are external, modelled from `defaultJobOptions` (`W/context.ts:61-69`)
and the handlers in `W/workers.ts`. Backoff delays, priorities and progress are left out.

**Ingestion.** One connection; a handler's locals are the variables `fetchPc`, `fetchCk`,
`fetchSeen`, `parsePc`, `discoverer`, `cleaner`.

| Model | Code |
|---|---|
| `rows`, `due`, `deleted` | `raw_artifacts`, `retention_until` passed, `deleted_at` |
| `objects` | the object store; the key is the content hash |
| `checkpoint` | `connector_checkpoints.etags` |
| `fetchJob`, `parseJob`, `handed` | queue records; `handed` is the normalization queue |
| `FetchStart .. FetchEnqueue` | `runFetch`, from the connection check to `artifactParse.add` |
| `ParseStart .. ParseFinish` | `runParse` |
| `RetentionSelect, Delete, Tombstone` | `runRetentionCleanup` |
| `DiscoveryStart .. DiscoveryYield` | `runDiscovery` |
| `FetchInterrupted`, `ParseInterrupted`, ... | an await that throws, or the process dying |
| `PageChanges`, `ToggleConnection`, `FallsDue`, `Evict...` | the source, the user, time, BullMQ |

A page's content stands for its body and its validator together. `RefUrl`, `PageUrl` and
`ListUrls` say which URL a connector requests and under which it keeps the validator: for
the board connectors postings have pages of their own; for `jsonld` every posting
requests the career page. Two discovery jobs of one connection are one here: they only add
fetch jobs under ids that do not depend on the job.

**Custody.** What those stages are for, without handlers, queues or failures: a body is
kept before its artifact is recorded, a recorded and live artifact is given to parse, what
parses is handed on and what does not is reviewed, and a body is given up only when an
artifact that has it is past its retention. Artifacts of several URLs may have one body, and
then lose it together, also before the second is recorded. `Ingestion` implements it: `Promise == INSTANCE
Custody WITH stored <- rows, queued <- Queued, reviewed <- Reviewed, expired <- due,
reclaimed <- deleted`. `Queued` forgets what became of a parse job and `Reviewed` how often
an item was inserted, so a retry, a trimmed record and a death are stutters. That it holds
does not say that anything arrives: the liveness properties of `ingest_live` do. That nothing
is both reviewed and handed on follows from it, and is also proved by itself.

**DedupPersist.** Queue deduplication and `runDedup`. A *version* is a normalized record:
source, canonical URL, fingerprint, and all its other fields as its identity.
`opps[o].from` is the version whose values the row has, so the row's URL and content hash
follow from it. Time is the set of versions published before.

| Model | Code |
|---|---|
| `opps`, `src` | `opportunities`, `opportunity_sources` |
| `SlotOf` | the jobId, `dedup:key:fingerprint`; `Submit` keeps the data of the first add |
| `GatherIds`, `GatherRows` | the reads of `gatherNeighborhood` |
| `Group`, `Beats`, `CandidateWins` | `deduplicate`, `chooseCanonical`: first-party, then confidence, then `updatedAt` |
| `Commit`, `Conflict` | the writes of the transaction, or its rollback on the unique index |
| `Finish`, `Interrupted` | the handler returns; it throws or dies, also after the commit |

`Commit` is one step although it is several statements: they become visible at the commit,
and two transactions that write the same row wait for each other. The reads are not
repeatable, so they are steps. `disturbed` and `raced` are history variables: a handler is
disturbed when another transaction commits between its first read and its commit. Left out:
the apply URL (a third kind of match that acts like the fingerprint), the ATS identity (no
connector fills it), child rows, evidence, revisions, duplicate groups and outbox rows
(written in the same transaction, read by no stage) and the fuzzy stage, which here could
only compare records that exact matches have united; it is in `Matching`.

**Lifecycle.** The status of stored opportunities (`opps`) and the review items about them
(`items`): `Persist*` are the dedup transaction's effect on the status and the add to
`expiry-check`, `Target*` the two statements of `applyTargeted`, `BeginSweep` and `EndSweep`
the two updates of `applySweep`, `Tick` the clock against `closing_at`. `Signals` is what
the type of a parse result allows; no connector sets one.

**Outbox** and **EventStream.** `Outbox`: rows that become visible in any order, relays that
select a batch and dispatch and mark it one by one and may die between. `EventStream` says
what that is for: committed events are dispatched, all of them, none before its commit.
`Promise == INSTANCE EventStream WITH committed <- Written` is the refinement; dispatching
again is a stutter.

**Connections.** The API's handlers on `connections` and `connector_runs`, the scheduler's
adds, discovery jobs as far as they open runs and count failures, and the dead-letter hook.
Every handler's check and its update are two steps. Disconnecting and account deletion are
actions here too, on these tables.

**Fetching, Connectors, Normalising, Places, CanonicalUrl, Extraction.** `Fetching` is
`SafeFetcher.fetch` hop by hop with the Redis token bucket, processes whose clocks differ
(`Lag`) and the source-fetch job around it. `Connectors` says, for each connector, what
`discover` refers to, what `fetch` gets for a reference from the site of that moment and
what `parse` makes of it, with the evidence it files, at most one piece per field; text is a
value that stands for all its encodings. `Normalising` maps a parsed record to a candidate or a rejection, with
`Places` for locations and `CanonicalUrl` for URLs. `Extraction` composes them: the board
changes, bodies already stored are skipped, and parsed records go through normalization to
the deduplication queue under `JobId`. What deduplication does to this one posting is there
too: the source row is always written (`linked`), the record's own values (`row`) only when
the candidate is chosen (`MayWin`); that the text of an update time comes out as newer is a
free choice, since it is compared with another clock's in another zone.

**Matching.** `deduplicate` with Jaro-Winkler, token overlap, thresholds, union-find grouping
and the canonical member, as recursive functions. **Politeness.** robots.txt, the limiter of
one process, the backoff and the header rules: they are exported by `P/security`, mostly
without a caller in the worker.

### API and web application

**Accounts.** A request is a handler with a program counter (`req[r].pc`); rows are `users`,
`accounts`, `links`, `sessions`, OAuth transactions `flows`, cookies `jar`.

| Model | Code |
|---|---|
| `RequestMagicLink, IssueLink` / `OpenLink, ConsumeLink` | `MagicLinkService.issue` / `verify`, between lookup and `markUsed` |
| `ResolveEmail, ResolveUnknownEmail, CreateByEmail, EmailTaken` | `findOrCreateByEmail`, read and insert |
| `GoogleStart, GoogleCallback, RefuseCallback, Exchange` | `googleStart`, `googleCallback`, `OAuthStateService.verify` |
| `ResolveAccount, ResolveNewAccount, Bind*` | `findOrCreateByGoogle` under its two unique indexes |
| `IssueSession, EstablishSession` | `SessionService.issue`, cookies of the response |
| `Guarded, Authenticate, LoadPrincipal` | `SessionAuthGuard` and `CsrfGuard` |
| `LogoutRevokes, RevokeSessions, DeleteAccount` | `logout`, `SessionsController`, `deleteAccount` |

**RoleProfiles.** `RoleProfilesService` with the idempotency interceptor in front: reserve,
run, complete or release, replay, prune; the profile rows, their child collections and the
active pointer. An idempotency record is its fingerprint and its response, both told by the
payload they belong to; `complete()` and `release()` act on whatever record the key has, and
a record may expire while its request runs. The process may die between two steps: open
transactions roll back and the keys, which live in memory, are gone.

**Explorer.** The list query with keyset pages and the overlay of saves and dismissals, and
the client's cached pages: a request is answered in one step and received in another, and
mutations patch, roll back and reconcile the cache. `mingled` and `raced` are history
variables: the list has raced when another device wrote, a load ran during a mutation, a second
mutation of a row began while it was busy, an answer was lost after the write, or a rollback
took back more than its own mutation. A fresh load that nothing overlaps ends it.

**Exports** and **LiveUpdates.** The request that inserts a row and queues a job, handlers
that overlap when one loses its lock, the update whose answer is lost, the object, the page
that polls `useExportStatus` while it shows an export under way, the
deletion of the account; the event bus, the streams per user and the browser's source with
its reconnection timer.

**ProfileForms, ConnectionForms, Dialogs, AdminView.** What the forms let through, what the
API makes of it and what the page shows of it the next time, as operators; the confirmation
dialogs' states around a pending mutation; what the operations page lists of what the stages
recorded.

## 4. Runs

| Run | Instance | Shows |
|---|---|---|
| `ingest_live` | one posting in two versions, a pause, retention, a trimmed record, one failure, fairness | validators are backed by rows and short cuts skip nothing; bodies go with retention only; only interruption strands an artifact; the stages implement `Custody`; fetches settle, parses have outcomes, expired artifacts go, first contacts are stored |
| `persist` | two sources, one of which changes its title and URL, the other an aggregator that becomes surer of what it reads, two jobs at a time, one interruption or trimmed record | undisturbed transactions unite matches, keep first-party values from an aggregator, and roll back only on merges and on rows that races left; sources are stranded only by races |
| `accounts` | two people of whom one is signed in, two browsers, three overlapping requests, two flows, one link, one expiry | late requests are not served; a link signs in once; a flow stays in its browser; identities do not move; sessions end by their own user; deleted users give their address back |
| `profiles` | two existing profiles, three overlapping requests, one key with two payloads, one death | a key creates once and replays the response to its own payload; collections are one writer's; the active pointer is never left on a deleted profile |
| `explorer` | two rows with equal times and one inserted later, one touched between pages of one, two mutations and another device | newest-first pages list every row once; a row with no mutation under way shows what the server has, also when mutations of different rows overlap |
| `lifecycle` | one opportunity, a persister with every signal, an expiry job, a sweep, time up to its date, one failure, fairness | closures are final, ambiguous ones reach a reviewer, lapsed rows leave the open statuses |
| `outbox` | three rows, two relays with batches of two, two deaths, fairness | refines `EventStream`, liveness included |
| `connections` | two connections, two requests, one discovery job, one failure | no connection or run of a deleted user comes back by itself; a removal is undone only by a request that overlaps it or a disconnect |
| `exports` | two handlers that may overlap, three failures or lost locks, fairness | settled exports stay settled; a page that shows an export under way comes to show an outcome; a broken stream comes back |
| `extract` | a posting of each kind of connector in up to five versions (one of a `jsonld` page on which the posting stands alone), two jobs, two processes one unit of clock apart | requests are paid for; records state what postings publish; the newest version arrives at its source row, and at the record where it is the first or surer than all before |
| `explorer_closing` (violation) | rows without a closing date, sorted by it | pages skip rows in the region without a date |
| `ingest_shared` (violation) | two postings, one body, one falls due | cleanup of one row takes the body of the other |

The MC modules also state facts about the operators as named assumptions, which TLC
evaluates when the run starts: `MCDedupPersist` (similarity is symmetric; union-find gives
the connected components), `MCPoliteness` (robots groups, patterns and precedence, the least
wait, bounds of the backoff, headers), `MCExtraction` (tables are disjoint, parsing a
location again changes nothing, canonical URLs are stable, what Lever and Ashby publish lacks a company, empty boards are healthy and empty pages not, the two
limiters agree on one clock), `MCForms` (chips are distinct, what was saved is what the
editor shows, blank is never zero, whatever the wizard accepts the API accepts, dialogs
close by their own success, admin lists show the newest rejections). They are evaluated
over all inputs of a small alphabet; `SimilaritySymmetric`, `GroupsAreComponents`,
`ChipsAreDistinct` and the like compare a translation of the code's loop with a definition
that has none.

`CHECK_DEADLOCK FALSE` is set where the system may stop: no budget is left, all jobs are
done and every request is answered.

**Bounds.** `Budget`, `Losses`, `Failures`, `MaxEvents`, `MaxDeaths`, `MaxTouches` bound what the environment
does: changes, pauses, failures, deaths, trimmed records, expiries. One of each suffices for
the hazards listed: every one takes one failure or change at a particular await, and TLC
tries them all; exports have three because a lost lock and a failed retry are needed
together. Two concurrent handlers show every race over one row, since each involves a reader
and one other writer; accounts and profiles have a third request, because a sign-in takes
one request to ask for the link and one to open it next to the one that interferes. Two
dedup transactions are the code's limit per process (`W/workers.ts:43`), and two sources
with two titles and two URLs are the fewest where one record joins two others; one of them
has to move from one URL to the other for a race to leave a row without a source. Ids are
chosen in any order where they are random UUIDs. `ingest_live` has one posting: what
several postings do to one checkpoint is covered by the theorem `CheckpointIsBacked`, for
any number. Symmetry is used in runs without liveness properties only.

**Fairness.** `Ingestion!Fairness` is weak fairness of each handler's steps, of discovery
and of cleanup: workers keep taking jobs, awaits end because every client has a timeout,
and the scheduler keeps adding the recurring jobs (`W/scheduler.ts:45-51`). `Outbox` and
`Lifecycle` have weak fairness of each relay's steps and of the two steps of a sweep, for
the same reason. `Exports` has weak fairness of the page (its polling interval, which rests
while the page is in the background: it is said of a page in the foreground), the request,
the handlers and the reconnection timer. Nothing is assumed of failures, users and time.

## 5. Proofs

All theorems hold for any constants that meet the named assumptions: any number of
postings, users, browsers, requests, relays, attempts and budgets.

**JobQueueProofs.** Each operator on a job record keeps it well-formed; in particular a
job that may still run has an attempt left (`JobOK`), so `Thrown` never counts past
`MaxAttempts`. `NewJobOK` needs `AttemptsAssumption` and `StallsAssumption`.

**IngestionProofs.** Every proof rests on `TypeInv`, which is `TypeOK` with `Control`: the
facts that tie a handler's program counter to its job's status. `TypeOK` alone is not
inductive, because only `Control` says that a handler which is about to fail or finish
has a job that can.

| Theorem | Assumes | Argument |
|---|---|---|
| `TypeCorrect` | – | `TypeInv` is inductive |
| `CheckpointIsBacked` | a connector that keeps a posting's validator under the URL it requests | a handler loads the whole map, awaits, and writes it back, so the invariant speaks of every *copy*: each validator in the checkpoint or in a handler's copy is vouched for by a row; rows never go away, so stale copies stay vouched for |
| `ShortCutsAreSound` | also: postings have URLs of their own | from the former: a 304 needs a validator, a validator has a row |
| `OnlyInterruptionStrandsAlways` | – | an artifact without a parse job has a handler on its way to add it, or one that was cut off |
| `LiveArtifactsKeepBodies` | none | a body that was put is there, or a row with these bytes is due: cleanup deletes bodies of due rows only, and due rows stay due |
| `NothingIsFabricated` | – | review items and handed records come from the two branches of one parse, whose result its body fixes |
| `StagesKeepCustody` | none | the initial states map to one, and every action to a step of `Custody` or a stutter, over the former invariants and `HeldAreLive`: what a fetch has in its hands past the insert is a row that is not due. So the artifact it queues is live |

`HeldAreLive` holds because a row falls due days after its fetch and a fetch has a timeout:
`FallsDue` asks that no fetch is working on the artifact. Both theorems hold where URLs share
bytes; what they say there is less than Req 32.3 asks, as `ingest_shared` shows: a live row may
lose its body with another URL's (`W/storage/artifact-store.ts:68`).

**DedupPersistProofs.** `TypeInv` is again `TypeOK` and `Control`; the group and the target
of a commit are rows because what a handler gathers stays (rows are never deleted). Then:

| Theorem | Argument |
|---|---|
| `TypeCorrect` | every source row points to a row of `opportunities`, whatever overlaps |
| `NoSourceStrandedAlways` | needs `Coherent`: what an undisturbed handler has read is what the tables hold, ids and sources both. So every opportunity it merges has a source, which by the invariant itself is not on a Duplicate; the target therefore stays listed, and all sources of the others move to it |
| `CommitUnitesAlways` | from `Coherent`, the group of an undisturbed commit holds the opportunity of every source with the candidate's identity or fingerprint (`GroupHolds`) |
| `FirstPartyKeptAlways` | needs `Guarded`: before any race, a listed row with first-party values has a first-party source attached. A commit leaves it so (`CommitValues`: the sources of its group go where the target's values are, and the others' do not move), and an undisturbed handler has read that source, which only a first-party candidate beats (`WinnerIsFirstParty`), however sure. The property alone is not inductive: it does not say that the source is still there |
| `RollsBackOnlyOnMergeAlways` | three invariants: rows have different URLs (`UrlsDiffer`), before any race what is listed has a source (`ListedHaveSources`), and an undisturbed handler has the rows of its opportunities as they are (`RowsAreRead`). The row that holds the URL, if it has a source, touches the candidate and is in its group; it is not the target, so the target is another row, which was gathered by a source and not by the URL |

The last one corrected the property: a first version did not allow for rows that a race leaves
listed and without a source, and TLC confirms that it is violated once a source changes its
URL between two versions. `Coherent` is inductive without any assumption on overlap, because a commit disturbs all
handlers that have read. `NoneAssumption` (the absent row is no row) and
`RecordAssumption` are the only assumptions.

**LifecycleProofs.** `TypeInv` is the types with `Control`, which ties a targeted job's record
to its handler and to what it has read. `ClosureIsFinalAlways`: every write of a status either
leaves an open row or, in the persist stage, keeps the status of the row it found, so no
order of sweep, signal and persist opens a closed one. `AmbiguousClosureIsFiledAlways`: the
job cannot complete from the state between the update and the insert, and the retry decides
by the status it finds, so it files the item another attempt owed. `NeverAssumption` says
that the absent row is no row.

For the outbox, `PublishedAreDispatched` is inductive with the relays' batches: what a relay
is about to mark it has dispatched. `RelayImplementsStream` maps the initial states and every
step of `Outbox` to one of `EventStream` or a stutter; its liveness is checked by `outbox`.

For exports, `SettledStaysAlways` rests on `ExportInv`: while no handler has gone on without
its lock, the one that holds the lock is the only one at work, its job is active, and once
the row is ready it is past its last update, with or without its answer; so the job is taken
again only to find the bundle built, or when the row is not ready, and the only write to a
ready row is the catch block of the handler that lost the answer. What it says of a deleted
row needs none of this: every write asks for a row that is there.

**AccountsProofs.** `TypeInv` is the types with `Control`: what a handler has read by each
await is still there. The argument is by growth (`Grows`): no step takes a row away, changes
its owner, or makes usable what was not, so a handler that is not moving needs no case
analysis, and each action has to show its own request only. On top of it:

| Theorem | Argument |
|---|---|
| `LateNeverServedAlways` | a late request at the first guard has a session that is not usable or a deleted user; sessions never become usable again and users never undeleted, so what the first guard lets through has a deleted user, which the second refuses |
| `LinkSignsInOnceAlways` | a consumed link belongs to one claiming request and then to one session (`LinksInStep`); only `ConsumeLink` starts a claim, on an unused link, which has neither |
| `FlowStaysAlways` | the sealed cookie of a browser holds a flow that began in it |
| `IdentityNeverMovesAlways` | the only writers of `accounts` are the two inserts, on an unbound identity, and deletion |
| `OwnSessionsOnlyAlways` | the same for `sessions` |
| `EmailFindsLivingUserAlways` | a row with an address is active |

`NamesAssumption` says that ids of different tables differ and that the absent id is none.

**RoleProfilesProofs.** `TypeInv` is the types with `Control`, what a handler of each operation
has in its hands at each await. `TypeOK` alone is not inductive: that a request writes only
profiles it was given follows from how it came to its await. A step of a handler is one of
three kinds (`StepKinds`): it goes on, succeeds or fails, and each kind treats requests, keys
and the store alike, so the theorems about keys need no case for every await.

| Theorem | Inductive invariant and argument |
|---|---|
| `ReplayIsOwnAlways` | `StoreInv`: while no request of a key has outrun its record, a running handler's key has its own record in flight and no other handler has the key (`Reserved`), so `complete()` gives a record the response of the request it was reserved for (`Answers`); the fingerprints are compared before a replay |
| `ActiveExistsAlways` | by itself over `TypeInv`: a write of the pointer finds its row present in the same statement, and the step that deletes a row clears the pointer to it |
| `CollectionsWholeAlways` | with `Rows` and `Locked`: an update holds the lock of its row from its first write to its commit, so the children it deletes are the ones it has read, and what it inserts is its own; the property alone says nothing of what a handler is about to insert |
| `KeyCreatesOnceAlways` | with `StoreInv`, as an expired record excuses its key, and `Taken` (the key of a profile still has its record, and no handler that is yet to insert has it) |
| `AloneActiveEligibleAlways` | with `Fine`, for each await what the one running handler has seen to; between pointing to a paused profile and resuming it the property does not hold, and `Fine` says that this handler is the one that will |

`ProfilesAssumption` says that ids are numbers, finitely many (a free one can be chosen, the
latest of the rest replaces the active one), and that the absent value is none of them.

**ExtractionProofs.** Over any number of jobs, processes, domains and versions, any site and
any lag of the clocks.

| Theorem | Inductive invariant and argument |
|---|---|
| `PacedAlways` | `PaidFor`: requests sent and handlers about to send are no more than the tokens given (`Holding` is counted, the jobs are finitely many), since a token given is held until its request or given up; `Account`: tokens given and parts left are at most a full bucket and what flows in up to the bucket's time and over what it was set back. The property alone is not inductive: it knows neither what is left in the bucket nor what time it has |
| `NewestArrivesAlways` | `Followed`: each stored version waits for its parse, has a normalization job, or is empty and in review; `Routed`: a completed normalization has left a dedup job under its id or a review item, and an id is that of the version its job carries; `LatestOnly`: unless one was overtaken, only the last version is on its way, and a completed job of it wrote the source row last; `Written`: dedup jobs and the source row are of candidates, and a last version that is surer than every other candidate, once linked, gave the record its values. Versions under one id have one fingerprint (`JobIdTellsPrints`), and what parses to nothing is no candidate (`EmptiesMakeNoCandidates`, from `Normalize`) |
| `ReviewedIsNoCandidate` | the same invariant |
| `EvidenceIsComplete` | from the definitions of `Facts` and `EvidenceOf`, for any parsed record |
| `FactsAreEvidencedAlways` | what a version of a site normalizes to is evidenced, connector by connector and for any site (`EveryVersionIsEvidenced`): what `parse` reads is the posting that `Own` singles out, because the search by URL or identifier finds the same place in the artifact that discovery found in the page (`FirstWith`, `Where`), and each field of the record is one the posting states (`States`, `AllAre`) |
| `LimitersAgreeAlways` | every `Acquire` of the shared script, at whatever a process's clock shows, leaves in the bucket what `Politeness!InMemory` leaves and answers alike (`AcquireAsOneProcess`); an unused bucket is a full one |
| `WaitIsLeastAlways` | asked again `k` later, the limiter lets through if and only if `k` is at least the wait it named: the rounded-up quotient is the least that suffices (`CeilingIsLeast`) |
| `CanonicalIsStableAlways` | the last segment that is not empty is the last one of the trimmed path too (`TrimTwice`) and of the path with a slash added (`TrimsItsEnd`); that there is a last one is `GreatestIsThere` |

`FetchAssumption` (finitely many jobs) and `LagAssumption` (one clock is behind the others the
most) are what `Paced` needs; `NewestArrives` needs none but that the first version is one and no version is the absent row.
`FactsAreEvidenced` needs that the absent value is no arrangement (`NoneAssumption`), that a
configuration has its fields (`ConfigAssumption`), that discovery finds a posting on
the first version of every kind of site (`ReferenceAssumption`), and that a page's further locations are a list
(`SiteAssumption`). The two about the limiter name a value `Unseen` for "no bucket", which is
no bucket. What sorting makes of a URL's parameters is left to TLC (`CanonicalIsStable`): the
library's `SortSeq` chooses a permutation, and the SMT backend does not take the empty string, so
the lemmas on paths are over any value for an empty segment.

**UserProofs.** What a user is shown and keeps.

| Theorem | Inductive invariant and argument |
|---|---|
| `RemovalHoldsAlways` | `ConnTypes`: a request between its read and its write has the row it was made for, and what it will write over it did not see removed; so a write that undoes a removal either saw the row before it or is the disconnect |
| `ErasedStaysErasedAlways` | `ErasedInv`: once the account is deleted with no request under way there is none again, because the guard lets none in, and the workers insert no connection. `DiscoveryTypes`: a job that may open a run knows its connection; `RunsBelong`: a run that is there has its connection, so with the connections gone a discovery that read one before finds no row to reference |
| `MarksAgreeAlways` | `AloneInv`: until something counts as `raced`, pending mutations are of different rows, all other rows agree, the snapshot of one that was not `mingled` with another agrees, and once answered a mutation knows what its row is to show (`Fixes`); a mutation that is not mingled is the only one pending; a load that nothing overlapped brings what the user has (`CleanLoad`) |
| `NewestCompleteAlways` | `CompleteInv`: pages list everything that matched all along up to their cursor, and nothing twice (`Whole`), and an answered page goes on where they end (`Continues`). The dates a list is sorted by never change (`Seen`), so rows do not move across the cursor |

The two about the list stand on `ListTypes` and on lemmas about the order: `Precedes` is strict
and transitive, a row's place is the number of rows ahead of it, so a page of the first places
holds exactly the rows that precede its last one (`PageRows`, `PageIsWhole`).
`ExplorerAssumption` says that ids are numbers, finitely many, that the tables a page may be
read from are typed, and that the absent value is neither a number nor a cursor.

Every invariant and every action property that a passing run checks is the subject of a
theorem. Only model-checked are the properties that need fairness, which the prover cannot
do: `FetchSettles`, `ParseHasOutcome`, `ExpiredReclaimed`, `FirstContactStored`,
`LapsedRowsExpire`, `DeliversAtLeastOnce` (its safety half is proved), `OutcomeIsShown` and
`StreamComesBack`. The named assumptions of the MC modules are evaluated, not proved, but for
the parts that `WaitIsLeastAlways`, `LimitersAgreeAlways`, `EvidenceIsComplete` and
`CanonicalIsStableAlways` state for all values: what a recursive definition (`Matching`, the
backoff and patterns of `Politeness`) computes for every input needs induction that the
provers do not have.

## 6. What the models say about the code

Two runs find a disagreement between the code and what it says of itself (`findings` in
`PROJECT.json`): `explorer_closing` shows that a page which starts in the region without a
closing date skips rows, although the comment at `A/opportunities/opportunity.repository.ts:487`
says that only later ids remain there; `ingest_shared` shows that cleanup of an expired
artifact deletes the body of another URL's live one when both served the same bytes, since the
object key is the hash alone (`W/storage/artifact-store.ts:68`), although Req 32.3 has every
artifact retained for its own period.

The following consequences can be read off the definitions; no run is kept for them.
Requirement numbers are those of `.kiro/specs/foundation-discovery-core/requirements.md`.

**Ingestion and deduplication**

- A retried fetch finds its own row, takes it for a replay and queues no parse
  (`W/stages/fetch.ts:110`); the design calls every stage idempotent and retryable
  (`design.md:131`). A page that changes and changes back is taken for unchanged the same way.
- Two fetches that loaded the same checkpoint overwrite each other's validators
  (`fetch.ts:75`): an extra download, never a lost posting.
- A fetch that runs during a pause completes without effect, and its record absorbs the
  discoveries after the resume (`fetch.ts:57`, `discovery.ts:75`).
- A row whose body went with another's keeps its URL from being stored again: the lookup finds
  the row and takes the next fetch for a replay (`fetch.ts:97`). A storage error in cleanup tombstones the row and leaves
  the object (`retention.ts:40`).
- The second `jsonld` posting of a page is answered 304 and lost
  (`P/connectors/src/connectors/jsonld-connector.ts:98`).
- Retried parses and normalizations insert their review items again (`parse.ts:53`).
- A record that changes and keeps its fingerprint collapses onto the retained dedup job
  (`normalize.ts:64`).
- A merge that moves the canonical URL violates the unique index on every retry
  (`dedup.ts:317`); a merge keeps the smaller id's aggregator values (`dedup.ts:336`); a record
  without `updatedAt` replaces stored values only by more confidence (`dedup.ts:94`), which its
  next version does not have: the change of a posting reaches its source row and its evidence
  and never the record's own values, and no revision is written (Req 39.1).
- Re-reading its own stored row makes a group of two, so every re-fetch adds a
  `duplicate_groups` row (`dedup.ts:363`). A Duplicate keeps `canonical_url` and has no
  sources, so a source known only by that URL can never be stored (`dedup.ts:353`).
- Overlapping transactions can leave a source on a Duplicate; no later step looks for it.
  An aggregator's transaction that read a row before a first-party record joined it writes its
  own values over that record's when it is surer than what it read (Req 36).
  Two that store two versions of one source under different URLs leave the first one's row
  listed without a source; another source's record of that URL is then rolled back on every
  retry, since a row without sources is in no group (`dedup.ts:272-290`).

**Extraction and fetching**

- A rate-limited fetch uses up an attempt of its job, although it is to be deferred and never
  dropped (Req 27.2); once failed, its record blocks the next add.
- The worker passes `SafeFetcher` no robots checker. `CachedRobotsChecker` would remember a
  failed robots.txt as allowed; `computeBackoffMs`, `InMemoryRateLimiter` and the connectors'
  `healthCheck` have no caller.
- The time-out is cleared when the headers arrive. A clock that is set back over-grants the
  bucket by exactly what it went back.
- Status codes are not looked at, so an error page is stored and parsed like a posting. A
  version that was stored before is not parsed again, and an older body may overtake a newer.
- `jsonld.fetch` falls back to the first node of the page when the reference is gone; nodes
  with identifiers and no URL share the page's URL and merge, and nodes with neither share one
  `dedupKey`. Sites that tell jobs apart by a `ref` or `source` parameter merge too.
- A complete posting of a Lever or Ashby board always goes to review (Req 33.1): `lever.ts`
  never sets `company`, and `ashby.ts` takes it from a configuration that the parse stage
  passes empty (`W/stages/parse.ts:119`).
- An unlisted Ashby job that was discovered is still fetched; a Greenhouse or Lever posting
  that is gone goes to review. The hints `board` and `slug` are never set, so `atsBoard` never
  identifies a posting. Requirements and skills are stored without evidence rows.
- "NSW, Australia" becomes the city NSW, a second region becomes a city, and "Perth, UK" is
  in Australia (`P/shared/src/location.ts:107-123`).

**Lifecycle, runs and connections**

- No connector sets a closure signal and nothing writes `Active`. A row that expired does not
  reopen when a later closing date arrives, and the expiry job's id ignores the signal.
- `diffCanonicalFields` compares a number or a date with its text in another form; a change of
  the description or the locations alone changes the hash and records no revision
  (`content-change.ts:65-88`).
- `finishRun` (`W/runs.ts:60`) and `recordConnectionHealthy` have no caller: runs stay
  `running` and health stays failing (Req 24.1). A job that stalled too often has attempts
  left, so it is not recorded as exhausted (`W/dlq.ts:63`); a retried scheduled discovery
  opens another run (`discovery.ts:50`).
- An update that overlaps a removal undoes it; disconnecting the OAuth account pauses removed
  connections, which makes them resumable; nothing sets `oauthAccountId`.
- `submitManualUrl` checks and then inserts, so two submissions make two connections.
- Requests in flight while an account is deleted can insert rows for the deleted user.

**Accounts, profiles, exports**

- `SessionService.rotate` has no caller.
- Overlapping requests can leave the active pointer on a paused profile (Req 10.2). Pausing
  the only profile clears the pointer, and neither resuming nor creating one sets it again.
- A duplicate reads the source's collections in separate statements and may copy a mixture;
  the comment at `role-profiles.service.ts:157-160` does not hold when the source is deleted
  in between. A failure of `getDetail` after the commit releases the key, so the retry creates
  again. Pruning the idempotency store (`idempotency-store.ts:101`) may drop a reservation
  that is still running: a duplicate then runs a second time, and the first one's
  `complete()` gives its response to the record of the second, so that a third is answered
  with another payload's response. Both properties excuse the keys this happened to
  (`excused`, `overran`).
- A page that saw `failed` on an attempt that is retried stops polling and does not show that
  the export became ready (Req 56.2); one whose first query and its retry fail has no data, so
  it never starts to poll (`privacy.ts:57-60`). When the update to `ready` is committed and its
  answer lost, the catch block flags the export `failed` and the retry builds it again
  (`export.ts:237-255`). A handler that outlived its lock can leave a completed
  export `processing`; a request whose enqueue fails leaves its row `pending`; a deletion
  between assembling and storing leaves a bundle without an owner.
- Events sent while a stream is down are lost and nothing is fetched again when it reopens;
  after the account is deleted the source reconnects forever. Nothing in the worker publishes
  to `cs:events`; the API publishes the `pending` of an export (`export.service.ts:51`).

**Web application**

- A rollback restores the whole cache as it was, so of two overlapping mutations the one that
  fails takes the other's patch with it (`opportunities.ts:158-166`).
- Submitting a URL refreshes only the opportunities, disconnecting only the privacy page;
  starting a run leaves the privacy page stale, and editing a profile leaves the opportunities.
- The profile editor cannot remove work rights and loses `isPrimary` on any save
  (`profile-form.tsx:69,154`); it is initialised once from the cache, so a save overwrites what
  changed since. A pasted "a,b" becomes one chip. A failed pause forgets the replacement that
  was chosen (`select-active-dialog.tsx:45-47`).
- The wizard's label is shown on the privacy page and not on the sources page; `jsonld` URLs
  are not checked before they are sent; going back keeps the slug of another type; Run is
  offered on a paused source, which the worker skips. The privacy page calls a source that
  was never checked healthy.
- Dialogs of sessions, sources and privacy can be dismissed while their mutation is pending
  and opened for another target, which the late success then closes; profile cards forbid it.
  Success of a data deletion clears the categories ticked meanwhile, and the phrase is
  accepted in lower case although the hint says exactly.
- The operations page lists a parser that threw twice, shows a record with neither title nor
  URL as `parse_failed` (`admin.service.ts:164-174`), and does not list what normalization
  rejected, which writes no `parser_runs` failure (Req 48.1). Its `lastCheckedAt` is the row's
  `updatedAt`.

## 7. Not modelled

- The SSRF guard and the HTML sanitizer: functions of one address or one document without
  state, with property tests beside them; what matters about them is character level.
- The database schema, contracts, configuration, observability and the component library:
  declarations and presentation. Unique indexes, cascades and defaults appear in the models
  whose handlers rely on them.
- Parts of modelled components: the child rows, evidence, revisions and groups written in the
  dedup transaction, the detail query of an opportunity, the counters of a run, the contents
  of an export bundle, the health probes, and the pages without state (marketing, layout,
  navigation). `PROJECT.json` says for each component what is missing.
- Backoff delays, priorities and rate limits of queues: they decide when a job runs, and the
  models let it run at any time.
- Power loss of Postgres, Redis or the object store: what they acknowledged is kept.
