-------------------------- MODULE IngestionProofs ---------------------------
(***************************************************************************)
(* Safety of Ingestion for any set of postings, URLs, contents and bodies, *)
(* any retry limits and any bounds on the environment.                     *)
(*                                                                         *)
(* TypeInv is the base: types, and where each handler stands relative to   *)
(* its job record and to the table.  The other invariants are proved one   *)
(* by one on top of it.                                                    *)
(***************************************************************************)
EXTENDS Ingestion, JobQueueProofs

\* A job has a handler only while it is active, and can always be retried or
\* failed; a handler past its request knows a content, past its insert its
\* artifact is a row; only stored artifacts are queued; only due rows are cleaned.
Control ==
    /\ \A r \in Refs :
        /\ JobOK(fetchJob[r])
        /\ fetchPc[r] # "idle" => fetchJob[r].status = "active"
        /\ fetchPc[r] \notin {"idle", "load", "request"} => fetchSeen[r] \in Contents
        /\ fetchPc[r] \in {"save", "enqueue"} => ArtifactOf(r, fetchSeen[r]) \in rows
    /\ \A a \in Artifacts :
        /\ JobOK(parseJob[a])
        /\ parsePc[a] # "idle" => parseJob[a].status = "active"
        /\ parseJob[a].status # "none" => a \in rows
    /\ cleaner.batch \subseteq due /\ cleaner.cur \subseteq due

TypeInv == TypeOK /\ Control

LEMMA ArtifactType ==
    ASSUME NEW r \in Refs, NEW c \in Contents
    PROVE  ArtifactOf(r, c) \in Artifacts /\ BodyOf(ArtifactOf(r, c)) \in Bodies
BY SourceAssumption DEF ArtifactOf, Artifacts, BodyOf

LEMMA SpendType ==
    ASSUME NEW kind \in Kinds, TypeOK, Spend(kind)
    PROVE  budget' \in [Kinds -> Nat]
BY DEF TypeOK, Spend

LEMMA TypeInit == Init => TypeInv
<1> SUFFICES ASSUME Init PROVE TypeInv
  OBVIOUS
<1>1. JobOK(NoJob) /\ NoJob.status = "none"
  BY NewJobOK DEF NoJob, JobStatus, NewJob
<1>2. TypeOK
  <2>1. NoJob \in Job
    BY <1>1 DEF JobOK
  <2>2. discoverer \in Discoverer /\ cleaner \in Cleaner
    BY DEF Init, IdleDiscoverer, IdleCleaner, Discoverer, Cleaner
  <2>3. QED
    BY <2>1, <2>2, BoundAssumption DEF Init, TypeOK, Etags, FetchPcs, ParsePcs
<1>3. Control
  BY <1>1 DEF Init, Control, IdleCleaner
<1>4. QED
  BY <1>2, <1>3 DEF TypeInv

LEMMA TypeFetch ==
    ASSUME TypeInv, NEW r \in Refs, FetchStep(r) \/ FetchInterrupted(r)
    PROVE  TypeInv'
<1> USE DEF TypeInv, envVars, artifactVars, fetchVars, parseVars, FetchGoto
<1> DEFINE a == ArtifactOf(r, fetchSeen[r])
<1>1. fetchCk[r] \in Etags /\ [u \in Urls |-> NoContent] \in Etags
  BY DEF TypeOK, Etags
<1>2. JobOK(Completed(fetchJob[r])) /\ Completed(fetchJob[r]) \in Job
  BY DoneOK DEF JobOK
<1>3. CASE FetchStart(r)
  <2>1. JobOK(Taken(fetchJob[r])) /\ Taken(fetchJob[r]) \in Job
            /\ Taken(fetchJob[r]).status = "active"
    BY <1>3, TakenOK DEF Control, FetchStart, JobOK
  <2>2. fetchJob' \in [Refs -> Job] /\ fetchCk' \in [Refs -> Etags]
    BY <1>1, <1>2, <1>3, <2>1 DEF FetchStart, FetchReturns, TypeOK
  <2>3. TypeOK'
    BY <1>3, <2>2 DEF FetchStart, FetchReturns, TypeOK, FetchPcs
  <2>4. Control'
    BY <1>2, <1>3, <2>1 DEF FetchStart, FetchReturns, TypeOK, Control
  <2>5. QED
    BY <2>3, <2>4
<1>4. CASE FetchLoad(r)
  BY <1>4 DEF FetchLoad, TypeOK, Control, FetchPcs
<1>5. CASE FetchRequest(r)
  <2>1. page[PageUrl[r]] \in Contents
    BY SourceAssumption DEF TypeOK
  <2>2. QED
    BY <1>5, <2>1 DEF FetchRequest, TypeOK, Control, FetchPcs
<1>6. CASE FetchLookup(r)
  BY <1>6 DEF FetchLookup, TypeOK, Control, FetchPcs
<1>7. CASE FetchPut(r)
  <2>1. BodyOf(a) \in Bodies
    BY <1>7, ArtifactType DEF FetchPut, Control
  <2>2. QED
    BY <1>7, <2>1 DEF FetchPut, TypeOK, Control, FetchPcs
<1>8. CASE FetchInsert(r)
  <2>1. a \in Artifacts
    BY <1>8, ArtifactType DEF FetchInsert, Control
  <2>2. TypeOK'
    BY <1>8, <2>1 DEF FetchInsert, TypeOK, FetchPcs
  <2>3. Control'
    BY <1>8 DEF FetchInsert, TypeOK, Control
  <2>4. QED
    BY <2>2, <2>3
<1>9. CASE FetchSave(r)
  <2>1. checkpoint' \in Etags
    <3>1. fetchSeen[r] \in Contents /\ RefUrl[r] \in Urls
      BY <1>9, SourceAssumption DEF FetchSave, Control
    <3>2. QED
      BY <1>1, <1>9, <3>1 DEF FetchSave, Advanced, Etags
  <2>2. fetchJob' \in [Refs -> Job] /\ fetchCk' \in [Refs -> Etags]
    BY <1>1, <1>2, <1>9 DEF FetchSave, FetchReturns, TypeOK
  <2>3. TypeOK'
    BY <1>9, <2>1, <2>2 DEF FetchSave, FetchReturns, TypeOK, FetchPcs
  <2>4. Control'
    BY <1>2, <1>9 DEF FetchSave, FetchReturns, TypeOK, Control
  <2>5. QED
    BY <2>3, <2>4
<1>10. CASE FetchEnqueue(r)
  <2>1. a \in rows /\ a \in Artifacts
    BY <1>10 DEF FetchEnqueue, TypeOK, Control
  <2>2. JobOK(Added(parseJob[a])) /\ Added(parseJob[a]) \in Job
    BY <2>1, AddedOK DEF Control, JobOK
  <2>3. parseJob[a].status = "active" => Added(parseJob[a]) = parseJob[a]
    BY DEF Added
  <2>4. fetchJob' \in [Refs -> Job] /\ fetchCk' \in [Refs -> Etags]
    BY <1>1, <1>2, <1>10 DEF FetchEnqueue, FetchReturns, TypeOK
  <2>5. parseJob' \in [Artifacts -> Job]
    BY <1>10, <2>1, <2>2 DEF FetchEnqueue, TypeOK
  <2>6. TypeOK'
    BY <1>10, <2>4, <2>5 DEF FetchEnqueue, FetchReturns, TypeOK, FetchPcs
  <2>7. \A q \in Refs :
          /\ JobOK(fetchJob'[q])
          /\ fetchPc'[q] # "idle" => fetchJob'[q].status = "active"
          /\ fetchPc'[q] \notin {"idle", "load", "request"} => fetchSeen'[q] \in Contents
          /\ fetchPc'[q] \in {"save", "enqueue"} => ArtifactOf(q, fetchSeen'[q]) \in rows'
    BY <1>2, <1>10 DEF FetchEnqueue, FetchReturns, TypeOK, Control
  <2>8. \A b \in Artifacts :
          /\ JobOK(parseJob'[b])
          /\ parsePc'[b] # "idle" => parseJob'[b].status = "active"
          /\ parseJob'[b].status # "none" => b \in rows'
    BY <1>10, <2>1, <2>2, <2>3 DEF FetchEnqueue, TypeOK, Control
  <2>9. QED
    BY <1>10, <2>6, <2>7, <2>8 DEF FetchEnqueue, Control
<1>11. CASE FetchInterrupted(r)
  <2>1. budget' \in [Kinds -> Nat]
    BY <1>11, SpendType DEF FetchInterrupted, Kinds
  <2>2. fetchJob[r].status = "active" /\ JobOK(fetchJob[r])
    BY <1>11 DEF FetchInterrupted, Control
  <2>3. JobOK(fetchJob'[r]) /\ fetchJob'[r] \in Job
          /\ \A q \in Refs \ {r} : fetchJob'[q] = fetchJob[q]
    BY <1>11, <2>2, ThrownOK, StalledOK DEF FetchInterrupted, TypeOK, JobOK
  <2>4. fetchJob' \in [Refs -> Job] /\ fetchCk' \in [Refs -> Etags]
    BY <1>1, <1>11, <2>3 DEF FetchInterrupted, TypeOK
  <2>5. dropped' \subseteq rows
    BY <1>11 DEF FetchInterrupted, TypeOK, Control
  <2>6. TypeOK'
    BY <1>11, <2>1, <2>4, <2>5 DEF FetchInterrupted, TypeOK, FetchPcs
  <2>7. Control'
    BY <1>11, <2>3 DEF FetchInterrupted, TypeOK, Control
  <2>8. QED
    BY <2>6, <2>7
<1>12. QED
  BY <1>3, <1>4, <1>5, <1>6, <1>7, <1>8, <1>9, <1>10, <1>11 DEF FetchStep

LEMMA TypeParse ==
    ASSUME TypeInv, NEW a \in Artifacts, ParseStep(a) \/ ParseInterrupted(a)
    PROVE  TypeInv'
<1> USE DEF TypeInv, envVars, artifactVars, fetchVars, parseVars, ParseGoto
<1>1. JobOK(Completed(parseJob[a])) /\ Completed(parseJob[a]) \in Job
        /\ Completed(parseJob[a]).status = "completed"
  BY DoneOK DEF JobOK
<1>2. JobOK(parseJob[a])
  BY DEF Control
<1>3. CASE ParseStart(a)
  <2>1. JobOK(Taken(parseJob[a])) /\ Taken(parseJob[a]) \in Job
          /\ Taken(parseJob[a]).status = "active"
    BY <1>2, <1>3, TakenOK DEF ParseStart, JobOK
  <2>2. a \in rows
    BY <1>3 DEF ParseStart, Control
  <2>3. parseJob' \in [Artifacts -> Job]
    BY <1>1, <1>3, <2>1 DEF ParseStart, ParseReturns, TypeOK
  <2>4. TypeOK'
    BY <1>3, <2>3 DEF ParseStart, ParseReturns, TypeOK, ParsePcs
  <2>5. Control'
    BY <1>1, <1>3, <2>1, <2>2 DEF ParseStart, ParseReturns, TypeOK, Control
  <2>6. QED
    BY <2>4, <2>5
<1>4. CASE ParseGet(a)
  <2>1. a \in rows /\ parseJob[a].status = "active"
    BY <1>4 DEF ParseGet, Control
  <2>2. JobOK(Thrown(parseJob[a])) /\ Thrown(parseJob[a]) \in Job
    BY <1>2, <2>1, ThrownOK DEF JobOK
  <2>3. TypeOK'
    BY <1>4, <2>2 DEF ParseGet, TypeOK, ParsePcs
  <2>4. Control'
    BY <1>4, <2>1, <2>2 DEF ParseGet, TypeOK, Control
  <2>5. QED
    BY <2>3, <2>4
<1>5. CASE ParseReview(a)
  BY <1>5 DEF ParseReview, TypeOK, Control, ParsePcs
<1>6. CASE ParseHandOver(a)
  <2>1. a \in rows /\ a[1] \in Urls /\ BodyOf(a) \in Bodies
    BY <1>6 DEF ParseHandOver, Control, Artifacts, BodyOf
  <2>2. TypeOK'
    BY <1>6, <2>1 DEF ParseHandOver, TypeOK, ParsePcs
  <2>3. Control'
    BY <1>6 DEF ParseHandOver, TypeOK, Control
  <2>4. QED
    BY <2>2, <2>3
<1>7. CASE ParseFinish(a)
  <2>1. a \in rows
    BY <1>7 DEF ParseFinish, Control
  <2>2. TypeOK'
    BY <1>1, <1>7 DEF ParseFinish, ParseReturns, TypeOK, ParsePcs
  <2>3. Control'
    BY <1>1, <1>7, <2>1 DEF ParseFinish, ParseReturns, TypeOK, Control
  <2>4. QED
    BY <2>2, <2>3
<1>8. CASE ParseInterrupted(a)
  <2>1. budget' \in [Kinds -> Nat]
    BY <1>8, SpendType DEF ParseInterrupted, Kinds
  <2>2. a \in rows /\ parseJob[a].status = "active"
    BY <1>8 DEF ParseInterrupted, Control
  <2>3. JobOK(parseJob'[a]) /\ parseJob'[a] \in Job
          /\ \A b \in Artifacts \ {a} : parseJob'[b] = parseJob[b]
    BY <1>2, <1>8, <2>2, ThrownOK, StalledOK DEF ParseInterrupted, TypeOK, JobOK
  <2>4. parseJob' \in [Artifacts -> Job]
    BY <1>8, <2>3 DEF ParseInterrupted, TypeOK
  <2>5. TypeOK'
    BY <1>8, <2>1, <2>4 DEF ParseInterrupted, TypeOK, ParsePcs
  <2>6. Control'
    BY <1>8, <2>2, <2>3 DEF ParseInterrupted, TypeOK, Control
  <2>7. QED
    BY <2>5, <2>6
<1>9. QED
  BY <1>3, <1>4, <1>5, <1>6, <1>7, <1>8 DEF ParseStep

LEMMA TypeClean ==
    ASSUME TypeInv, CleanStep \/ RetentionInterrupted
    PROVE  TypeInv'
<1> USE DEF TypeInv, envVars, artifactVars, fetchVars, parseVars
<1>1. CASE RetentionSelect
  <2>1. PICK batch \in SUBSET (due \ deleted) : \E b \in batch :
            cleaner' = [pc |-> "delete", batch |-> batch \ {b}, cur |-> {b}]
    BY <1>1 DEF RetentionSelect, Batches, Reclaimable
  <2>2. cleaner' \in Cleaner /\ cleaner'.batch \subseteq due /\ cleaner'.cur \subseteq due
    BY <2>1 DEF Cleaner, TypeOK
  <2>3. QED
    BY <1>1, <2>2 DEF RetentionSelect, TypeOK, Control
<1>2. ASSUME NEW a \in Artifacts, RetentionDelete(a) PROVE TypeInv'
  <2>1. cleaner' \in Cleaner /\ cleaner'.batch = cleaner.batch /\ cleaner'.cur = cleaner.cur
    BY <1>2 DEF RetentionDelete, Cleaner, TypeOK
  <2>2. objects' \subseteq Bodies
    BY <1>2 DEF RetentionDelete, TypeOK
  <2>3. QED
    BY <1>2, <2>1, <2>2 DEF RetentionDelete, TypeOK, Control
<1>3. ASSUME NEW a \in Artifacts, RetentionTombstone(a) PROVE TypeInv'
  <2>1. a \in due
    BY <1>3 DEF RetentionTombstone, Control
  <2>2. cleaner' \in Cleaner /\ cleaner'.batch \subseteq due /\ cleaner'.cur \subseteq due
    BY <1>3 DEF RetentionTombstone, Cleaner, IdleCleaner, TypeOK, Control
  <2>3. QED
    BY <1>3, <2>1, <2>2 DEF RetentionTombstone, TypeOK, Control
<1>4. CASE RetentionInterrupted
  <2>1. cleaner' \in Cleaner /\ cleaner'.batch \subseteq due /\ cleaner'.cur \subseteq due
    BY <1>4 DEF RetentionInterrupted, Cleaner, IdleCleaner
  <2>2. QED
    BY <1>4, <2>1, SpendType DEF RetentionInterrupted, TypeOK, Control, Kinds
<1>5. QED
  BY <1>1, <1>2, <1>3, <1>4 DEF CleanStep

LEMMA TypeStep == TypeInv /\ [Next]_vars => TypeInv'
<1> SUFFICES ASSUME TypeInv, [Next]_vars PROVE TypeInv'
  OBVIOUS
<1> USE DEF TypeInv, envVars, artifactVars, fetchVars, parseVars
<1>1. ASSUME NEW u \in Urls, PageChanges(u) PROVE TypeInv'
  BY <1>1, SpendType DEF PageChanges, TypeOK, Control, Kinds
<1>2. CASE ToggleConnection
  BY <1>2, SpendType DEF ToggleConnection, TypeOK, Control, Kinds
<1>3. ASSUME NEW a \in Artifacts, FallsDue(a) PROVE TypeInv'
  BY <1>3, SpendType DEF FallsDue, TypeOK, Control, Kinds
<1>4. ASSUME NEW a \in Artifacts, EvictParseJob(a) PROVE TypeInv'
  <2>1. JobOK(Evicted(parseJob[a])) /\ Evicted(parseJob[a]) \in Job
    BY DoneOK DEF JobOK
  <2>2. parsePc[a] = "idle" /\ a \in rows
    BY <1>4 DEF EvictParseJob, Control
  <2>3. QED
    BY <1>4, <2>1, <2>2, SpendType DEF EvictParseJob, TypeOK, Control, Kinds
<1>5. CASE DiscoveryStart \/ DiscoveryLoad \/ DiscoveryList
  <2>1. discoverer' \in Discoverer
    <3>1. [u \in ListUrls |-> checkpoint[u]] \in [ListUrls -> Contents \union {NoContent}]
      BY SourceAssumption DEF TypeOK, Etags
    <3>2. CASE DiscoveryStart
      BY <3>2 DEF DiscoveryStart, TypeOK, Discoverer
    <3>3. CASE DiscoveryLoad
      BY <3>1, <3>3 DEF DiscoveryLoad, TypeOK, Discoverer
    <3>4. CASE DiscoveryList
      BY <3>4 DEF DiscoveryList, TypeOK, Discoverer, IdleDiscoverer
    <3>5. QED
      BY <1>5, <3>2, <3>3, <3>4
  <2>2. QED
    BY <1>5, <2>1 DEF DiscoveryStart, DiscoveryLoad, DiscoveryList, TypeOK, Control
<1>6. CASE DiscoveryAbort
  <2>1. discoverer' \in Discoverer
    BY <1>6 DEF DiscoveryAbort, Discoverer, IdleDiscoverer
  <2>2. QED
    BY <1>6, <2>1, SpendType DEF DiscoveryAbort, TypeOK, Control, Kinds
<1>7. ASSUME NEW r \in Refs, DiscoveryYield(r) PROVE TypeInv'
  <2>1. discoverer' \in Discoverer
    BY <1>7 DEF DiscoveryYield, TypeOK, Discoverer, IdleDiscoverer
  <2>2. JobOK(Added(fetchJob[r])) /\ Added(fetchJob[r]) \in Job
    BY AddedOK DEF Control, JobOK
  <2>3. fetchJob[r].status = "active" => Added(fetchJob[r]) = fetchJob[r]
    BY DEF Added
  <2>4. QED
    BY <1>7, <2>1, <2>2, <2>3 DEF DiscoveryYield, TypeOK, Control
<1>8. ASSUME NEW r \in Refs, EvictFetchJob(r) PROVE TypeInv'
  <2>1. JobOK(Evicted(fetchJob[r])) /\ Evicted(fetchJob[r]) \in Job
    BY DoneOK DEF JobOK
  <2>2. fetchPc[r] = "idle"
    BY <1>8 DEF EvictFetchJob, Control
  <2>3. QED
    BY <1>8, <2>1, <2>2, SpendType DEF EvictFetchJob, TypeOK, Control, Kinds
<1>9. ASSUME NEW r \in Refs, FetchStep(r) \/ FetchInterrupted(r) PROVE TypeInv'
  BY <1>9, TypeFetch
<1>10. ASSUME NEW a \in Artifacts, ParseStep(a) \/ ParseInterrupted(a) PROVE TypeInv'
  BY <1>10, TypeParse
<1>11. CASE CleanStep \/ RetentionInterrupted
  BY <1>11, TypeClean
<1>12. CASE UNCHANGED vars
  BY <1>12 DEF vars, TypeOK, Control
<1>13. QED
  BY <1>1, <1>2, <1>3, <1>4, <1>5, <1>6, <1>7, <1>8, <1>9, <1>10, <1>11, <1>12 DEF Next

\* The system keeps its types, and retries, queues and rows stay in step.
THEOREM TypeCorrect == Spec => []TypeOK
<1>1. Spec => []TypeInv
  BY TypeInit, TypeStep, PTL DEF Spec
<1>2. TypeInv => TypeOK
  BY DEF TypeInv
<1>3. QED
  BY <1>1, <1>2, PTL

-----------------------------------------------------------------------------
(***************************************************************************)
(* The checkpoint.  Validators are read, carried through a fetch and       *)
(* written back whole, so the invariant speaks of every copy of the map:   *)
(* each validator in it is vouched for by a row.  Rows never go away, so a *)
(* stale copy is as good as a fresh one.                                   *)
(***************************************************************************)
Vouched(ck, stored) ==
    \A u \in Urls : ck[u] # NoContent =>
        \E r \in Refs : RefUrl[r] = u /\ ArtifactOf(r, ck[u]) \in stored

\* The content a handler is about to record has a row for its URL.
SeenStored(r) ==
    \E q \in Refs : RefUrl[q] = RefUrl[r] /\ ArtifactOf(q, fetchSeen[r]) \in rows

CheckpointInv ==
    /\ Vouched(checkpoint, rows)
    /\ \A r \in Refs : Vouched(fetchCk[r], rows)
    /\ \A r \in Refs : fetchPc[r] = "saveSkip" => SeenStored(r)

LEMMA RowsGrow ==
    ASSUME [Next]_vars
    PROVE  rows \subseteq rows'
<1> USE DEF envVars, artifactVars, fetchVars, parseVars
<1>1. ASSUME NEW r \in Refs, FetchStep(r) \/ FetchInterrupted(r) PROVE rows \subseteq rows'
  BY <1>1 DEF FetchStep, FetchInterrupted, FetchStart, FetchLoad, FetchRequest, FetchLookup,
     FetchPut, FetchInsert, FetchSave, FetchEnqueue
<1>2. ASSUME NEW a \in Artifacts, ParseStep(a) \/ ParseInterrupted(a) PROVE rows' = rows
  BY <1>2 DEF ParseStep, ParseInterrupted, ParseStart, ParseGet, ParseReview, ParseHandOver,
     ParseFinish
<1>3. CASE CleanStep \/ RetentionInterrupted
  BY <1>3 DEF CleanStep, RetentionInterrupted, RetentionSelect, RetentionDelete,
     RetentionTombstone
<1>4. QED
  BY <1>1, <1>2, <1>3 DEF Next, vars, PageChanges, ToggleConnection, FallsDue, EvictParseJob,
     EvictFetchJob, DiscoveryStart, DiscoveryLoad, DiscoveryList, DiscoveryAbort, DiscoveryYield

\* Only fetch handlers touch the checkpoint and their own copies of it.
LEMMA OnlyFetchSaves ==
    ASSUME [Next]_vars, \A r \in Refs : ~FetchStep(r) /\ ~FetchInterrupted(r)
    PROVE  UNCHANGED <<checkpoint, fetchCk, fetchPc, fetchSeen>>
<1> USE DEF envVars, artifactVars, fetchVars, parseVars
<1>2. ASSUME NEW a \in Artifacts, ParseStep(a) \/ ParseInterrupted(a)
      PROVE UNCHANGED <<checkpoint, fetchCk, fetchPc, fetchSeen>>
  BY <1>2 DEF ParseStep, ParseInterrupted, ParseStart, ParseGet, ParseReview, ParseHandOver,
     ParseFinish
<1>3. CASE CleanStep \/ RetentionInterrupted
  BY <1>3 DEF CleanStep, RetentionInterrupted, RetentionSelect, RetentionDelete,
     RetentionTombstone
<1>4. QED
  BY <1>2, <1>3 DEF Next, vars, PageChanges, ToggleConnection, FallsDue, EvictParseJob,
     EvictFetchJob, DiscoveryStart, DiscoveryLoad, DiscoveryList, DiscoveryAbort, DiscoveryYield

LEMMA CheckpointStep ==
    ASSUME RefUrl = PageUrl, TypeInv, CheckpointInv, [Next]_vars
    PROVE  CheckpointInv'
<1> USE DEF CheckpointInv
<1>1. rows \subseteq rows'
  BY RowsGrow
<1>2. \A ck : Vouched(ck, rows) => Vouched(ck, rows')
  BY <1>1 DEF Vouched
<1>3. \A r, q \in Refs : \A c : ArtifactOf(q, c) \in rows => ArtifactOf(q, c) \in rows'
  BY <1>1
<1>4. ASSUME NEW r \in Refs, FetchStep(r) \/ FetchInterrupted(r)
      PROVE  CheckpointInv'
  <2> USE DEF FetchGoto, TypeInv
  <2>1. Vouched([u \in Urls |-> NoContent], rows')
    BY DEF Vouched
  <2>2. CASE FetchRequest(r)
    <3>1. fetchPc'[r] = "saveSkip" => SeenStored(r)'
      <4>1. SUFFICES ASSUME NotModified(r) PROVE SeenStored(r)'
        BY <2>2 DEF FetchRequest, TypeOK
      <4>2. RefUrl[r] \in Urls /\ fetchCk[r][RefUrl[r]] = page[RefUrl[r]]
              /\ page[RefUrl[r]] # NoContent
        BY <4>1, SourceAssumption DEF NotModified, TypeOK
      <4>3. PICK q \in Refs : RefUrl[q] = RefUrl[r] /\ ArtifactOf(q, page[RefUrl[r]]) \in rows
        BY <4>2 DEF Vouched
      <4>4. fetchSeen'[r] = page[RefUrl[r]]
        BY <2>2 DEF FetchRequest, TypeOK
      <4>5. QED
        BY <1>1, <4>3, <4>4 DEF SeenStored
    <3>2. \A q \in Refs \ {r} : fetchPc'[q] = fetchPc[q] /\ fetchSeen'[q] = fetchSeen[q]
      BY <2>2 DEF FetchRequest, TypeOK
    <3>3. \A q \in Refs : fetchPc'[q] = "saveSkip" => SeenStored(q)'
      BY <1>1, <3>1, <3>2 DEF SeenStored
    <3>4. QED
      BY <1>2, <2>2, <3>3 DEF FetchRequest
  <2>3. CASE FetchLookup(r)
    <3>1. \A q \in Refs : fetchPc'[q] = "saveSkip" => fetchPc[q] = "saveSkip" \/ SeenStored(q)
      BY <2>3 DEF FetchLookup, AlreadyStored, SeenStored, TypeOK
    <3>2. QED
      BY <1>1, <1>2, <2>3, <3>1 DEF FetchLookup, SeenStored, artifactVars
  <2>4. CASE FetchSave(r)
    <3>1. SeenStored(r)
      BY <2>4 DEF FetchSave, SeenStored, Control
    <3>2. Vouched(checkpoint', rows')
      <4>1. SUFFICES ASSUME NEW u \in Urls, checkpoint'[u] # NoContent
                     PROVE  \E q \in Refs : RefUrl[q] = u /\ ArtifactOf(q, checkpoint'[u]) \in rows'
        BY DEF Vouched
      <4>2. CASE u = RefUrl[r]
        <5>1. checkpoint'[u] = fetchSeen[r]
          BY <2>4, <4>2 DEF FetchSave, Advanced, TypeOK, Etags
        <5>2. QED
          BY <1>1, <3>1, <4>2, <5>1 DEF SeenStored
      <4>3. CASE u # RefUrl[r]
        <5>1. checkpoint'[u] = fetchCk[r][u]
          BY <2>4, <4>3 DEF FetchSave, Advanced, TypeOK, Etags
        <5>2. QED
          BY <1>2, <4>1, <5>1 DEF Vouched
      <4>4. QED
        BY <4>2, <4>3
    <3>3. \A q \in Refs : fetchPc'[q] = "saveSkip" => fetchPc[q] = "saveSkip"
      BY <2>4 DEF FetchSave, FetchReturns, TypeOK
    <3>4. \A q \in Refs : fetchCk'[q] = fetchCk[q] \/ fetchCk'[q] = [u \in Urls |-> NoContent]
      BY <2>4 DEF FetchSave, FetchReturns, TypeOK
    <3>5. \A q \in Refs : fetchPc'[q] = "saveSkip" => SeenStored(q)'
      BY <1>1, <2>4, <3>3 DEF FetchSave, SeenStored
    <3>6. QED
      BY <1>2, <2>1, <3>2, <3>4, <3>5
  <2>5. CASE FetchStart(r) \/ FetchLoad(r) \/ FetchPut(r) \/ FetchInsert(r) \/ FetchEnqueue(r)
               \/ FetchInterrupted(r)
    <3>1. checkpoint' = checkpoint
      BY <2>5 DEF FetchStart, FetchLoad, FetchPut, FetchInsert, FetchEnqueue, FetchInterrupted
    <3>2. \A q \in Refs : \/ fetchCk'[q] = fetchCk[q]
                          \/ fetchCk'[q] = checkpoint
                          \/ fetchCk'[q] = [u \in Urls |-> NoContent]
      BY <2>5 DEF FetchStart, FetchLoad, FetchPut, FetchInsert, FetchEnqueue, FetchInterrupted,
         FetchReturns, TypeOK
    <3>3. \A q \in Refs : fetchPc'[q] = "saveSkip" =>
                            fetchPc[q] = "saveSkip" /\ fetchSeen'[q] = fetchSeen[q]
      BY <2>5 DEF FetchStart, FetchLoad, FetchPut, FetchInsert, FetchEnqueue, FetchInterrupted,
         FetchReturns, TypeOK
    <3>4. \A q \in Refs : fetchPc'[q] = "saveSkip" => SeenStored(q)'
      BY <1>1, <3>3 DEF SeenStored
    <3>5. QED
      BY <1>2, <2>1, <3>1, <3>2, <3>4
  <2>6. QED
    BY <1>4, <2>2, <2>3, <2>4, <2>5 DEF FetchStep
<1>5. CASE \A r \in Refs : ~FetchStep(r) /\ ~FetchInterrupted(r)
  <2>1. UNCHANGED <<checkpoint, fetchCk, fetchPc, fetchSeen>>
    BY <1>5, OnlyFetchSaves
  <2>2. \A r \in Refs : SeenStored(r) => SeenStored(r)'
    BY <1>1, <2>1 DEF SeenStored
  <2>3. QED
    BY <1>2, <2>1, <2>2
<1>6. QED
  BY <1>4, <1>5

LEMMA CheckpointAlways ==
    ASSUME RefUrl = PageUrl
    PROVE  Spec => [](TypeInv /\ CheckpointInv)
<1>1. Init => TypeInv /\ CheckpointInv
  BY TypeInit DEF Init, CheckpointInv, Vouched
<1>2. TypeInv /\ CheckpointInv /\ [Next]_vars => (TypeInv /\ CheckpointInv)'
  BY TypeStep, CheckpointStep
<1>3. QED
  BY <1>1, <1>2, PTL DEF Spec

\* No validator is in the checkpoint without an artifact of that content, for
\* connectors that request each posting at its ref.url (all but jsonld).
THEOREM CheckpointIsBacked ==
    ASSUME RefUrl = PageUrl
    PROVE  Spec => []CheckpointBacked
<1>1. CheckpointInv => CheckpointBacked
  BY DEF CheckpointInv, CheckpointBacked, Vouched
<1>2. QED
  BY <1>1, CheckpointAlways, PTL

\* When postings moreover have URLs of their own, no 304 and no replay ever
\* skips a posting whose artifact was not stored.
THEOREM ShortCutsAreSound ==
    ASSUME RefUrl = PageUrl, \A q, r \in Refs : RefUrl[q] = RefUrl[r] => q = r
    PROVE  Spec => []ShortCutMeansStored
<1>1. CheckpointInv => ShortCutMeansStored
  BY DEF CheckpointInv, SeenStored, ShortCutMeansStored
<1>2. QED
  BY <1>1, CheckpointAlways, PTL

-----------------------------------------------------------------------------
(***************************************************************************)
(* The artifacts and their bodies.                                         *)
(***************************************************************************)
LEMMA DeliveryStep ==
    ASSUME TypeInv, OnlyInterruptionStrands, [Next]_vars
    PROVE  OnlyInterruptionStrands'
<1> USE DEF TypeInv, envVars, artifactVars, fetchVars, parseVars, OnlyInterruptionStrands
<1>1. ASSUME NEW r \in Refs, FetchStep(r) \/ FetchInterrupted(r)
      PROVE  OnlyInterruptionStrands'
  <2> USE DEF FetchGoto, FetchReturns, Delivers
  <2>1. \A q \in Refs \ {r} : fetchPc'[q] = fetchPc[q] /\ fetchSeen'[q] = fetchSeen[q]
    BY <1>1 DEF FetchStep, FetchInterrupted, FetchStart, FetchLoad, FetchRequest, FetchLookup,
       FetchPut, FetchInsert, FetchSave, FetchEnqueue, TypeOK
  <2>2. CASE FetchInsert(r)
    BY <2>1, <2>2 DEF FetchInsert, TypeOK
  <2>3. CASE FetchEnqueue(r)
    <3>1. \A a \in Artifacts : a # ArtifactOf(r, fetchSeen[r]) =>
              (parseJob'[a] = parseJob[a] /\ ~Delivers(r, a))
      BY <2>3 DEF FetchEnqueue, TypeOK
    <3>2. LET b == ArtifactOf(r, fetchSeen[r])
          IN  b \in Artifacts => parseJob'[b].status # "none"
      BY <2>3, AddedOK DEF FetchEnqueue, TypeOK, Added, NewJob
    <3>3. rows' = rows /\ dropped' = dropped
      BY <2>3 DEF FetchEnqueue
    <3>4. QED
      BY <2>1, <3>1, <3>2, <3>3 DEF TypeOK
  <2>4. CASE FetchInterrupted(r)
    BY <2>1, <2>4 DEF FetchInterrupted, TypeOK
  <2>5. CASE FetchStart(r)
    <3>1. fetchPc[r] = "idle"
      BY <2>5 DEF FetchStart, Control
    <3>2. QED
      BY <2>1, <2>5, <3>1 DEF FetchStart, TypeOK
  <2>6. CASE FetchLoad(r) \/ FetchRequest(r) \/ FetchLookup(r) \/ FetchPut(r) \/ FetchSave(r)
    BY <2>1, <2>6 DEF FetchLoad, FetchRequest, FetchLookup, FetchPut, FetchSave, TypeOK
  <2>7. QED
    BY <1>1, <2>2, <2>3, <2>4, <2>5, <2>6 DEF FetchStep
<1>2. ASSUME NEW a \in Artifacts, ParseStep(a) \/ ParseInterrupted(a) \/ EvictParseJob(a)
      PROVE  OnlyInterruptionStrands'
  <2> USE DEF ParseGoto, ParseReturns
  <2>1. UNCHANGED <<rows, dropped, fetchPc, fetchSeen>>
    BY <1>2 DEF ParseStep, ParseInterrupted, ParseStart, ParseGet, ParseReview, ParseHandOver,
       ParseFinish, EvictParseJob
  <2>2. \A b \in Artifacts \ {a} : parseJob'[b] = parseJob[b]
    BY <1>2 DEF ParseStep, ParseInterrupted, ParseStart, ParseGet, ParseReview, ParseHandOver,
       ParseFinish, EvictParseJob, TypeOK
  <2>3. parseJob'[a].status = "none" => parseJob[a].status = "none"
    <3>1. /\ Completed(parseJob[a]).status # "none" /\ Taken(parseJob[a]).status # "none"
          /\ Thrown(parseJob[a]).status # "none" /\ Stalled(parseJob[a]).status # "none"
          /\ Evicted(parseJob[a]).status # "none"
      <4>1. parseJob[a] \in Job
        BY DEF TypeOK
      <4>2. QED
        BY <4>1 DEF Completed, Taken, Thrown, Stalled, Evicted, NewJob, Job
    <3>2. \/ parseJob'[a] = parseJob[a]
          \/ parseJob'[a] \in {Completed(parseJob[a]), Taken(parseJob[a]), Thrown(parseJob[a]),
                               Stalled(parseJob[a]), Evicted(parseJob[a])}
      BY <1>2 DEF ParseStep, ParseInterrupted, ParseStart, ParseGet, ParseReview, ParseHandOver,
         ParseFinish, EvictParseJob, TypeOK
    <3>3. QED
      BY <3>1, <3>2
  <2>4. QED
    BY <2>1, <2>2, <2>3 DEF Delivers, TypeOK
<1>3. CASE CleanStep \/ RetentionInterrupted
  BY <1>3 DEF CleanStep, RetentionInterrupted, RetentionSelect, RetentionDelete,
     RetentionTombstone, Delivers
<1>4. ASSUME NEW r \in Refs, EvictFetchJob(r) \/ DiscoveryYield(r)
      PROVE  OnlyInterruptionStrands'
  BY <1>4 DEF EvictFetchJob, DiscoveryYield, Delivers
<1>5. CASE UNCHANGED <<rows, parseJob, dropped, fetchPc, fetchSeen>>
  BY <1>5 DEF Delivers
<1>6. QED
  BY <1>1, <1>2, <1>3, <1>4, <1>5 DEF Next, vars, PageChanges, ToggleConnection, FallsDue,
     DiscoveryStart, DiscoveryLoad, DiscoveryList, DiscoveryAbort

\* Whatever the connector, the retry limits and the failures, an artifact that is
\* stored and never queued for parsing is one whose fetch was cut off.
THEOREM OnlyInterruptionStrandsAlways == Spec => []OnlyInterruptionStrands
<1>1. Init => TypeInv /\ OnlyInterruptionStrands
  BY TypeInit DEF Init, OnlyInterruptionStrands
<1>2. TypeInv /\ OnlyInterruptionStrands /\ [Next]_vars
        => (TypeInv /\ OnlyInterruptionStrands)'
  BY TypeStep, DeliveryStep
<1>3. QED
  BY <1>1, <1>2, PTL DEF Spec

(***************************************************************************)
(* Bodies are keyed by their hash alone, so that retention may delete the  *)
(* body of a live row with that of another; it deletes none for which it   *)
(* has no row that is due.                                                 *)
(***************************************************************************)
BodyKept(a) == BodyOf(a) \in objects \/ \E b \in due : BodyOf(b) = BodyOf(a)

BodyInv ==
    /\ \A a \in rows : BodyKept(a)
    /\ \A r \in Refs : fetchPc[r] = "insert" => BodyKept(ArtifactOf(r, fetchSeen[r]))

LEMMA BodyStep ==
    ASSUME TypeInv, BodyInv, [Next]_vars
    PROVE  BodyInv'
<1> USE DEF TypeInv, envVars, artifactVars, fetchVars, parseVars, BodyInv
<1>1. ASSUME NEW r \in Refs, FetchStep(r) \/ FetchInterrupted(r)
      PROVE  BodyInv'
  <2> USE DEF FetchGoto, FetchReturns
  <2>1. \A q \in Refs \ {r} : fetchPc'[q] = fetchPc[q] /\ fetchSeen'[q] = fetchSeen[q]
    BY <1>1 DEF FetchStep, FetchInterrupted, FetchStart, FetchLoad, FetchRequest, FetchLookup,
       FetchPut, FetchInsert, FetchSave, FetchEnqueue, TypeOK
  <2>2. CASE FetchPut(r)
    BY <2>1, <2>2 DEF FetchPut, TypeOK, BodyKept
  <2>3. CASE FetchInsert(r)
    <3>1. BodyKept(ArtifactOf(r, fetchSeen[r]))
      BY <2>3 DEF FetchInsert
    <3>2. QED
      BY <2>1, <2>3, <3>1 DEF FetchInsert, TypeOK, BodyKept
  <2>4. CASE ~FetchPut(r) /\ ~FetchInsert(r)
    <3>1. UNCHANGED <<rows, objects, due>> /\ fetchPc'[r] # "insert"
      BY <1>1, <2>4 DEF FetchStep, FetchInterrupted, FetchStart, FetchLoad, FetchRequest,
         FetchLookup, FetchSave, FetchEnqueue, TypeOK
    <3>2. QED
      BY <2>1, <3>1 DEF BodyKept
  <2>5. QED
    BY <2>2, <2>3, <2>4
<1>2. ASSUME NEW a \in Artifacts, RetentionDelete(a)
      PROVE  BodyInv'
  <2>1. a \in due
    BY <1>2 DEF RetentionDelete, Control, TypeOK
  <2>2. objects \ {BodyOf(a)} \subseteq objects'
    BY <1>2 DEF RetentionDelete
  <2>3. UNCHANGED <<rows, due, fetchPc, fetchSeen>>
    BY <1>2 DEF RetentionDelete
  <2>4. ASSUME NEW b, BodyKept(b) PROVE BodyKept(b)'
    BY <2>1, <2>2, <2>3, <2>4 DEF BodyKept
  <2>5. QED
    BY <2>3, <2>4
<1>3. CASE \E a \in Artifacts : FallsDue(a)
  BY <1>3 DEF FallsDue, BodyKept
<1>4. CASE UNCHANGED <<rows, objects, due, fetchPc, fetchSeen>>
  BY <1>4 DEF BodyKept
<1>5. ASSUME NEW a \in Artifacts, ParseStep(a) \/ ParseInterrupted(a) \/ EvictParseJob(a)
      PROVE  UNCHANGED <<rows, objects, due, fetchPc, fetchSeen>>
  BY <1>5 DEF ParseStep, ParseInterrupted, ParseStart, ParseGet, ParseReview, ParseHandOver,
     ParseFinish, EvictParseJob
<1>6. ASSUME \/ RetentionSelect \/ RetentionInterrupted
             \/ \E a \in Artifacts : RetentionTombstone(a)
      PROVE  UNCHANGED <<rows, objects, due, fetchPc, fetchSeen>>
  BY <1>6 DEF RetentionSelect, RetentionTombstone, RetentionInterrupted
<1>7. ASSUME NEW r \in Refs, EvictFetchJob(r) \/ DiscoveryYield(r)
      PROVE  UNCHANGED <<rows, objects, due, fetchPc, fetchSeen>>
  BY <1>7 DEF EvictFetchJob, DiscoveryYield
<1>8. QED
  BY <1>1, <1>2, <1>3, <1>4, <1>5, <1>6, <1>7 DEF Next, CleanStep, vars, PageChanges,
     ToggleConnection, DiscoveryStart, DiscoveryLoad, DiscoveryList, DiscoveryAbort

\* An artifact keeps its body until one with the same bytes is past its retention,
\* whichever postings share bytes and whichever fetches and cleanups run together.
THEOREM LiveArtifactsKeepBodies == Spec => []LiveArtifactHasBody
<1>1. Init => TypeInv /\ BodyInv
  BY TypeInit DEF Init, BodyInv
<1>2. TypeInv /\ BodyInv /\ [Next]_vars => (TypeInv /\ BodyInv)'
  BY TypeStep, BodyStep
<1>3. BodyInv => LiveArtifactHasBody
  BY DEF BodyInv, BodyKept, LiveArtifactHasBody
<1>4. QED
  BY <1>1, <1>2, <1>3, PTL DEF Spec

-----------------------------------------------------------------------------
(***************************************************************************)
(* Parse: the step a handler stands at tells what it read.                 *)
(***************************************************************************)
ReviewInv ==
    \A a \in Artifacts :
        /\ parsePc[a] = "parse" => BodyOf(a) \notin Unparsable
        /\ parsePc[a] = "review" => BodyOf(a) \in Unparsable
        /\ a \in handed => BodyOf(a) \notin Unparsable
        /\ reviews[a] > 0 => BodyOf(a) \in Unparsable /\ parseJob[a].status # "none"

LEMMA ReviewStep ==
    ASSUME TypeInv, ReviewInv, [Next]_vars
    PROVE  ReviewInv'
<1> USE DEF TypeInv, envVars, artifactVars, fetchVars, parseVars, ReviewInv
<1>1. ASSUME NEW a \in Artifacts, ParseStep(a) \/ ParseInterrupted(a)
      PROVE  ReviewInv'
  <2> USE DEF ParseGoto, ParseReturns
  <2>1. \A b \in Artifacts \ {a} :
          /\ parsePc'[b] = parsePc[b] /\ parseJob'[b] = parseJob[b]
          /\ reviews'[b] = reviews[b] /\ (b \in handed' <=> b \in handed)
    BY <1>1 DEF ParseStep, ParseInterrupted, ParseStart, ParseGet, ParseReview, ParseHandOver,
       ParseFinish, TypeOK
  <2>2. /\ parsePc'[a] = "parse" => BodyOf(a) \notin Unparsable
        /\ parsePc'[a] = "review" => BodyOf(a) \in Unparsable
        /\ a \in handed' => BodyOf(a) \notin Unparsable
    BY <1>1 DEF ParseStep, ParseInterrupted, ParseStart, ParseGet, ParseReview, ParseHandOver,
       ParseFinish, TypeOK
  <2>3. parseJob[a].status # "none" => parseJob'[a].status # "none"
    <3>1. /\ Completed(parseJob[a]).status # "none" /\ Taken(parseJob[a]).status # "none"
          /\ Thrown(parseJob[a]).status # "none" /\ Stalled(parseJob[a]).status # "none"
      <4>1. parseJob[a] \in Job
        BY DEF TypeOK
      <4>2. QED
        BY <4>1 DEF Completed, Taken, Thrown, Stalled, NewJob, Job
    <3>2. \/ parseJob'[a] = parseJob[a]
          \/ parseJob'[a] \in {Completed(parseJob[a]), Taken(parseJob[a]), Thrown(parseJob[a]),
                               Stalled(parseJob[a])}
      BY <1>1 DEF ParseStep, ParseInterrupted, ParseStart, ParseGet, ParseReview, ParseHandOver,
         ParseFinish, TypeOK
    <3>3. QED
      BY <3>1, <3>2
  <2>4. reviews'[a] > 0 => BodyOf(a) \in Unparsable /\ parseJob'[a].status # "none"
    <3>1. CASE ParseReview(a)
      BY <2>3, <3>1 DEF ParseReview, Control
    <3>2. CASE ~ParseReview(a)
      <4>1. reviews' = reviews
        BY <1>1, <3>2 DEF ParseStep, ParseInterrupted, ParseStart, ParseGet, ParseHandOver,
           ParseFinish
      <4>2. QED
        BY <2>3, <4>1
    <3>3. QED
      BY <3>1, <3>2
  <2>5. QED
    BY <2>1, <2>2, <2>4
<1>2. ASSUME NEW r \in Refs, FetchStep(r) \/ FetchInterrupted(r)
      PROVE  ReviewInv'
  <2>1. UNCHANGED <<parsePc, reviews, handed>>
    BY <1>2 DEF FetchStep, FetchInterrupted, FetchStart, FetchLoad, FetchRequest, FetchLookup,
       FetchPut, FetchInsert, FetchSave, FetchEnqueue
  <2>2. \A b \in Artifacts : parseJob'[b] \in {parseJob[b], Added(parseJob[b])}
    BY <1>2 DEF FetchStep, FetchInterrupted, FetchStart, FetchLoad, FetchRequest, FetchLookup,
       FetchPut, FetchInsert, FetchSave, FetchEnqueue, TypeOK
  <2>3. QED
    BY <2>1, <2>2 DEF Added, NewJob
<1>3. ASSUME NEW a \in Artifacts, EvictParseJob(a)
      PROVE  ReviewInv'
  BY <1>3 DEF EvictParseJob, Evicted, NewJob, TypeOK
<1>4. CASE CleanStep \/ RetentionInterrupted
  BY <1>4 DEF CleanStep, RetentionInterrupted, RetentionSelect, RetentionDelete,
     RetentionTombstone
<1>5. ASSUME NEW r \in Refs, EvictFetchJob(r) \/ DiscoveryYield(r)
      PROVE  ReviewInv'
  BY <1>5 DEF EvictFetchJob, DiscoveryYield
<1>6. CASE UNCHANGED <<parsePc, parseJob, reviews, handed>>
  BY <1>6
<1>7. QED
  BY <1>1, <1>2, <1>3, <1>4, <1>5, <1>6 DEF Next, vars, PageChanges, ToggleConnection, FallsDue,
     DiscoveryStart, DiscoveryLoad, DiscoveryList, DiscoveryAbort

\* No artifact is both reviewed and handed to normalization, over any sequence of
\* crashes, retries and repeated fetches.
THEOREM NothingIsFabricated == Spec => []NothingFabricated
<1>1. Init => TypeInv /\ ReviewInv
  BY TypeInit DEF Init, ReviewInv
<1>2. TypeInv /\ ReviewInv /\ [Next]_vars => (TypeInv /\ ReviewInv)'
  BY TypeStep, ReviewStep
<1>3. ReviewInv => NothingFabricated
  BY DEF ReviewInv, NothingFabricated
<1>4. QED
  BY <1>1, <1>2, <1>3, PTL DEF Spec

-----------------------------------------------------------------------------
(***************************************************************************)
(* The stages implement Custody.  On top of the invariants above the steps *)
(* need one more: no row falls due while a fetch still works on it, so     *)
(* what is queued for parsing is live.                                     *)
(***************************************************************************)
HeldAreLive == \A r \in Refs : \A a \in due : ~Holds(r, a)

CustodyInv == TypeInv /\ BodyInv /\ ReviewInv /\ HeldAreLive

custodyVars == <<objects, rows, Queued, handed, Reviewed, due, deleted>>

LEMMA HeldStep ==
    ASSUME TypeInv, HeldAreLive, [Next]_vars
    PROVE  HeldAreLive'
<1> USE DEF TypeInv, envVars, artifactVars, fetchVars, parseVars, HeldAreLive, Holds
<1>1. ASSUME NEW r \in Refs, FetchStep(r) \/ FetchInterrupted(r)
      PROVE  HeldAreLive'
  <2> USE DEF FetchGoto, FetchReturns
  <2>1. due' = due /\ \A q \in Refs \ {r} : fetchPc'[q] = fetchPc[q] /\ fetchSeen'[q] = fetchSeen[q]
    BY <1>1 DEF FetchStep, FetchInterrupted, FetchStart, FetchLoad, FetchRequest, FetchLookup,
       FetchPut, FetchInsert, FetchSave, FetchEnqueue, TypeOK
  <2>2. CASE FetchLookup(r)
    <3>1. fetchPc'[r] = "put" => ArtifactOf(r, fetchSeen'[r]) \notin due
      BY <2>2 DEF FetchLookup, AlreadyStored, TypeOK
    <3>2. fetchPc'[r] \in {"put", "saveSkip"}
      BY <2>2 DEF FetchLookup, TypeOK
    <3>3. QED
      BY <2>1, <3>1, <3>2
  <2>3. CASE FetchPut(r) \/ FetchInsert(r) \/ FetchSave(r)
    <3>1. fetchSeen'[r] = fetchSeen[r]
      BY <2>3 DEF FetchPut, FetchInsert, FetchSave
    <3>2. fetchPc'[r] \in {"insert", "save", "enqueue"} =>
            fetchPc[r] \in {"put", "insert", "save", "enqueue"}
      BY <2>3 DEF FetchPut, FetchInsert, FetchSave, TypeOK
    <3>3. fetchPc'[r] # "put"
      BY <2>3 DEF FetchPut, FetchInsert, FetchSave, TypeOK
    <3>4. QED
      BY <2>1, <3>1, <3>2, <3>3
  <2>4. CASE FetchStart(r) \/ FetchLoad(r) \/ FetchRequest(r) \/ FetchEnqueue(r)
               \/ FetchInterrupted(r)
    <3>1. fetchPc'[r] \notin {"put", "insert", "save", "enqueue"}
      BY <2>4 DEF FetchStart, FetchLoad, FetchRequest, FetchEnqueue, FetchInterrupted, TypeOK
    <3>2. QED
      BY <2>1, <3>1
  <2>5. QED
    BY <1>1, <2>2, <2>3, <2>4 DEF FetchStep
<1>2. CASE \E a \in Artifacts : FallsDue(a)
  BY <1>2 DEF FallsDue
<1>3. CASE UNCHANGED <<due, fetchPc, fetchSeen>>
  BY <1>3
<1>4. ASSUME NEW a \in Artifacts, ParseStep(a) \/ ParseInterrupted(a) \/ EvictParseJob(a)
      PROVE  UNCHANGED <<due, fetchPc, fetchSeen>>
  BY <1>4 DEF ParseStep, ParseInterrupted, ParseStart, ParseGet, ParseReview, ParseHandOver,
     ParseFinish, EvictParseJob
<1>5. ASSUME CleanStep \/ RetentionInterrupted
      PROVE  UNCHANGED <<due, fetchPc, fetchSeen>>
  BY <1>5 DEF CleanStep, RetentionInterrupted, RetentionSelect, RetentionDelete,
     RetentionTombstone
<1>6. ASSUME NEW r \in Refs, EvictFetchJob(r) \/ DiscoveryYield(r)
      PROVE  UNCHANGED <<due, fetchPc, fetchSeen>>
  BY <1>6 DEF EvictFetchJob, DiscoveryYield
<1>7. QED
  BY <1>1, <1>2, <1>3, <1>4, <1>5, <1>6 DEF Next, vars, PageChanges, ToggleConnection,
     DiscoveryStart, DiscoveryLoad, DiscoveryList, DiscoveryAbort

\* A record that has been added keeps being one.
LEMMA QueuedStays ==
    ASSUME TypeInv, NEW a \in Artifacts, parseJob[a].status # "none", NEW j, j.status # "none",
           parseJob' = [parseJob EXCEPT ![a] = j]
    PROVE  Queued' = Queued
BY DEF TypeInv, TypeOK, Queued

\* What is fetched is put, recorded while its body is there, and queued while live.
LEMMA FetchKeepsCustody ==
    ASSUME CustodyInv, NEW r \in Refs, FetchStep(r) \/ FetchInterrupted(r)
    PROVE  Promise!Next \/ UNCHANGED custodyVars
<1> USE DEF CustodyInv, TypeInv, artifactVars, parseVars, FetchReturns, FetchGoto
<1> DEFINE a == ArtifactOf(r, fetchSeen[r])
<1>1. fetchPc[r] \notin {"idle", "load", "request"} => a \in Artifacts /\ BodyOf(a) \in Bodies
  BY ArtifactType DEF Control
<1>2. CASE FetchPut(r)
  <2>1. Promise!Keep(BodyOf(a))
    BY <1>2 DEF FetchPut, Promise!Keep, Queued, Reviewed
  <2>2. QED
    BY <1>1, <1>2, <2>1 DEF FetchPut, Promise!Next
<1>3. CASE FetchInsert(r)
  <2>1. CASE a \in rows
    BY <1>3, <2>1 DEF FetchInsert, custodyVars, Queued, Reviewed
  <2>2. CASE a \notin rows
    <3>1. BodyKept(a)
      BY <1>3 DEF FetchInsert, BodyInv
    <3>2. Promise!Record(a)
      BY <1>3, <3>1 DEF FetchInsert, BodyKept, Promise!Record, Promise!Forfeit, BodyOf, Queued,
         Reviewed
    <3>3. QED
      BY <1>1, <1>3, <3>2 DEF FetchInsert, Promise!Next, Promise!Artifacts, Artifacts
  <2>3. QED
    BY <2>1, <2>2
<1>4. CASE FetchEnqueue(r)
  <2>1. a \in rows /\ a \in Artifacts
    BY <1>1, <1>4 DEF FetchEnqueue, Control
  <2>2. a \notin due
    BY <1>4 DEF FetchEnqueue, HeldAreLive, Holds
  <2>3. Added(parseJob[a]).status # "none"
    BY DEF Added, NewJob
  <2>4. Queued' = Queued \union {a}
    BY <1>4, <2>1, <2>3 DEF FetchEnqueue, Queued, TypeOK
  <2>5. Promise!Queue(a)
    BY <1>4, <2>1, <2>2, <2>4 DEF FetchEnqueue, Promise!Queue, Reviewed
  <2>6. QED
    BY <2>1, <2>5 DEF Promise!Next, Promise!Artifacts, Artifacts
<1>5. CASE FetchStart(r) \/ FetchLoad(r) \/ FetchRequest(r) \/ FetchLookup(r) \/ FetchSave(r)
             \/ FetchInterrupted(r)
  BY <1>5 DEF FetchStart, FetchLoad, FetchRequest, FetchLookup, FetchSave, FetchInterrupted,
     custodyVars, Queued, Reviewed
<1>6. QED
  BY <1>2, <1>3, <1>4, <1>5 DEF FetchStep

\* Parse reviews or hands over what is queued, by what its body is.
LEMMA ParseKeepsCustody ==
    ASSUME CustodyInv, NEW a \in Artifacts,
           ParseStep(a) \/ ParseInterrupted(a) \/ EvictParseJob(a)
    PROVE  Promise!Next \/ UNCHANGED custodyVars
<1> USE DEF CustodyInv, TypeInv, artifactVars, fetchVars, ParseReturns, ParseGoto
<1>1. CASE ParseReview(a)
  <2>1. a \in Queued /\ BodyOf(a) \in Unparsable
    BY <1>1 DEF ParseReview, Queued, Control, ReviewInv
  <2>2. Reviewed' = Reviewed \union {a}
    BY <1>1 DEF ParseReview, Reviewed, TypeOK
  <2>3. Promise!Review(a)
    BY <1>1, <2>1, <2>2 DEF ParseReview, Promise!Review, BodyOf, Queued
  <2>4. QED
    BY <2>3 DEF Promise!Next, Promise!Artifacts, Artifacts
<1>2. CASE ParseHandOver(a)
  <2>1. a \in Queued /\ BodyOf(a) \notin Unparsable
    BY <1>2 DEF ParseHandOver, Queued, Control, ReviewInv
  <2>2. Promise!HandOver(a)
    BY <1>2, <2>1 DEF ParseHandOver, Promise!HandOver, BodyOf, Queued, Reviewed
  <2>3. QED
    BY <2>2 DEF Promise!Next, Promise!Artifacts, Artifacts
<1>3. CASE ~ParseReview(a) /\ ~ParseHandOver(a)
  <2>1. UNCHANGED <<objects, rows, due, deleted, handed, reviews>>
    BY <1>3 DEF ParseStep, ParseInterrupted, ParseStart, ParseGet, ParseFinish, EvictParseJob
  <2>2. parseJob[a].status # "none"
    BY <1>3 DEF ParseStep, ParseInterrupted, ParseStart, ParseGet, ParseFinish, EvictParseJob,
       Control
  <2>3. /\ Completed(parseJob[a]).status # "none" /\ Taken(parseJob[a]).status # "none"
        /\ Thrown(parseJob[a]).status # "none" /\ Stalled(parseJob[a]).status # "none"
        /\ Evicted(parseJob[a]).status # "none"
    <3>1. parseJob[a] \in Job
      BY DEF TypeOK
    <3>2. QED
      BY <3>1 DEF Completed, Taken, Thrown, Stalled, Evicted, NewJob, Job
  <2>4. \/ parseJob' = parseJob
        \/ \E j \in {Completed(parseJob[a]), Taken(parseJob[a]), Thrown(parseJob[a]),
                     Stalled(parseJob[a]), Evicted(parseJob[a])} :
             parseJob' = [parseJob EXCEPT ![a] = j]
    BY <1>3 DEF ParseStep, ParseInterrupted, ParseStart, ParseGet, ParseFinish, EvictParseJob
  <2>5. Queued' = Queued
    BY <2>2, <2>3, <2>4, QueuedStays DEF Queued
  <2>6. QED
    BY <2>1, <2>5 DEF custodyVars, Reviewed
<1>4. QED
  BY <1>1, <1>2, <1>3

\* Retention gives up the body of a row that is due, and tombstones that row.
LEMMA CleanKeepsCustody ==
    ASSUME CustodyInv, CleanStep \/ RetentionInterrupted
    PROVE  Promise!Next \/ UNCHANGED custodyVars
<1> USE DEF CustodyInv, TypeInv, fetchVars, parseVars
<1>1. ASSUME NEW a \in Artifacts, RetentionDelete(a)
      PROVE  Promise!Next \/ UNCHANGED custodyVars
  <2>1. a \in due
    BY <1>1 DEF RetentionDelete, Control, TypeOK
  <2>2. Promise!Forfeit(BodyOf(a))
    BY <2>1 DEF Promise!Forfeit, BodyOf
  <2>3. CASE objects' = objects \ {BodyOf(a)}
    <3>1. Promise!GiveUp(BodyOf(a))
      BY <1>1, <2>2, <2>3 DEF RetentionDelete, Promise!GiveUp, BodyOf, Queued, Reviewed
    <3>2. BodyOf(a) \in Bodies
      BY DEF Artifacts, BodyOf
    <3>3. QED
      BY <3>1, <3>2 DEF Promise!Next
  <2>4. CASE objects' = objects
    BY <1>1, <2>4 DEF RetentionDelete, custodyVars, Queued, Reviewed
  <2>5. QED
    BY <1>1, <2>3, <2>4 DEF RetentionDelete
<1>2. ASSUME NEW a \in Artifacts, RetentionTombstone(a)
      PROVE  Promise!Next
  <2>1. a \in due
    BY <1>2 DEF RetentionTombstone, Control
  <2>2. Promise!Reclaim(a)
    BY <1>2, <2>1 DEF RetentionTombstone, Promise!Reclaim, Queued, Reviewed
  <2>3. QED
    BY <2>2 DEF Promise!Next, Promise!Artifacts, Artifacts
<1>3. CASE RetentionSelect \/ RetentionInterrupted
  BY <1>3 DEF RetentionSelect, RetentionInterrupted, custodyVars, Queued, Reviewed, artifactVars
<1>4. QED
  BY <1>1, <1>2, <1>3 DEF CleanStep

LEMMA CustodyStep ==
    ASSUME CustodyInv, [Next]_vars
    PROVE  [Promise!Next]_custodyVars
<1> USE DEF envVars, artifactVars, fetchVars, parseVars
<1>1. ASSUME NEW a \in Artifacts, FallsDue(a) PROVE Promise!Next
  <2>1. Promise!Expire(a)
    BY <1>1 DEF FallsDue, Promise!Expire, Queued, Reviewed
  <2>2. QED
    BY <2>1 DEF Promise!Next, Promise!Artifacts, Artifacts
<1>2. ASSUME NEW r \in Refs, EvictFetchJob(r) \/ DiscoveryYield(r)
      PROVE  UNCHANGED <<artifactVars, parseVars>>
  BY <1>2 DEF EvictFetchJob, DiscoveryYield
<1>3. CASE UNCHANGED <<artifactVars, parseVars>>
  BY <1>3 DEF custodyVars, Queued, Reviewed
<1>4. QED
  BY <1>1, <1>2, <1>3, FetchKeepsCustody, ParseKeepsCustody, CleanKeepsCustody DEF Next, vars,
     PageChanges, ToggleConnection, DiscoveryStart, DiscoveryLoad, DiscoveryList, DiscoveryAbort

\* Fetch, parse and retention together implement Custody: for any postings, limits
\* and failures, also when postings share bytes and a cleanup takes a body between a
\* put and its insert, every step of a handler is one step of what is promised of the
\* artifacts, or none.
THEOREM StagesKeepCustody == Spec => KeepsCustody
<1>1. Init => CustodyInv
  BY TypeInit DEF Init, CustodyInv, BodyInv, ReviewInv, HeldAreLive
<1>2. CustodyInv /\ [Next]_vars => CustodyInv'
  BY TypeStep, BodyStep, ReviewStep, HeldStep DEF CustodyInv
<1>3. Init => Promise!Init
  BY DEF Init, Promise!Init, Queued, Reviewed, NoJob, NewJob
<1>4. CustodyInv /\ [Next]_vars => [Promise!Next]_Promise!vars
  BY CustodyStep DEF custodyVars, Promise!vars
<1>5. QED
  BY <1>1, <1>2, <1>3, <1>4, PTL DEF Spec, KeepsCustody, Promise!Safety
=============================================================================
