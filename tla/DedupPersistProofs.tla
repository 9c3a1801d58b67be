------------------------- MODULE DedupPersistProofs -------------------------
(***************************************************************************)
(* Safety of DedupPersist for any sources, records, retry limits and       *)
(* number of concurrent transactions.                                      *)
(***************************************************************************)
EXTENDS DedupPersist, JobQueueProofs

\* A job has a handler only while it is active, and can always be retried or
\* failed; a handler gathers ids of existing rows, and no sources before it reads
\* them.
Control ==
    \A k \in Slots :
        /\ JobOK(job[k])
        /\ run[k].pc # "idle" => job[k].status = "active"
        /\ run[k].ids \subseteq Rows(opps)
        /\ run[k].pc \in {"ids", "rows"} => run[k].src = NoneYet(Sources)

TypeInv == TypeOK /\ Control

LEMMA IdleRunType ==
    ASSUME NEW pc \in {"idle", "ids", "rows", "write", "finish"}, NEW now \in Moments
    PROVE  [IdleRun EXCEPT !.pc = pc, !.now = now] \in Run
BY DEF IdleRun, Run, NoneYet, Moments

LEMMA TypeInit == Init => TypeInv
<1> SUFFICES ASSUME Init PROVE TypeInv
  OBVIOUS
<1>1. JobOK(NoJob) /\ NoJob.status = "none" /\ NoJob \in Job
  BY NewJobOK DEF NoJob, JobStatus, NewJob, JobOK
<1>2. IdleRun \in Run /\ IdleRun.pc = "idle" /\ IdleRun.ids = {}
  BY DEF IdleRun, Run, NoneYet, Moments
<1>3. TypeOK
  BY <1>1, <1>2, PersistBoundAssumption DEF Init, TypeOK, NoneYet, Moments, Rows
<1>4. Control
  BY <1>1, <1>2 DEF Init, Control
<1>5. QED
  BY <1>3, <1>4 DEF TypeInv

\* An update of an opportunity is an opportunity; only the merge changes status.
LEMMA RowUpdates ==
    ASSUME NEW row \in Opportunity, NEW v \in Versions, NEW now \in Moments,
           NEW wins \in BOOLEAN
    PROVE  LET kept == [row EXCEPT !.from = IF wins THEN v ELSE @, !.last = now]
               gone == [row EXCEPT !.status = "Duplicate", !.last = now]
           IN  kept \in Opportunity /\ gone \in Opportunity /\ kept.status = row.status
<1>1. CASE wins
  BY <1>1 DEF Opportunity
<1>2. CASE ~wins
  BY <1>2 DEF Opportunity
<1>3. QED
  BY <1>1, <1>2

LEMMA RowMoves ==
    ASSUME NEW row \in SourceRow, NEW target \in OppIds
    PROVE  LET moved == [row EXCEPT !.opp = target]
           IN  moved \in SourceRow /\ moved.opp = target /\ moved.version = row.version
BY DEF SourceRow

\* The rows of opportunities a transaction leaves.
LEMMA MergedRows ==
    ASSUME TypeOK, NEW v \in Versions, NEW g \in SUBSET Rows(opps),
           NEW target \in OppIds, NEW wins \in BOOLEAN, NEW now \in Moments,
           NEW o \in OppIds
    PROVE  LET row == Merged(v, g, target, wins, now)[o]
           IN  /\ row \in Opportunity \union {None}
               /\ o = target \/ o \in Rows(opps) => row \in Opportunity
               /\ o # target /\ o \notin g => row = opps[o]
               /\ o = target /\ o \notin g => row.status = "New"
               /\ o = target /\ o \in g => row.status = opps[o].status
<1> DEFINE row == Merged(v, g, target, wins, now)[o]
           kept == [opps[o] EXCEPT !.from = IF wins THEN v ELSE @, !.last = now]
           gone == [opps[o] EXCEPT !.status = "Duplicate", !.last = now]
           new == [from |-> v, status |-> "New", last |-> now]
<1>1. row = IF o \notin g THEN IF o = target THEN new ELSE opps[o]
            ELSE IF o = target THEN kept ELSE gone
  BY DEF Merged
<1>2. new \in Opportunity /\ new.status = "New"
  BY DEF Opportunity
<1>3. opps[o] \in Opportunity \union {None}
  BY DEF TypeOK
<1>4. o \in Rows(opps) => opps[o] \in Opportunity
  BY <1>3 DEF Rows
<1>5. o \in Rows(opps) =>
        kept \in Opportunity /\ gone \in Opportunity /\ kept.status = opps[o].status
  <2> SUFFICES ASSUME o \in Rows(opps)
               PROVE  kept \in Opportunity /\ gone \in Opportunity
                        /\ kept.status = opps[o].status
    OBVIOUS
  <2>1. opps[o] \in Opportunity
    BY <1>4
  <2>2. kept \in Opportunity /\ gone \in Opportunity
    BY <2>1, RowUpdates
  <2>3. kept.status = opps[o].status
    BY <2>1 DEF Opportunity
  <2>4. QED
    BY <2>2, <2>3
<1> HIDE DEF row, kept, gone, new
<1>6. /\ row \in Opportunity \union {None}
      /\ o = target \/ o \in Rows(opps) => row \in Opportunity
      /\ o # target /\ o \notin g => row = opps[o]
      /\ o = target /\ o \notin g => row.status = "New"
      /\ o = target /\ o \in g => row.status = opps[o].status
  BY <1>1, <1>2, <1>3, <1>4, <1>5
<1>7. QED
  BY <1>6 DEF row

\* The rows of sources a transaction leaves.
LEMMA MovedRows ==
    ASSUME TypeOK, NEW v \in Versions, NEW g \in SUBSET Rows(opps),
           NEW target \in OppIds, NEW s \in Sources
    PROVE  LET row == Moved(v, g, target)[s]
           IN  /\ row \in SourceRow \union {None}
               /\ s = SourceOf[v] => row \in SourceRow /\ row.opp = target
               /\ s # SourceOf[v] /\ src[s] # None /\ src[s].opp \in g =>
                    row \in SourceRow /\ row.opp = target /\ row.version = src[s].version
               /\ s # SourceOf[v] /\ ~(src[s] # None /\ src[s].opp \in g) =>
                    row = src[s]
<1> DEFINE row == Moved(v, g, target)[s]
           own == [opp |-> target, version |-> v]
           moved == [src[s] EXCEPT !.opp = target]
<1>1. src[s] \in SourceRow \union {None} /\ (s \in Rows(src) <=> src[s] # None)
  BY DEF TypeOK, Rows
<1>2. row = IF s = SourceOf[v] THEN own
            ELSE IF src[s] # None /\ src[s].opp \in g THEN moved ELSE src[s]
  BY <1>1 DEF Moved
<1>3. own \in SourceRow /\ own.opp = target
  BY DEF SourceRow
<1>4. src[s] # None =>
        moved \in SourceRow /\ moved.opp = target /\ moved.version = src[s].version
  BY <1>1, RowMoves
<1> HIDE DEF row, own, moved
<1>5. /\ row \in SourceRow \union {None}
      /\ s = SourceOf[v] => row \in SourceRow /\ row.opp = target
      /\ s # SourceOf[v] /\ src[s] # None /\ src[s].opp \in g =>
           row \in SourceRow /\ row.opp = target /\ row.version = src[s].version
      /\ s # SourceOf[v] /\ ~(src[s] # None /\ src[s].opp \in g) => row = src[s]
  BY <1>1, <1>2, <1>3, <1>4
<1>6. QED
  BY <1>5 DEF row

\* The candidate and the group of a handler that is about to write.
LEMMA GroupType ==
    ASSUME TypeInv, NEW k \in Slots, run[k].pc = "write"
    PROVE  LET v == carries[k]
               g == Group(run[k], v)
           IN  /\ v \in Versions /\ SourceOf[v] \in Sources
               /\ run[k].now \in Moments
               /\ g \in SUBSET Rows(opps)
               /\ \A target \in Targets(g) :
                    target \in OppIds /\ (g # {} => target \in g)
               /\ g = {} => \A target \in Targets(g) : target \notin Rows(opps)
<1> USE DEF TypeInv
<1>1. carries[k] \in Versions /\ SourceOf[carries[k]] \in Sources
  <2>1. job[k].status # "none"
    BY DEF Control
  <2>2. carries[k] \in Versions
    BY <2>1 DEF TypeOK
  <2>3. QED
    BY <2>2, RecordAssumption
<1>2. run[k].now \in Moments
  BY DEF TypeOK, Run
<1>3. Group(run[k], carries[k]) \subseteq Rows(opps) /\ Rows(opps) \subseteq OppIds
  BY DEF Group, Peopled, Control, Rows, TypeOK
<1>4. QED
  BY <1>1, <1>2, <1>3 DEF Targets

\* What a transaction writes has the tables' types, and keeps every row.
LEMMA WritesType ==
    ASSUME TypeInv, NEW k \in Slots, run[k].pc = "write",
           NEW target \in Targets(Group(run[k], carries[k])),
           NEW wins \in BOOLEAN
    PROVE  LET v == carries[k]
               g == Group(run[k], v)
               rows == Merged(v, g, target, wins, run[k].now)
               sources == Moved(v, g, target)
           IN  /\ rows \in [OppIds -> Opportunity \union {None}]
               /\ sources \in [Sources -> SourceRow \union {None}]
               /\ Rows(opps) \subseteq Rows(rows)
               /\ \A s \in Rows(sources) : sources[s].opp \in Rows(rows)
<1> DEFINE v == carries[k]
           g == Group(run[k], v)
           rows == Merged(v, g, target, wins, run[k].now)
           sources == Moved(v, g, target)
<1>1. /\ v \in Versions /\ run[k].now \in Moments /\ g \in SUBSET Rows(opps)
      /\ target \in OppIds
  BY GroupType
<1>2. TypeOK /\ DOMAIN opps = OppIds
  BY DEF TypeInv, TypeOK
<1>3. DOMAIN rows = OppIds /\ DOMAIN sources = Sources
  BY DEF Merged, Moved
<1>4. rows = [o \in OppIds |-> rows[o]] /\ sources = [s \in Sources |-> sources[s]]
  BY DEF Merged, Moved
<1>5. \A o \in OppIds : /\ rows[o] \in Opportunity \union {None}
                        /\ o = target \/ o \in Rows(opps) => rows[o] \in Opportunity
  BY <1>1, <1>2, MergedRows
<1>6. \A s \in Sources :
        /\ sources[s] \in SourceRow \union {None}
        /\ sources[s] = src[s] \/ sources[s].opp = target
  BY <1>1, <1>2, MovedRows
<1> HIDE DEF v, g, rows, sources
<1>7. rows \in [OppIds -> Opportunity \union {None}]
  BY <1>4, <1>5
<1>8. sources \in [Sources -> SourceRow \union {None}]
  BY <1>4, <1>6
<1>9. Rows(opps) \subseteq Rows(rows) /\ target \in Rows(rows)
  BY <1>1, <1>2, <1>3, <1>5, NoneAssumption DEF Rows
<1>10. \A s \in Rows(sources) : sources[s].opp \in Rows(rows)
  <2> SUFFICES ASSUME NEW s \in Sources, sources[s] # None
               PROVE  sources[s].opp \in Rows(rows)
    BY <1>3 DEF Rows
  <2>1. CASE sources[s] = src[s]
    BY <2>1, <1>2, <1>9 DEF Rows, TypeOK
  <2>2. QED
    BY <2>1, <1>6, <1>9
<1>11. QED
  BY <1>7, <1>8, <1>9, <1>10 DEF v, g, rows, sources

\* Every step but Publish, Submit and Commit changes one job and its handler only.
LEMMA HandlerStep ==
    ASSUME TypeInv, NEW k \in Slots, NEW j, NEW r \in Run,
           UNCHANGED <<published, opps, src, carries, raced>>,
           job' = [job EXCEPT ![k] = j], run' = [run EXCEPT ![k] = r],
           JobOK(j), j.status = "none" <=> job[k].status = "none",
           r.pc # "idle" => j.status = "active",
           r.ids \subseteq Rows(opps),
           r.pc \in {"ids", "rows"} => r.src = NoneYet(Sources),
           disturbed' \subseteq disturbed,
           k \in disturbed' => r.pc \in {"rows", "write"},
           budget' \in Nat
    PROVE  TypeInv'
<1> USE DEF TypeInv
<1>1. \A l \in Slots : /\ job'[l] = IF l = k THEN j ELSE job[l]
                       /\ run'[l] = IF l = k THEN r ELSE run[l]
  BY DEF TypeOK
<1>2. job' \in [Slots -> Job] /\ run' \in [Slots -> Run]
  BY DEF TypeOK, JobOK
<1>3. \A l \in Slots : job'[l].status # "none" =>
            carries'[l] # None /\ SlotOf(carries'[l]) = l
  BY <1>1 DEF TypeOK
<1>4. disturbed' \subseteq {l \in Slots : run'[l].pc \in {"rows", "write"}}
  BY <1>1 DEF TypeOK
<1>5. Rows(opps') = Rows(opps) /\ Rows(src') = Rows(src)
  OBVIOUS
<1>6. TypeOK'
  BY <1>2, <1>3, <1>4, <1>5 DEF TypeOK
<1>7. Control'
  BY <1>1, <1>5 DEF Control
<1>8. QED
  BY <1>6, <1>7

LEMMA SpendType == ASSUME TypeInv, Spend PROVE budget' \in Nat
BY DEF TypeInv, TypeOK, Spend

LEMMA IdleRunOK ==
    IdleRun \in Run /\ IdleRun.pc = "idle" /\ IdleRun.ids = {}
        /\ IdleRun.src = NoneYet(Sources)
BY DEF IdleRun, Run, NoneYet, Moments

\* The ids a handler gathers are ids of rows.
LEMMA MatchesType ==
    ASSUME TypeOK, NEW v
    PROVE  Matches(v) \subseteq Rows(opps)
BY DEF Matches, TypeOK

LEMMA TypePublish == ASSUME TypeInv, NEW v \in Versions, Publish(v) PROVE TypeInv'
<1>1. TypeOK'
  BY DEF TypeInv, TypeOK, Publish, Moments, Rows
<1>2. Control'
  BY DEF TypeInv, Control, Publish, Rows
<1>3. QED
  BY <1>1, <1>2 DEF TypeInv

LEMMA TypeSubmit == ASSUME TypeInv, NEW v \in Versions, Submit(v) PROVE TypeInv'
<1> DEFINE k == SlotOf(v)
<1>1. k \in Slots
  BY DEF Slots
<1>2. JobOK(Added(job[k])) /\ Added(job[k]).status = "waiting"
  BY <1>1, AddedOK DEF TypeInv, Control, Submit, Added, NewJob
<1>3. v # None /\ run[k].pc = "idle"
  BY <1>1, NoneAssumption DEF TypeInv, Control, Submit
<1>4. \A l \in Slots : /\ job'[l] = IF l = k THEN Added(job[k]) ELSE job[l]
                       /\ carries'[l] = IF l = k THEN v ELSE carries[l]
  BY DEF TypeInv, TypeOK, Submit
<1>5. job' \in [Slots -> Job] /\ carries' \in [Slots -> Versions \union {None}]
  BY <1>2 DEF TypeInv, TypeOK, Submit, JobOK
<1>6. UNCHANGED <<published, opps, src, run, disturbed, raced, budget>>
  BY DEF Submit
<1>7. TypeOK'
  BY <1>3, <1>4, <1>5, <1>6 DEF TypeInv, TypeOK, Rows
<1>8. Control'
  BY <1>2, <1>3, <1>4, <1>6 DEF TypeInv, Control, Rows
<1>9. QED
  BY <1>7, <1>8 DEF TypeInv

LEMMA TypeEvict == ASSUME TypeInv, NEW k \in Slots, Evict(k) PROVE TypeInv'
<1>1. /\ JobOK(Evicted(job[k])) /\ Evicted(job[k]).status = "evicted"
      /\ job[k].status = "completed" /\ run[k].pc = "idle"
  BY DoneOK DEF Evict, TypeInv, Control
<1>2. run[k] \in Run /\ run' = [run EXCEPT ![k] = run[k]]
  BY DEF Evict, TypeInv, TypeOK
<1>3. run[k].ids \subseteq Rows(opps) /\ k \notin disturbed
  BY <1>1 DEF TypeInv, Control, TypeOK
<1>4. budget' \in Nat
  BY SpendType DEF Evict
<1>5. QED
  BY <1>1, <1>2, <1>3, <1>4, HandlerStep DEF Evict

LEMMA TypeStart == ASSUME TypeInv, NEW k \in Slots, Start(k) PROVE TypeInv'
<1> DEFINE r == [IdleRun EXCEPT !.pc = "ids", !.now = published]
<1>1. JobOK(Taken(job[k])) /\ Taken(job[k]).status = "active"
  BY TakenOK DEF Start, TypeInv, Control
<1>2. r \in Run
  BY IdleRunType DEF TypeInv, TypeOK
<1>3. r.pc = "ids" /\ r.ids = {} /\ r.src = NoneYet(Sources)
  BY DEF IdleRun
<1>4. k \notin disturbed
  BY <1>1, TakenOK DEF Start, TypeInv, Control, TypeOK
<1>5. UNCHANGED <<published, opps, src, carries, raced, disturbed>>
        /\ run' = [run EXCEPT ![k] = r] /\ job' = [job EXCEPT ![k] = Taken(job[k])]
  BY DEF Start
<1>6. job[k].status # "none" /\ budget' \in Nat
  BY DEF Start, TypeInv, TypeOK
<1> HIDE DEF r
<1>7. QED
  BY <1>1, <1>2, <1>3, <1>4, <1>5, <1>6, HandlerStep

\* The reads of a transaction.
LEMMA TypeGather ==
    ASSUME TypeInv, NEW k \in Slots, GatherIds(k) \/ GatherRows(k)
    PROVE  TypeInv'
<1>1. run[k] \in Run /\ job[k].status = "active" /\ JobOK(job[k])
  BY DEF GatherIds, GatherRows, TypeInv, TypeOK, Control
<1>2. job' = [job EXCEPT ![k] = job[k]] /\ budget' \in Nat
  BY DEF GatherIds, GatherRows, TypeInv, TypeOK
<1>3. CASE GatherIds(k)
  <2> DEFINE found == Matches(carries[k])
             pc == IF found = {} THEN "write" ELSE "rows"
             r == [run[k] EXCEPT !.ids = found, !.pc = pc]
  <2>1. found \subseteq Rows(opps) /\ Rows(opps) \subseteq OppIds
    BY MatchesType DEF TypeInv, TypeOK, Rows
  <2>2. run' = [run EXCEPT ![k] = r]
    BY <1>3 DEF GatherIds, TypeInv, TypeOK
  <2>3. run[k].pc = "ids" /\ run[k].src = NoneYet(Sources) /\ k \notin disturbed
    BY <1>3 DEF GatherIds, TypeInv, Control, TypeOK
  <2> HIDE DEF found
  <2>4. r \in Run
    BY <1>1, <2>1 DEF Run
  <2>5. r.ids = found /\ r.src = NoneYet(Sources)
    BY <1>1, <2>3 DEF Run
  <2>6. UNCHANGED <<published, opps, src, carries, raced, disturbed>>
    BY <1>3 DEF GatherIds
  <2> HIDE DEF r
  <2>7. QED
    BY <1>1, <1>2, <2>1, <2>2, <2>3, <2>4, <2>5, <2>6, HandlerStep
<1>4. CASE GatherRows(k)
  <2> DEFINE oppsRead == [o \in OppIds |-> IF o \in run[k].ids THEN opps[o] ELSE None]
             srcRead == [s \in Sources |->
                IF s \in Rows(src) /\ src[s].opp \in run[k].ids THEN src[s] ELSE None]
             r == [run[k] EXCEPT !.pc = "write", !.opps = oppsRead, !.src = srcRead]
  <2>1. oppsRead \in [OppIds -> Opportunity \union {None}]
    BY DEF TypeInv, TypeOK
  <2>2. srcRead \in [Sources -> SourceRow \union {None}]
    BY DEF TypeInv, TypeOK
  <2>3. run' = [run EXCEPT ![k] = r]
    BY <1>4 DEF GatherRows, TypeInv, TypeOK
  <2> HIDE DEF oppsRead, srcRead
  <2>4. r \in Run /\ r.pc = "write" /\ r.ids = run[k].ids
    BY <1>1, <2>1, <2>2 DEF Run
  <2>5. run[k].ids \subseteq Rows(opps)
    BY DEF TypeInv, Control
  <2>6. UNCHANGED <<published, opps, src, carries, raced, disturbed>>
    BY <1>4 DEF GatherRows
  <2> HIDE DEF r
  <2>7. QED
    BY <1>1, <1>2, <2>3, <2>4, <2>5, <2>6, HandlerStep
<1>5. QED
  BY <1>3, <1>4

LEMMA TypeConflict == ASSUME TypeInv, NEW k \in Slots, Conflict(k) PROVE TypeInv'
<1>1. job[k].status = "active" /\ JobOK(job[k])
  BY DEF Conflict, TypeInv, Control
<1>2. JobOK(Thrown(job[k])) /\ Thrown(job[k]).status # "none"
  BY <1>1, ThrownOK
<1>3. UNCHANGED <<published, opps, src, carries, raced>>
        /\ run' = [run EXCEPT ![k] = IdleRun]
        /\ job' = [job EXCEPT ![k] = Thrown(job[k])] /\ disturbed' = disturbed \ {k}
  BY DEF Conflict
<1>4. budget' \in Nat
  BY DEF Conflict, TypeInv, TypeOK
<1>5. QED
  BY <1>1, <1>2, <1>3, <1>4, IdleRunOK, HandlerStep

LEMMA TypeFinish == ASSUME TypeInv, NEW k \in Slots, Finish(k) PROVE TypeInv'
<1>1. job[k].status = "active" /\ JobOK(job[k]) /\ k \notin disturbed
  BY DEF Finish, TypeInv, Control, TypeOK
<1>2. JobOK(Completed(job[k])) /\ Completed(job[k]).status = "completed"
  BY DoneOK
<1>3. UNCHANGED <<published, opps, src, carries, raced, disturbed>>
        /\ run' = [run EXCEPT ![k] = IdleRun]
        /\ job' = [job EXCEPT ![k] = Completed(job[k])]
  BY DEF Finish
<1>4. budget' \in Nat
  BY DEF Finish, TypeInv, TypeOK
<1>5. QED
  BY <1>1, <1>2, <1>3, <1>4, IdleRunOK, HandlerStep

LEMMA TypeInterrupted == ASSUME TypeInv, NEW k \in Slots, Interrupted(k) PROVE TypeInv'
<1>1. job[k].status = "active" /\ JobOK(job[k])
  BY DEF Interrupted, TypeInv, Control
<1>2. PICK j \in {Thrown(job[k]), Stalled(job[k])} : job' = [job EXCEPT ![k] = j]
  BY DEF Interrupted
<1>3. JobOK(j) /\ j.status # "none"
  BY <1>1, <1>2, ThrownOK, StalledOK
<1>4. UNCHANGED <<published, opps, src, carries, raced>>
        /\ run' = [run EXCEPT ![k] = IdleRun] /\ disturbed' = disturbed \ {k}
  BY DEF Interrupted
<1>5. budget' \in Nat
  BY SpendType DEF Interrupted
<1>6. QED
  BY <1>1, <1>2, <1>3, <1>4, <1>5, IdleRunOK, HandlerStep

\* What a commit does to the tables, for the invariants that follow.
LEMMA CommitWrites ==
    ASSUME TypeInv, NEW k \in Slots, Commit(k)
    PROVE  \E target \in Targets(Group(run[k], carries[k])), wins \in BOOLEAN :
             /\ wins => CandidateWins(run[k], carries[k], Group(run[k], carries[k]))
             /\ opps' = Merged(carries[k], Group(run[k], carries[k]), target, wins,
                               run[k].now)
             /\ src' = Moved(carries[k], Group(run[k], carries[k]), target)
<1>1. CandidateWins(run[k], carries[k], Group(run[k], carries[k])) \in BOOLEAN
  BY DEF CandidateWins
<1>2. QED
  BY <1>1 DEF Commit

LEMMA TypeCommit == ASSUME TypeInv, NEW k \in Slots, Commit(k) PROVE TypeInv'
<1> DEFINE r == [IdleRun EXCEPT !.pc = "finish"]
<1>1. /\ opps' \in [OppIds -> Opportunity \union {None}]
      /\ src' \in [Sources -> SourceRow \union {None}]
      /\ Rows(opps) \subseteq Rows(opps')
      /\ \A s \in Rows(src') : src'[s].opp \in Rows(opps')
  BY CommitWrites, WritesType DEF Commit
<1>2. /\ UNCHANGED <<published, job, carries, budget>>
      /\ run' = [run EXCEPT ![k] = r] /\ run[k].pc = "write"
      /\ raced' \in BOOLEAN
      /\ disturbed' = (disturbed \ {k}) \union Overlapping(k)
  BY DEF Commit, TypeInv, TypeOK
<1>3. r \in Run /\ r.pc = "finish" /\ r.ids = {}
  BY DEF IdleRun, Run, NoneYet, Moments
<1> HIDE DEF r
<1>4. \A l \in Slots : run'[l] = IF l = k THEN r ELSE run[l]
  BY <1>2 DEF TypeInv, TypeOK
<1>5. run' \in [Slots -> Run]
  BY <1>2, <1>3 DEF TypeInv, TypeOK
<1>6. disturbed' \subseteq {l \in Slots : run'[l].pc \in {"rows", "write"}}
  BY <1>2, <1>4 DEF TypeInv, TypeOK, Overlapping
<1>7. TypeOK'
  BY <1>1, <1>2, <1>5, <1>6 DEF TypeInv, TypeOK
<1>8. Control'
  BY <1>1, <1>2, <1>3, <1>4 DEF TypeInv, Control
<1>9. QED
  BY <1>7, <1>8 DEF TypeInv

LEMMA TypeStep == TypeInv /\ [Next]_vars => TypeInv'
<1> SUFFICES ASSUME TypeInv, [Next]_vars PROVE TypeInv'
  OBVIOUS
<1>1. CASE UNCHANGED vars
  BY <1>1 DEF vars, TypeInv, TypeOK, Control, Rows
<1>2. ASSUME NEW v \in Versions, Publish(v) \/ Submit(v) PROVE TypeInv'
  BY <1>2, TypePublish, TypeSubmit
<1>3. ASSUME NEW k \in Slots, Step(k) \/ Evict(k) \/ Interrupted(k) PROVE TypeInv'
  BY <1>3, TypeStart, TypeGather, TypeCommit, TypeConflict, TypeFinish, TypeEvict,
     TypeInterrupted DEF Step
<1>4. QED
  BY <1>1, <1>2, <1>3 DEF Next

\* Whatever transactions overlap, are rolled back or run again, every variable
\* keeps its type and every source row points to a row of opportunities.
THEOREM TypeCorrect == Spec => []TypeOK
<1>1. Spec => []TypeInv
  BY TypeInit, TypeStep, PTL DEF Spec
<1>2. TypeInv => TypeOK
  BY DEF TypeInv
<1>3. QED
  BY <1>1, <1>2, PTL

-----------------------------------------------------------------------------
(***************************************************************************)
(* What an undisturbed handler has read is what the tables hold: every     *)
(* other transaction that commits disturbs the handlers that have read.    *)
(***************************************************************************)
SnapshotOf(k) ==
    [s \in Sources |-> IF s \in Rows(src) /\ src[s].opp \in run[k].ids THEN src[s] ELSE None]

Coherent ==
    \A k \in Slots \ disturbed :
        /\ run[k].pc \in {"rows", "write"} => run[k].ids = Matches(carries[k])
        /\ run[k].pc = "write" => run[k].src = SnapshotOf(k)

LEMMA CoherentInit == Init => Coherent
BY IdleRunOK DEF Init, Coherent

\* Handlers that read nothing, in a step that writes nothing.
LEMMA CoherentQuiet ==
    ASSUME Coherent, UNCHANGED <<src, opps>>,
           \A l \in Slots \ disturbed' :
                \/ run'[l] = run[l] /\ carries'[l] = carries[l] /\ l \notin disturbed
                \/ run'[l].pc \notin {"rows", "write"}
    PROVE  Coherent'
<1> SUFFICES ASSUME NEW l \in Slots \ disturbed'
             PROVE  /\ run'[l].pc \in {"rows", "write"} => run'[l].ids = Matches(carries[l])'
                    /\ run'[l].pc = "write" => run'[l].src = SnapshotOf(l)'
  BY DEF Coherent
<1>1. CASE run'[l] = run[l] /\ carries'[l] = carries[l] /\ l \notin disturbed
  <2>1. Matches(carries[l])' = Matches(carries[l])
    BY <1>1 DEF Matches, Rows
  <2>2. SnapshotOf(l)' = SnapshotOf(l)
    BY <1>1 DEF SnapshotOf, Rows
  <2>3. QED
    BY <1>1, <2>1, <2>2 DEF Coherent
<1>2. CASE run'[l].pc \notin {"rows", "write"}
  BY <1>2
<1>3. QED
  BY <1>1, <1>2

\* The reads themselves.
LEMMA CoherentGather ==
    ASSUME TypeInv, Coherent, NEW k \in Slots, GatherIds(k) \/ GatherRows(k)
    PROVE  Coherent'
<1>1. UNCHANGED <<src, opps, carries, disturbed>>
  BY DEF GatherIds, GatherRows
<1>2. \A l \in Slots : l # k => run'[l] = run[l]
  BY DEF GatherIds, GatherRows, TypeInv, TypeOK
<1>3. run[k] \in Run
  BY DEF TypeInv, TypeOK
<1>4. \A l \in Slots : Matches(carries[l])' = Matches(carries[l])
  BY <1>1 DEF Matches, Rows
<1>5. \A l \in Slots : SnapshotOf(l)' =
        [s \in Sources |-> IF s \in Rows(src) /\ src[s].opp \in run'[l].ids
                           THEN src[s] ELSE None]
  BY <1>1 DEF SnapshotOf, Rows
<1>6. \A l \in Slots \ disturbed : l # k =>
        /\ run'[l].pc \in {"rows", "write"} => run'[l].ids = Matches(carries[l])'
        /\ run'[l].pc = "write" => run'[l].src = SnapshotOf(l)'
  <2> SUFFICES ASSUME NEW l \in Slots \ disturbed, l # k
               PROVE  /\ run'[l].pc \in {"rows", "write"} =>
                            run'[l].ids = Matches(carries[l])'
                      /\ run'[l].pc = "write" => run'[l].src = SnapshotOf(l)'
    OBVIOUS
  <2>1. SnapshotOf(l)' = SnapshotOf(l)
    BY <1>2, <1>5 DEF SnapshotOf
  <2>2. QED
    BY <1>2, <1>4, <2>1 DEF Coherent
<1>7. k \notin disturbed =>
        /\ run'[k].pc \in {"rows", "write"} => run'[k].ids = Matches(carries[k])'
        /\ run'[k].pc = "write" => run'[k].src = SnapshotOf(k)'
  <2>1. CASE GatherIds(k)
    <3>1. /\ run'[k].ids = Matches(carries[k])
          /\ run'[k].pc = (IF Matches(carries[k]) = {} THEN "write" ELSE "rows")
          /\ run'[k].src = run[k].src
      BY <1>3, <2>1 DEF GatherIds, TypeInv, TypeOK, Run
    <3>2. run[k].src = NoneYet(Sources)
      BY <2>1 DEF GatherIds, TypeInv, Control
    <3>3. Matches(carries[k]) = {} => SnapshotOf(k)' = NoneYet(Sources)
      BY <1>5, <3>1 DEF NoneYet
    <3>4. QED
      BY <1>4, <3>1, <3>2, <3>3
  <2>2. CASE GatherRows(k)
    <3>1. run[k].pc = "rows" /\ run'[k].ids = run[k].ids
      BY <1>3, <2>2 DEF GatherRows, TypeInv, TypeOK, Run
    <3>2. run'[k].src = SnapshotOf(k)
      BY <1>3, <2>2 DEF GatherRows, SnapshotOf, TypeInv, TypeOK, Run
    <3>3. SnapshotOf(k)' = SnapshotOf(k)
      BY <1>5, <3>1 DEF SnapshotOf
    <3>4. QED
      BY <1>4, <3>1, <3>2, <3>3 DEF Coherent
  <2>3. QED
    BY <2>1, <2>2
<1>8. QED
  BY <1>1, <1>6, <1>7 DEF Coherent

\* A commit disturbs every other handler that has read.
LEMMA CoherentCommit ==
    ASSUME TypeInv, NEW k \in Slots, Commit(k)
    PROVE  Coherent'
<1>1. \A l \in Slots \ disturbed' : run'[l].pc \notin {"rows", "write"}
  BY DEF Commit, Overlapping, TypeInv, TypeOK, IdleRun
<1>2. QED
  BY <1>1 DEF Coherent

LEMMA CoherentStep == TypeInv /\ Coherent /\ [Next]_vars => Coherent'
<1> SUFFICES ASSUME TypeInv, Coherent, [Next]_vars PROVE Coherent'
  OBVIOUS
<1>1. CASE UNCHANGED vars
  BY <1>1, CoherentQuiet DEF vars
<1>2. ASSUME NEW v \in Versions, Publish(v) PROVE Coherent'
  BY <1>2, CoherentQuiet DEF Publish
<1>3. ASSUME NEW v \in Versions, Submit(v) PROVE Coherent'
  <2>1. SlotOf(v) \in Slots
    BY DEF Slots
  <2>2. run[SlotOf(v)].pc = "idle"
    BY <1>3, <2>1 DEF Submit, TypeInv, Control
  <2>3. \A l \in Slots : l # SlotOf(v) => carries'[l] = carries[l]
    BY <1>3 DEF Submit, TypeInv, TypeOK
  <2>4. UNCHANGED <<src, opps, run, disturbed>>
    BY <1>3 DEF Submit
  <2>5. QED
    BY <2>2, <2>3, <2>4, CoherentQuiet
<1>4. ASSUME NEW k \in Slots, Evict(k) PROVE Coherent'
  BY <1>4, CoherentQuiet DEF Evict
<1>5. ASSUME NEW k \in Slots, Start(k) \/ Conflict(k) \/ Finish(k) \/ Interrupted(k)
      PROVE  Coherent'
  <2>1. run'[k].pc \in {"idle", "ids"} /\ \A l \in Slots : l # k => run'[l] = run[l]
    BY <1>5, IdleRunOK DEF Start, Conflict, Finish, Interrupted, TypeInv, TypeOK, IdleRun
  <2>2. UNCHANGED <<src, opps, carries>> /\ disturbed \ {k} \subseteq disturbed'
    BY <1>5 DEF Start, Conflict, Finish, Interrupted
  <2>3. QED
    BY <2>1, <2>2, CoherentQuiet
<1>6. ASSUME NEW k \in Slots, GatherIds(k) \/ GatherRows(k) \/ Commit(k) PROVE Coherent'
  BY <1>6, CoherentGather, CoherentCommit
<1>7. QED
  BY <1>1, <1>2, <1>3, <1>4, <1>5, <1>6 DEF Next, Step

\* Every opportunity of a group has a source in the snapshot, so in the table of an
\* undisturbed handler; and the group holds the opportunity of every source that
\* shares the candidate's identity or fingerprint.
LEMMA GroupHolds ==
    ASSUME TypeInv, Coherent, NEW k \in Slots \ disturbed, run[k].pc = "write"
    PROVE  LET v == carries[k]
               g == Group(run[k], v)
           IN  /\ \A o \in g : \E t \in Rows(src) : src[t].opp = o
               /\ \A s \in Rows(src) :
                    s = SourceOf[v] \/ PrintOf[src[s].version] = PrintOf[v] =>
                        src[s].opp \in g
<1> DEFINE m == run[k]
           v == carries[k]
           g == Group(m, v)
<1>1. m.ids = Matches(v) /\ m.src = SnapshotOf(k)
  BY DEF Coherent
<1>2. DOMAIN src = Sources /\ DOMAIN m.src = Sources
  BY <1>1 DEF TypeInv, TypeOK, SnapshotOf
<1>3. \A s \in Sources : m.src[s] =
        IF s \in Rows(src) /\ src[s].opp \in m.ids THEN src[s] ELSE None
  BY <1>1 DEF SnapshotOf
<1> HIDE DEF m, v
<1>4. \A o \in g : \E t \in Rows(src) : src[t].opp = o
  <2> SUFFICES ASSUME NEW o \in g PROVE \E t \in Rows(src) : src[t].opp = o
    OBVIOUS
  <2>1. PICK t \in Rows(m.src) : m.src[t].opp = o
    BY DEF Group, Peopled, On
  <2>2. t \in Sources /\ m.src[t] # None
    BY <1>2 DEF Rows
  <2>3. QED
    BY <1>3, <2>1, <2>2
<1>5. \A s \in Rows(src) :
        s = SourceOf[v] \/ PrintOf[src[s].version] = PrintOf[v] => src[s].opp \in g
  <2> SUFFICES ASSUME NEW s \in Rows(src),
                      s = SourceOf[v] \/ PrintOf[src[s].version] = PrintOf[v]
               PROVE  src[s].opp \in g
    OBVIOUS
  <2> DEFINE o == src[s].opp
  <2>1. s \in Sources /\ src[s] # None
    BY <1>2 DEF Rows
  <2>2. o \in m.ids
    BY <1>1 DEF Matches
  <2>3. m.src[s] = src[s] /\ s \in Rows(m.src)
    BY <1>2, <1>3, <2>1, <2>2 DEF Rows
  <2>4. s \in On(m, o)
    BY <2>3 DEF On
  <2>5. o \in Peopled(m)
    BY <2>2, <2>4 DEF Peopled
  <2>6. Touches(m, v, o)
    BY <2>3, <2>4 DEF Touches, PrintsOn
  <2>7. QED
    BY <2>5, <2>6 DEF Group
<1>6. QED
  BY <1>4, <1>5 DEF m, v

\* The rows after a commit, one by one.
LEMMA CommitRows ==
    ASSUME TypeInv, NEW k \in Slots, Commit(k)
    PROVE  LET v == carries[k]
               g == Group(run[k], v)
           IN  \E target \in OppIds :
                 /\ g # {} => target \in g
                 /\ \A o \in OppIds :
                      /\ o # target /\ o \notin g => opps'[o] = opps[o]
                      /\ o = target /\ o \notin g => opps'[o].status = "New"
                      /\ o = target /\ o \in g => opps'[o].status = opps[o].status
                 /\ \A s \in Sources :
                      /\ s = SourceOf[v] => src'[s].opp = target
                      /\ s # SourceOf[v] /\ src[s] # None /\ src[s].opp \in g =>
                            src'[s].opp = target /\ src'[s].version = src[s].version
                      /\ s # SourceOf[v] /\ ~(src[s] # None /\ src[s].opp \in g) =>
                            src'[s] = src[s]
<1> DEFINE v == carries[k]
           g == Group(run[k], v)
<1>1. PICK target \in Targets(g), wins \in BOOLEAN :
        opps' = Merged(v, g, target, wins, run[k].now) /\ src' = Moved(v, g, target)
  BY CommitWrites
<1>2. run[k].pc = "write" /\ TypeOK
  BY DEF Commit, TypeInv
<1>3. /\ v \in Versions /\ run[k].now \in Moments /\ g \in SUBSET Rows(opps)
      /\ target \in OppIds /\ (g # {} => target \in g)
  BY <1>2, GroupType
<1> HIDE DEF v, g
<1>4. \A o \in OppIds :
        /\ o # target /\ o \notin g => opps'[o] = opps[o]
        /\ o = target /\ o \notin g => opps'[o].status = "New"
        /\ o = target /\ o \in g => opps'[o].status = opps[o].status
  BY <1>1, <1>2, <1>3, MergedRows
<1>5. \A s \in Sources :
        /\ s = SourceOf[v] => src'[s].opp = target
        /\ s # SourceOf[v] /\ src[s] # None /\ src[s].opp \in g =>
                src'[s].opp = target /\ src'[s].version = src[s].version
        /\ s # SourceOf[v] /\ ~(src[s] # None /\ src[s].opp \in g) => src'[s] = src[s]
  BY <1>1, <1>2, <1>3, MovedRows
<1>6. QED
  BY <1>3, <1>4, <1>5 DEF v, g

LEMMA StrandedStep ==
    TypeInv /\ Coherent /\ NoSourceStranded /\ [Next]_vars => NoSourceStranded'
<1> SUFFICES ASSUME TypeInv, Coherent, NoSourceStranded, [Next]_vars
             PROVE  NoSourceStranded'
  OBVIOUS
<1>1. CASE UNCHANGED <<opps, src, raced>>
  BY <1>1 DEF NoSourceStranded, Rows
<1>2. ASSUME NEW k \in Slots, Commit(k) PROVE NoSourceStranded'
  <2>1. SUFFICES ASSUME ~raced, k \notin disturbed, NEW s \in Rows(src')
                 PROVE  opps'[src'[s].opp].status # "Duplicate"
    BY <1>2 DEF Commit, NoSourceStranded
  <2> DEFINE v == carries[k]
             g == Group(run[k], v)
  <2>2. PICK target \in OppIds :
          /\ g # {} => target \in g
          /\ \A o \in OppIds :
               /\ o # target /\ o \notin g => opps'[o] = opps[o]
               /\ o = target /\ o \notin g => opps'[o].status = "New"
               /\ o = target /\ o \in g => opps'[o].status = opps[o].status
          /\ \A t \in Sources :
               /\ t = SourceOf[v] => src'[t].opp = target
               /\ t # SourceOf[v] /\ src[t] # None /\ src[t].opp \in g =>
                    src'[t].opp = target
               /\ t # SourceOf[v] /\ ~(src[t] # None /\ src[t].opp \in g) =>
                    src'[t] = src[t]
    BY <1>2, CommitRows
  <2>3. \A o \in g : \E t \in Rows(src) : src[t].opp = o
    BY <1>2, <2>1, GroupHolds DEF Commit
  <2> HIDE DEF v, g
  <2>4. \A t \in Rows(src) : opps[src[t].opp].status # "Duplicate"
    BY <2>1 DEF NoSourceStranded
  <2>5. opps'[target].status # "Duplicate"
    <3>1. CASE target \in g
      BY <2>2, <2>3, <2>4, <3>1
    <3>2. CASE target \notin g
      BY <2>2, <3>2
    <3>3. QED
      BY <3>1, <3>2
  <2>6. s \in Sources /\ src'[s] # None
    BY <1>2, TypeCommit DEF TypeInv, TypeOK, Rows
  <2>7. CASE src'[s].opp = target
    BY <2>5, <2>7
  <2>8. CASE src'[s].opp # target
    <3>1. src'[s] = src[s] /\ src[s].opp \notin g
      BY <2>2, <2>6, <2>8
    <3>2. s \in Rows(src)
      BY <2>6, <3>1 DEF TypeInv, TypeOK, Rows
    <3>3. src[s].opp \in OppIds
      BY <3>2 DEF TypeInv, TypeOK, Rows
    <3>4. opps'[src[s].opp] = opps[src[s].opp]
      BY <2>2, <2>8, <3>1, <3>3
    <3>5. QED
      BY <2>4, <3>1, <3>2, <3>4
  <2>9. QED
    BY <2>7, <2>8
<1>3. QED
  <2>1. ASSUME NEW v \in Versions, Publish(v) \/ Submit(v)
        PROVE  UNCHANGED <<opps, src, raced>>
    BY <2>1 DEF Publish, Submit
  <2>2. ASSUME NEW k \in Slots,
               Start(k) \/ GatherIds(k) \/ GatherRows(k) \/ Conflict(k) \/ Finish(k)
                 \/ Evict(k) \/ Interrupted(k)
        PROVE  UNCHANGED <<opps, src, raced>>
    BY <2>2 DEF Start, GatherIds, GatherRows, Conflict, Finish, Evict, Interrupted
  <2>3. QED
    BY <1>1, <1>2, <2>1, <2>2 DEF Next, Step, vars

\* Until a handler commits on stale reads, no source stays attached to an
\* opportunity that was merged away (runDedup's move of the merged sources).
THEOREM NoSourceStrandedAlways == Spec => []NoSourceStranded
<1>1. Init => NoSourceStranded
  BY DEF Init, NoSourceStranded, NoneYet, Rows
<1>2. TypeInv /\ Coherent /\ NoSourceStranded /\ [Next]_vars
        => (TypeInv /\ Coherent /\ NoSourceStranded)'
  BY TypeStep, CoherentStep, StrandedStep
<1>3. QED
  BY <1>1, <1>2, TypeInit, CoherentInit, PTL DEF Spec

-----------------------------------------------------------------------------
\* Only Commit takes a handler from its writes to the end.
LEMMA OnlyCommitCommits ==
    ASSUME TypeInv, [Next]_vars, NEW k \in Slots, Commits(k)
    PROVE  Commit(k)
<1>1. run'[k] # run[k]
  BY DEF Commits
<1>2. PICK l \in Slots : Step(l) \/ Interrupted(l)
  BY <1>1 DEF Next, vars, Publish, Submit, Evict
<1>3. l = k
  BY <1>1, <1>2 DEF Step, Start, GatherIds, GatherRows, Commit, Conflict, Finish,
     Interrupted, TypeInv, TypeOK
<1>4. run'[k] # IdleRun
  BY IdleRunOK DEF Commits
<1>5. run \in [Slots -> Run]
  BY DEF TypeInv, TypeOK
<1>6. ~Conflict(k) /\ ~Finish(k) /\ ~Interrupted(k)
  BY <1>4, <1>5 DEF Conflict, Finish, Interrupted
<1>7. ~Start(k) /\ ~GatherIds(k) /\ ~GatherRows(k)
  <2>1. run[k].pc = "write"
    BY DEF Commits
  <2>2. ~Start(k)
    BY <1>5, <2>1 DEF Start, IdleRun, Commits
  <2>3. QED
    BY <2>1, <2>2 DEF GatherIds, GatherRows
<1>8. QED
  BY <1>2, <1>3, <1>6, <1>7 DEF Step

LEMMA UnitesStep ==
    ASSUME TypeInv, Coherent, [Next]_vars, NEW k \in Slots, Commits(k), k \notin disturbed,
           NEW s \in Rows(src'), PrintOf[src'[s].version] = PrintOf[carries[k]]
    PROVE  src'[s].opp = src'[SourceOf[carries[k]]].opp
<1> DEFINE v == carries[k]
           g == Group(run[k], v)
<1>1. Commit(k) /\ run[k].pc = "write"
  BY OnlyCommitCommits DEF Commits
<1>2. PICK target \in OppIds :
        \A t \in Sources :
            /\ t = SourceOf[v] => src'[t].opp = target
            /\ t # SourceOf[v] /\ src[t] # None /\ src[t].opp \in g =>
                 src'[t].opp = target /\ src'[t].version = src[t].version
            /\ t # SourceOf[v] /\ ~(src[t] # None /\ src[t].opp \in g) => src'[t] = src[t]
  BY <1>1, CommitRows
<1>3. \A t \in Rows(src) : PrintOf[src[t].version] = PrintOf[v] => src[t].opp \in g
  BY <1>1, GroupHolds
<1>4. s \in Sources /\ src'[s] # None
  BY <1>1, TypeCommit DEF TypeInv, TypeOK, Rows
<1>5. SourceOf[v] \in Sources
  BY <1>1, GroupType
<1> HIDE DEF g
<1>6. CASE s = SourceOf[v]
  BY <1>6
<1>7. CASE s # SourceOf[v]
  <2>1. SUFFICES ASSUME src'[s] = src[s] PROVE src[s] # None /\ src[s].opp \in g
    BY <1>2, <1>4, <1>5, <1>7
  <2>2. s \in Rows(src)
    BY <1>4, <2>1 DEF TypeInv, TypeOK, Rows
  <2>3. QED
    BY <1>3, <1>4, <2>1, <2>2
<1>8. QED
  BY <1>6, <1>7

\* A transaction no other one overlapped gathers every source with the candidate's
\* fingerprint and leaves it on the candidate's opportunity.
THEOREM CommitUnitesAlways == Spec => CommitUnites
<1> DEFINE Unites ==
        \A k \in Slots : Commits(k) /\ k \notin disturbed =>
            \A s \in Rows(src') : PrintOf[src'[s].version] = PrintOf[carries[k]] =>
                src'[s].opp = src'[SourceOf[carries[k]]].opp
<1>1. TypeInv /\ Coherent /\ [Next]_vars => (TypeInv /\ Coherent)'
  BY TypeStep, CoherentStep
<1>2. TypeInv /\ Coherent /\ [Next]_vars => [Unites]_vars
  BY UnitesStep
<1>3. Spec => [][Unites]_vars
  BY <1>1, <1>2, TypeInit, CoherentInit, PTL DEF Spec
<1>4. QED
  BY <1>3 DEF CommitUnites

\* Until a handler commits on stale reads, a listed row with the values of a first-party
\* source has such a source attached.
Guarded ==
    raced \/ \A o \in Rows(opps) :
                opps[o].status # "Duplicate" /\ SourceOf[opps[o].from] \in FirstParty =>
                    \E s \in Rows(src) \intersect FirstParty : src[s].opp = o

\* What a commit leaves of the values of every row, and of the sources.
LEMMA CommitValues ==
    ASSUME TypeInv, NEW k \in Slots, Commit(k)
    PROVE  LET v == carries[k]
               g == Group(run[k], v)
           IN  \E target \in OppIds, wins \in BOOLEAN :
                 /\ wins => CandidateWins(run[k], v, g)
                 /\ IF g = {} THEN target \notin Rows(opps) ELSE target \in g
                 /\ \A o \in Rows(opps) :
                      /\ opps'[o].from = opps[o].from \/ (wins /\ o \in g /\ opps'[o].from = v)
                      /\ o # target /\ o \in g => opps'[o].status = "Duplicate"
                      /\ o # target /\ o \notin g => opps'[o] = opps[o]
                      /\ o = target => opps'[o].status = opps[o].status
                 /\ g = {} \/ wins => opps'[target].from = v
                 /\ Rows(opps') \subseteq Rows(opps) \union {target}
                 /\ SourceOf[v] \in Rows(src') /\ src'[SourceOf[v]].opp = target
                 /\ \A s \in Rows(src) :
                      /\ s \in Rows(src')
                      /\ src[s].opp \in g => src'[s].opp = target
                      /\ s # SourceOf[v] /\ src[s].opp \notin g => src'[s] = src[s]
<1> DEFINE v == carries[k]
           m == run[k]
           g == Group(m, v)
<1>1. PICK target \in Targets(g), wins \in BOOLEAN :
        /\ wins => CandidateWins(m, v, g)
        /\ opps' = Merged(v, g, target, wins, m.now)
        /\ src' = Moved(v, g, target)
  BY CommitWrites
<1>2. m.pc = "write" /\ TypeOK
  BY DEF Commit, TypeInv
<1>3. /\ v \in Versions /\ g \in SUBSET Rows(opps) /\ target \in OppIds
      /\ SourceOf[v] \in Sources
      /\ IF g = {} THEN target \notin Rows(opps) ELSE target \in g
  BY <1>2, GroupType
<1>4. /\ Rows(opps) = {o \in OppIds : opps[o] # None}
      /\ Rows(src) = {s \in Sources : src[s] # None}
      /\ \A o \in Rows(opps) : opps[o] \in Opportunity
  BY <1>2 DEF TypeOK, Rows
<1>5. /\ Rows(opps') = {o \in OppIds : opps'[o] # None}
      /\ Rows(src') = {s \in Sources : src'[s] # None}
  BY <1>1 DEF Merged, Moved, Rows
<1>6. \A o \in OppIds :
        opps'[o] = IF o \notin g
                   THEN IF o = target THEN [from |-> v, status |-> "New", last |-> m.now]
                                      ELSE opps[o]
                   ELSE IF o = target
                   THEN [opps[o] EXCEPT !.from = IF wins THEN v ELSE @, !.last = m.now]
                   ELSE [opps[o] EXCEPT !.status = "Duplicate", !.last = m.now]
  BY <1>1 DEF Merged
<1>7. \A s \in Sources :
        /\ src'[s] \in SourceRow \union {None}
        /\ s = SourceOf[v] => src'[s] \in SourceRow /\ src'[s].opp = target
        /\ s # SourceOf[v] /\ src[s] # None /\ src[s].opp \in g =>
             src'[s] \in SourceRow /\ src'[s].opp = target
        /\ s # SourceOf[v] /\ ~(src[s] # None /\ src[s].opp \in g) => src'[s] = src[s]
  BY <1>1, <1>2, <1>3, MovedRows
<1> HIDE DEF v, m, g
<1>8. \A o \in Rows(opps) :
        /\ opps'[o].from = opps[o].from \/ (wins /\ o \in g /\ opps'[o].from = v)
        /\ o # target /\ o \in g => opps'[o].status = "Duplicate"
        /\ o # target /\ o \notin g => opps'[o] = opps[o]
        /\ o = target => opps'[o].status = opps[o].status
  <2> SUFFICES ASSUME NEW o \in Rows(opps)
               PROVE  /\ \/ opps'[o].from = opps[o].from
                         \/ wins /\ o \in g /\ opps'[o].from = v
                      /\ o # target /\ o \in g => opps'[o].status = "Duplicate"
                      /\ o # target /\ o \notin g => opps'[o] = opps[o]
                      /\ o = target => opps'[o].status = opps[o].status
    OBVIOUS
  <2>1. o \in OppIds /\ opps[o] \in Opportunity
    BY <1>4
  <2>2. CASE o \notin g
    BY <1>3, <1>6, <2>1, <2>2
  <2>3. CASE o \in g /\ o = target
    BY <1>6, <2>1, <2>3 DEF Opportunity
  <2>4. CASE o \in g /\ o # target
    BY <1>6, <2>1, <2>4 DEF Opportunity
  <2>5. QED
    BY <2>2, <2>3, <2>4
<1>9. g = {} \/ wins => opps'[target].from = v
  <2>1. CASE g = {}
    BY <1>3, <1>6, <2>1
  <2>2. CASE g # {} /\ wins
    <3>1. target \in Rows(opps) /\ opps[target] \in Opportunity
      BY <1>3, <1>4, <2>2
    <3>2. QED
      BY <1>3, <1>6, <2>2, <3>1 DEF Opportunity
  <2>3. QED
    BY <2>1, <2>2
<1>10. Rows(opps') \subseteq Rows(opps) \union {target}
  BY <1>3, <1>4, <1>5, <1>6
<1>11. SourceOf[v] \in Rows(src') /\ src'[SourceOf[v]].opp = target
  BY <1>3, <1>5, <1>7, NoneAssumption
<1>12. \A s \in Rows(src) :
         /\ s \in Rows(src')
         /\ src[s].opp \in g => src'[s].opp = target
         /\ s # SourceOf[v] /\ src[s].opp \notin g => src'[s] = src[s]
  BY <1>4, <1>5, <1>7, NoneAssumption
<1>13. QED
  BY <1>1, <1>3, <1>8, <1>9, <1>10, <1>11, <1>12 DEF v, m, g

LEMMA GuardedStep == TypeInv /\ Coherent /\ Guarded /\ [Next]_vars => Guarded'
<1> SUFFICES ASSUME TypeInv, Coherent, Guarded, [Next]_vars
             PROVE  Guarded'
  OBVIOUS
<1>1. CASE UNCHANGED <<opps, src, raced>>
  BY <1>1 DEF Guarded, Rows
<1>2. ASSUME NEW k \in Slots, Commit(k) PROVE Guarded'
  <2>1. SUFFICES ASSUME ~raced, k \notin disturbed, NEW o \in Rows(opps'),
                        opps'[o].status # "Duplicate", SourceOf[opps'[o].from] \in FirstParty
                 PROVE  \E s \in Rows(src') \intersect FirstParty : src'[s].opp = o
    BY <1>2 DEF Commit, Guarded
  <2> DEFINE v == carries[k]
             m == run[k]
             g == Group(m, v)
  <2>2. PICK target \in OppIds, wins \in BOOLEAN :
          /\ wins => CandidateWins(m, v, g)
          /\ IF g = {} THEN target \notin Rows(opps) ELSE target \in g
          /\ \A p \in Rows(opps) :
               /\ opps'[p].from = opps[p].from \/ (wins /\ p \in g /\ opps'[p].from = v)
               /\ p # target /\ p \in g => opps'[p].status = "Duplicate"
               /\ p # target /\ p \notin g => opps'[p] = opps[p]
               /\ p = target => opps'[p].status = opps[p].status
          /\ g = {} \/ wins => opps'[target].from = v
          /\ Rows(opps') \subseteq Rows(opps) \union {target}
          /\ SourceOf[v] \in Rows(src') /\ src'[SourceOf[v]].opp = target
          /\ \A s \in Rows(src) :
               /\ s \in Rows(src')
               /\ src[s].opp \in g => src'[s].opp = target
               /\ s # SourceOf[v] /\ src[s].opp \notin g => src'[s] = src[s]
    BY <1>2, CommitValues
  <2>3. \A s \in Rows(src) : s = SourceOf[v] => src[s].opp \in g
    BY <1>2, <2>1, GroupHolds DEF Commit
  <2>4. g \subseteq Rows(opps)
    BY <1>2, GroupType DEF Commit
  <2> HIDE DEF v, m, g
  <2>5. CASE o = target /\ (g = {} \/ wins)
    BY <2>1, <2>2, <2>5
  <2>6. CASE o = target /\ g # {} /\ ~wins
    <3>1. o \in Rows(opps) /\ o \in g
      BY <2>2, <2>4, <2>6
    <3>2. opps'[o].from = opps[o].from /\ opps[o].status # "Duplicate"
      BY <2>1, <2>2, <2>6, <3>1
    <3>3. PICK s \in Rows(src) \intersect FirstParty : src[s].opp = o
      BY <2>1, <3>1, <3>2 DEF Guarded
    <3>4. QED
      BY <2>2, <2>6, <3>1, <3>3
  <2>7. CASE o # target
    <3>1. o \in Rows(opps) /\ o \notin g /\ opps'[o] = opps[o]
      BY <2>1, <2>2, <2>7
    <3>2. PICK s \in Rows(src) \intersect FirstParty : src[s].opp = o
      BY <2>1, <3>1 DEF Guarded
    <3>3. QED
      BY <2>2, <2>3, <3>1, <3>2
  <2>8. QED
    BY <2>5, <2>6, <2>7
<1>3. QED
  <2>1. ASSUME NEW v \in Versions, Publish(v) \/ Submit(v)
        PROVE  UNCHANGED <<opps, src, raced>>
    BY <2>1 DEF Publish, Submit
  <2>2. ASSUME NEW k \in Slots,
               Start(k) \/ GatherIds(k) \/ GatherRows(k) \/ Conflict(k) \/ Finish(k)
                 \/ Evict(k) \/ Interrupted(k)
        PROVE  UNCHANGED <<opps, src, raced>>
    BY <2>2 DEF Start, GatherIds, GatherRows, Conflict, Finish, Evict, Interrupted
  <2>3. QED
    BY <1>1, <1>2, <2>1, <2>2 DEF Next, Step, vars

\* A candidate that wins is first-party where the row is guarded by one that is.
LEMMA WinnerIsFirstParty ==
    ASSUME TypeInv, Coherent, NEW k \in Slots \ disturbed, run[k].pc = "write",
           NEW s \in Rows(src) \intersect FirstParty,
           src[s].opp \in Group(run[k], carries[k]),
           CandidateWins(run[k], carries[k], Group(run[k], carries[k]))
    PROVE  SourceOf[carries[k]] \in FirstParty
<1> DEFINE m == run[k]
           v == carries[k]
           g == Group(m, v)
<1>1. m.src = SnapshotOf(k)
  BY DEF Coherent
<1>2. s \in Sources /\ src[s] # None
  BY DEF TypeInv, TypeOK, Rows
<1>3. src[s].opp \in m.ids
  BY DEF Group, Peopled
<1>4. m.src[s] = src[s] /\ DOMAIN m.src = Sources
  BY <1>1, <1>2, <1>3 DEF SnapshotOf
<1>5. s \in Members(m, g)
  BY <1>2, <1>4 DEF Members, Rows
<1> HIDE DEF m, v, g
<1>6. Beats(m, v, s)
  BY <1>5 DEF CandidateWins, m, v, g
<1>7. SourceOf[v] \in FirstParty
  BY <1>6 DEF Beats
<1>8. QED
  BY <1>7 DEF v

LEMMA FirstPartyStep ==
    ASSUME TypeInv, Coherent, NoSourceStranded, Guarded, [Next]_vars, ~raced',
           NEW o \in Rows(opps), SourceOf[opps[o].from] \in FirstParty
    PROVE  SourceOf[opps'[o].from] \in FirstParty
<1>1. CASE UNCHANGED opps
  BY <1>1
<1>2. ASSUME NEW k \in Slots, Commit(k) PROVE SourceOf[opps'[o].from] \in FirstParty
  <2> DEFINE v == carries[k]
             m == run[k]
             g == Group(m, v)
  <2>1. ~raced /\ k \notin disturbed /\ m.pc = "write"
    BY <1>2 DEF Commit
  <2>2. PICK wins \in BOOLEAN :
          /\ wins => CandidateWins(m, v, g)
          /\ opps'[o].from = opps[o].from \/ (wins /\ o \in g /\ opps'[o].from = v)
    BY <1>2, CommitValues
  <2>3. CASE opps'[o].from = opps[o].from
    BY <2>3
  <2>4. CASE wins /\ o \in g /\ opps'[o].from = v
    <3>1. PICK t \in Rows(src) : src[t].opp = o
      BY <2>1, <2>4, GroupHolds
    <3>2. opps[o].status # "Duplicate"
      BY <2>1, <3>1 DEF NoSourceStranded
    <3>3. PICK s \in Rows(src) \intersect FirstParty : src[s].opp = o
      BY <2>1, <3>2 DEF Guarded
    <3>4. SourceOf[v] \in FirstParty
      BY <2>1, <2>2, <2>4, <3>3, WinnerIsFirstParty
    <3>5. QED
      BY <2>4, <3>4
  <2>5. QED
    BY <2>2, <2>3, <2>4
<1>3. QED
  <2>1. ASSUME NEW v \in Versions, Publish(v) \/ Submit(v) PROVE UNCHANGED opps
    BY <2>1 DEF Publish, Submit
  <2>2. ASSUME NEW k \in Slots,
               Start(k) \/ GatherIds(k) \/ GatherRows(k) \/ Conflict(k) \/ Finish(k)
                 \/ Evict(k) \/ Interrupted(k)
        PROVE  UNCHANGED opps
    BY <2>2 DEF Start, GatherIds, GatherRows, Conflict, Finish, Evict, Interrupted
  <2>3. QED
    BY <1>1, <1>2, <2>1, <2>2 DEF Next, Step, vars

\* Until a handler commits on stale reads, an aggregator's record never takes the place
\* of values a first-party source gave, whatever its confidence: no merge or move parts a
\* listed row from its first-party source (chooseCanonical, runDedup).
THEOREM FirstPartyKeptAlways == Spec => FirstPartyKept
<1> DEFINE Kept ==
        ~raced' => \A o \in Rows(opps) :
            SourceOf[opps[o].from] \in FirstParty => SourceOf[opps'[o].from] \in FirstParty
           Inv == TypeInv /\ Coherent /\ NoSourceStranded /\ Guarded
<1>1. Init => Inv
  BY TypeInit, CoherentInit DEF Init, NoSourceStranded, Guarded, NoneYet, Rows
<1>2. Inv /\ [Next]_vars => Inv'
  BY TypeStep, CoherentStep, StrandedStep, GuardedStep
<1>3. Inv /\ [Next]_vars => [Kept]_vars
  BY FirstPartyStep
<1>4. Spec => [][Kept]_vars
  BY <1>1, <1>2, <1>3, PTL DEF Spec
<1>5. QED
  BY <1>4 DEF FirstPartyKept

-----------------------------------------------------------------------------
(***************************************************************************)
(* What an attempt that is rolled back ran into.                           *)
(***************************************************************************)

\* opportunities_canonical_url_unique.
UrlsDiffer ==
    \A o, p \in Rows(opps) : UrlOf[opps[o].from] = UrlOf[opps[p].from] => o = p

\* Until a handler commits on stale reads, what is listed has a source.
ListedHaveSources ==
    raced \/ \A o \in Rows(opps) :
                opps[o].status # "Duplicate" => \E s \in Rows(src) : src[s].opp = o

\* An undisturbed handler has the rows of its opportunities as they are.
RowsAreRead ==
    \A k \in Slots \ disturbed :
        run[k].pc = "write" => \A o \in run[k].ids : run[k].opps[o] = opps[o]

RollInv == UrlsDiffer /\ ListedHaveSources /\ RowsAreRead

LEMMA RollInit == Init => RollInv
BY IdleRunOK DEF Init, RollInv, UrlsDiffer, ListedHaveSources, RowsAreRead, NoneYet, Rows

\* A group has one target, the smallest id in it.
LEMMA OneTarget ==
    ASSUME NEW g \in SUBSET OppIds, g # {}, NEW o \in Targets(g), NEW p \in Targets(g)
    PROVE  o = p
<1>1. o \in Nat /\ p \in Nat
  BY RecordAssumption DEF Targets
<1>2. o <= p /\ p <= o
  BY DEF Targets
<1>3. QED
  BY <1>1, <1>2

\* What a commit leaves of every row: the target has its URL from before or one that
\* no other row has, and the others of the group are Duplicates.
LEMMA CommitTarget ==
    ASSUME TypeInv, NEW k \in Slots, Commit(k)
    PROVE  LET v == carries[k]
               g == Group(run[k], v)
           IN  \E target \in OppIds :
                 /\ target \in g \/ target \notin Rows(opps)
                 /\ \A o \in OppIds \ {target} :
                      \/ o \notin g /\ opps'[o] = opps[o]
                      \/ /\ o \in g /\ opps'[o].status = "Duplicate"
                         /\ opps'[o].from = opps[o].from
                 /\ \/ target \in g /\ opps'[target].from = opps[target].from
                    \/ /\ opps'[target].from = v
                       /\ \A o \in Rows(opps) \ {target} : UrlOf[opps[o].from] # UrlOf[v]
                 /\ src'[SourceOf[v]].opp = target
                 /\ \A s \in Rows(src) : s # SourceOf[v] /\ src[s].opp \notin g => src'[s] = src[s]
<1> DEFINE v == carries[k]
           m == run[k]
           g == Group(m, v)
           wins == CandidateWins(m, v, g)
<1>1. PICK target \in Targets(g) :
        opps' = Merged(v, g, target, wins, m.now) /\ src' = Moved(v, g, target)
  BY DEF Commit
<1>2. m.pc = "write" /\ (wins => ~UrlTaken(v, g)) /\ TypeOK
  BY DEF Commit, TypeInv
<1>3. /\ v \in Versions /\ g \in SUBSET Rows(opps) /\ target \in OppIds
      /\ SourceOf[v] \in Sources
      /\ g # {} => target \in g
      /\ g = {} => target \notin Rows(opps)
  BY <1>2, GroupType
<1>4. g = {} => wins
  BY DEF CandidateWins, Members
<1>5. Rows(opps) \subseteq OppIds /\ \A o \in Rows(opps) : opps[o] \in Opportunity
  BY <1>2 DEF TypeOK, Rows
<1>6. wins => \A o \in Rows(opps) \ {target} : UrlOf[opps[o].from] # UrlOf[v]
  <2> SUFFICES ASSUME wins, NEW o \in Rows(opps) \ {target} PROVE UrlOf[opps[o].from] # UrlOf[v]
    OBVIOUS
  <2>1. o \notin Targets(g)
    <3>1. CASE g = {}
      BY <3>1 DEF Targets
    <3>2. CASE g # {}
      BY <1>3, <1>5, <3>2, OneTarget
    <3>3. QED
      BY <3>1, <3>2
  <2>2. QED
    BY <1>2, <2>1 DEF UrlTaken
<1>7. \A o \in OppIds :
        opps'[o] = IF o \notin g
                   THEN IF o = target THEN [from |-> v, status |-> "New", last |-> m.now]
                                      ELSE opps[o]
                   ELSE IF o = target
                   THEN [opps[o] EXCEPT !.from = IF wins THEN v ELSE @, !.last = m.now]
                   ELSE [opps[o] EXCEPT !.status = "Duplicate", !.last = m.now]
  BY <1>1 DEF Merged
<1>8. \A s \in Sources :
        /\ s = SourceOf[v] => src'[s].opp = target
        /\ s # SourceOf[v] /\ ~(src[s] # None /\ src[s].opp \in g) => src'[s] = src[s]
  BY <1>1, <1>2, <1>3, MovedRows
<1>9. DOMAIN src = Sources
  BY <1>2 DEF TypeOK
<1> HIDE DEF v, m, g, wins
<1>10. \A o \in OppIds \ {target} :
         \/ o \notin g /\ opps'[o] = opps[o]
         \/ o \in g /\ opps'[o].status = "Duplicate" /\ opps'[o].from = opps[o].from
  BY <1>3, <1>5, <1>7 DEF Opportunity
<1>11. \/ target \in g /\ opps'[target].from = opps[target].from
       \/ /\ opps'[target].from = v
          /\ \A o \in Rows(opps) \ {target} : UrlOf[opps[o].from] # UrlOf[v]
  <2>1. CASE target \in g /\ ~wins
    BY <1>3, <1>5, <1>7, <2>1 DEF Opportunity
  <2>2. CASE target \in g /\ wins
    BY <1>3, <1>5, <1>6, <1>7, <2>2 DEF Opportunity
  <2>3. CASE target \notin g
    <3>1. opps'[target] = [from |-> v, status |-> "New", last |-> m.now]
      BY <1>3, <1>7, <2>3
    <3>2. \A o \in Rows(opps) \ {target} : UrlOf[opps[o].from] # UrlOf[v]
      BY <1>3, <1>4, <1>6, <2>3, Zenon
    <3>3. QED
      BY <3>1, <3>2
  <2>4. QED
    BY <2>1, <2>2, <2>3
<1>12. \A s \in Rows(src) : s # SourceOf[v] /\ src[s].opp \notin g => src'[s] = src[s]
  BY <1>8, <1>9 DEF Rows
<1>13. target \in g \/ target \notin Rows(opps)
  BY <1>3
<1>14. src'[SourceOf[v]].opp = target
  BY <1>3, <1>8
<1>15. QED
  BY <1>3, <1>10, <1>11, <1>12, <1>13, <1>14 DEF v, g, m

\* No step but a commit writes the tables.
LEMMA OnlyCommitWrites ==
    ASSUME [Next]_vars, ~UNCHANGED <<opps, src, raced>>
    PROVE  \E k \in Slots : Commit(k)
<1>1. ~UNCHANGED vars
  BY DEF vars
<1>2. ASSUME NEW v \in Versions, Publish(v) \/ Submit(v) PROVE FALSE
  BY <1>2 DEF Publish, Submit
<1>3. ASSUME NEW k \in Slots,
             Start(k) \/ GatherIds(k) \/ GatherRows(k) \/ Conflict(k) \/ Finish(k)
               \/ Evict(k) \/ Interrupted(k)
      PROVE  FALSE
  BY <1>3 DEF Start, GatherIds, GatherRows, Conflict, Finish, Evict, Interrupted
<1>4. QED
  BY <1>1, <1>2, <1>3 DEF Next, Step

\* The writes of a commit keep the index, and every listed row its source.
LEMMA TablesStep ==
    ASSUME TypeInv, Coherent, UrlsDiffer, ListedHaveSources, [Next]_vars
    PROVE  UrlsDiffer' /\ ListedHaveSources'
<1>1. CASE UNCHANGED <<opps, src, raced>>
  BY <1>1 DEF UrlsDiffer, ListedHaveSources, Rows
<1>2. ASSUME NEW k \in Slots, Commit(k) PROVE UrlsDiffer' /\ ListedHaveSources'
  <2> DEFINE v == carries[k]
             g == Group(run[k], v)
  <2>1. PICK target \in OppIds :
          /\ target \in g \/ target \notin Rows(opps)
          /\ \A o \in OppIds \ {target} :
               \/ o \notin g /\ opps'[o] = opps[o]
               \/ o \in g /\ opps'[o].status = "Duplicate" /\ opps'[o].from = opps[o].from
          /\ \/ target \in g /\ opps'[target].from = opps[target].from
             \/ /\ opps'[target].from = v
                /\ \A o \in Rows(opps) \ {target} : UrlOf[opps[o].from] # UrlOf[v]
          /\ src'[SourceOf[v]].opp = target
          /\ \A s \in Rows(src) : s # SourceOf[v] /\ src[s].opp \notin g => src'[s] = src[s]
    BY <1>2, CommitTarget
  <2>2. g \subseteq Rows(opps) /\ SourceOf[v] \in Sources
    BY <1>2, GroupType DEF Commit
  <2>3. TypeOK /\ TypeOK' /\ Rows(opps) \subseteq OppIds /\ Rows(opps') \subseteq OppIds
    BY <1>2, TypeCommit DEF TypeInv, TypeOK, Rows
  <2>4. k \notin disturbed => \A s \in Rows(src) : s = SourceOf[v] => src[s].opp \in g
    BY <1>2, GroupHolds DEF Commit
  <2> HIDE DEF v, g
  <2>5. \A o \in Rows(opps') \ {target} : o \in Rows(opps) /\ opps'[o].from = opps[o].from
    BY <2>1, <2>2, <2>3 DEF Rows, TypeOK
  <2>6. UrlsDiffer'
    <3> SUFFICES ASSUME NEW o \in Rows(opps'), NEW p \in Rows(opps'), o # p
                 PROVE  UrlOf[opps'[o].from] # UrlOf[opps'[p].from]
      BY DEF UrlsDiffer
    <3>1. CASE o # target /\ p # target
      BY <2>5, <3>1 DEF UrlsDiffer
    <3>2. \A q \in Rows(opps') \ {target} : UrlOf[opps'[q].from] # UrlOf[opps'[target].from]
      BY <2>1, <2>2, <2>5 DEF UrlsDiffer
    <3>3. QED
      BY <3>1, <3>2
  <2>7. ListedHaveSources'
    <3> SUFFICES ASSUME ~raced, k \notin disturbed, NEW o \in Rows(opps'),
                        opps'[o].status # "Duplicate"
                 PROVE  \E s \in Rows(src') : src'[s].opp = o
      BY <1>2 DEF ListedHaveSources, Commit
    <3>1. CASE o = target
      <4>1. src' = [s \in Sources |-> src'[s]] /\ src'[SourceOf[v]] # None
        <5>1. PICK t \in Targets(Group(run[k], carries[k])) :
                src' = Moved(carries[k], Group(run[k], carries[k]), t)
          BY <1>2 DEF Commit
        <5>2. src'[SourceOf[v]] = [opp |-> t, version |-> v]
          BY <2>2, <5>1 DEF Moved, v
        <5>3. t \in OppIds /\ v \in Versions
          BY <1>2, GroupType DEF Commit, v
        <5>4. [opp |-> t, version |-> v] \in SourceRow
          BY <5>3 DEF SourceRow
        <5>5. QED
          BY <2>3, <5>2, <5>4, NoneAssumption DEF TypeOK
      <4>2. QED
        BY <2>1, <2>2, <3>1, <4>1 DEF Rows
    <3>2. CASE o # target
      <4>1. o \in Rows(opps) /\ o \notin g /\ opps'[o] = opps[o]
        BY <2>1, <2>3, <2>5, <3>2
      <4>2. PICK s \in Rows(src) : src[s].opp = o
        BY <4>1 DEF ListedHaveSources
      <4>3. src'[s] = src[s]
        BY <2>1, <2>4, <4>1, <4>2
      <4>4. s \in Rows(src')
        BY <2>3, <4>2, <4>3 DEF Rows, TypeOK
      <4>5. QED
        BY <4>2, <4>3, <4>4
    <3>3. QED
      BY <3>1, <3>2
  <2>8. QED
    BY <2>6, <2>7
<1>3. QED
  BY <1>1, <1>2, OnlyCommitWrites

\* A commit disturbs the handlers that have read, so what the others hold stays true.
LEMMA RowsAreReadStep ==
    ASSUME TypeInv, RowsAreRead, [Next]_vars
    PROVE  RowsAreRead'
<1> SUFFICES ASSUME NEW l \in Slots \ disturbed', run'[l].pc = "write", NEW o \in run'[l].ids
             PROVE  run'[l].opps[o] = opps'[o]
  BY DEF RowsAreRead
<1>1. ASSUME l \notin disturbed, run'[l] = run[l], opps' = opps
      PROVE  run'[l].opps[o] = opps'[o]
  BY <1>1 DEF RowsAreRead
<1>2. CASE UNCHANGED <<run, opps, disturbed>>
  BY <1>1, <1>2
<1>3. ASSUME NEW k \in Slots, Commit(k) PROVE run'[l].opps[o] = opps'[o]
  BY <1>3 DEF Commit, Overlapping, TypeInv, TypeOK, IdleRun
<1>4. ASSUME NEW k \in Slots, GatherIds(k) PROVE run'[l].opps[o] = opps'[o]
  <2>1. UNCHANGED <<opps, disturbed>> /\ run \in [Slots -> Run]
    BY <1>4 DEF GatherIds, TypeInv, TypeOK
  <2>2. CASE l # k
    BY <1>1, <1>4, <2>1, <2>2 DEF GatherIds
  <2>3. CASE l = k
    <3>1. /\ run'[k].ids = Matches(carries[k])
          /\ run'[k].pc = (IF Matches(carries[k]) = {} THEN "write" ELSE "rows")
      BY <1>4, <2>1 DEF GatherIds, Run
    <3>2. QED
      BY <2>3, <3>1
  <2>4. QED
    BY <2>2, <2>3
<1>5. ASSUME NEW k \in Slots, GatherRows(k) PROVE run'[l].opps[o] = opps'[o]
  <2>1. UNCHANGED <<opps, disturbed>> /\ run \in [Slots -> Run]
    BY <1>5 DEF GatherRows, TypeInv, TypeOK
  <2>2. CASE l # k
    BY <1>1, <1>5, <2>1, <2>2 DEF GatherRows
  <2>3. CASE l = k
    <3>1. /\ run'[k].ids = run[k].ids
          /\ run'[k].opps = [p \in OppIds |-> IF p \in run[k].ids THEN opps[p] ELSE None]
      BY <1>5, <2>1 DEF GatherRows, Run
    <3>2. run[k].ids \subseteq OppIds
      BY <2>1 DEF Run
    <3>3. QED
      BY <2>1, <2>3, <3>1, <3>2
  <2>4. QED
    BY <2>2, <2>3
<1>6. ASSUME NEW k \in Slots, Start(k) \/ Conflict(k) \/ Finish(k) \/ Interrupted(k)
      PROVE  run'[l].opps[o] = opps'[o]
  <2>1. run'[k].pc \in {"idle", "ids"} /\ (l # k => run'[l] = run[l])
    <3>1. run \in [Slots -> Run]
      BY DEF TypeInv, TypeOK
    <3>2. CASE Start(k)
      BY <3>1, <3>2 DEF Start, IdleRun
    <3>3. CASE Conflict(k) \/ Finish(k) \/ Interrupted(k)
      BY <3>1, <3>3, IdleRunOK DEF Conflict, Finish, Interrupted
    <3>4. QED
      BY <1>6, <3>2, <3>3
  <2>2. UNCHANGED opps /\ disturbed \ {k} \subseteq disturbed'
    BY <1>6 DEF Start, Conflict, Finish, Interrupted
  <2>3. QED
    BY <1>1, <2>1, <2>2
<1>7. ASSUME NEW v \in Versions, Publish(v) \/ Submit(v) PROVE run'[l].opps[o] = opps'[o]
  BY <1>2, <1>7 DEF Publish, Submit
<1>8. ASSUME NEW k \in Slots, Evict(k) PROVE run'[l].opps[o] = opps'[o]
  BY <1>2, <1>8 DEF Evict
<1>9. QED
  BY <1>2, <1>3, <1>4, <1>5, <1>6, <1>7, <1>8 DEF Next, Step, vars

LEMMA RollStep == TypeInv /\ Coherent /\ RollInv /\ [Next]_vars => RollInv'
BY TablesStep, RowsAreReadStep DEF RollInv

\* Without an interruption only a conflict takes a handler from its writes to nothing.
LEMMA OnlyConflictRollsBack ==
    ASSUME TypeInv, [Next]_vars, NEW k \in Slots, run[k].pc = "write", run'[k].pc = "idle",
           UNCHANGED budget
    PROVE  Conflict(k)
<1>1. run \in [Slots -> Run] /\ budget \in Nat
  BY DEF TypeInv, TypeOK
<1>2. PICK l \in Slots : Step(l) \/ Interrupted(l)
  BY DEF Next, vars, Publish, Submit, Evict
<1>3. l = k
  BY <1>1, <1>2 DEF Step, Start, GatherIds, GatherRows, Commit, Conflict, Finish, Interrupted
<1>4. ~Interrupted(k)
  BY <1>1 DEF Interrupted, Spend
<1>5. ~Commit(k)
  BY <1>1 DEF Commit, IdleRun
<1>6. ~Start(k)
  BY DEF Start, TypeInv, Control
<1>7. QED
  BY <1>2, <1>3, <1>4, <1>5, <1>6 DEF Step, GatherIds, GatherRows, Finish

\* The holder of the URL, when it has a source, is in the candidate's group: it is
\* gathered by its URL, which it shares with the candidate.
LEMMA HolderIsGrouped ==
    ASSUME TypeInv, Coherent, RowsAreRead, NEW k \in Slots \ disturbed, run[k].pc = "write",
           NEW h \in Holders(carries[k]), NEW s \in Rows(src), src[s].opp = h
    PROVE  h \in Group(run[k], carries[k])
<1> DEFINE m == run[k]
           v == carries[k]
<1>1. h \in Rows(opps) /\ UrlOf[opps[h].from] = UrlOf[v]
  BY DEF Holders
<1>2. m.ids = Matches(v) /\ m.src = SnapshotOf(k)
  BY DEF Coherent
<1>3. h \in m.ids
  BY <1>1, <1>2 DEF Matches
<1>4. m.opps[h] = opps[h]
  BY <1>3 DEF RowsAreRead
<1>5. s \in Rows(m.src) /\ m.src[s].opp = h
  <2>1. s \in Sources /\ src[s] # None
    BY DEF TypeInv, TypeOK, Rows
  <2>2. m.src[s] = src[s] /\ DOMAIN m.src = Sources
    BY <1>2, <1>3, <2>1 DEF SnapshotOf
  <2>3. QED
    BY <2>1, <2>2 DEF Rows
<1> HIDE DEF m, v
<1>6. h \in Peopled(m)
  BY <1>3, <1>5 DEF Peopled, On
<1>7. Touches(m, v, h)
  BY <1>1, <1>4 DEF Touches
<1>8. QED
  BY <1>6, <1>7 DEF Group, m, v

LEMMA RollsBackStep ==
    ASSUME TypeInv, Coherent, RollInv, [Next]_vars, NEW k \in Slots,
           run[k].pc = "write", run'[k].pc = "idle", UNCHANGED budget, k \notin disturbed
    PROVE  \E h \in Holders(carries[k]) :
              \/ opps[h].status = "Duplicate"
              \/ raced /\ \A s \in Rows(src) : src[s].opp # h
              \/ \E s \in SourcesOf(carries[k]) : src[s].opp # h
<1> DEFINE v == carries[k]
           g == Group(run[k], v)
<1>1. Conflict(k)
  BY OnlyConflictRollsBack
<1>2. PICK h \in Rows(opps) \ Targets(g) : UrlOf[opps[h].from] = UrlOf[v]
  BY <1>1 DEF Conflict, UrlTaken
<1>3. h \in Holders(v)
  BY <1>2 DEF Holders
<1>4. CASE opps[h].status = "Duplicate"
  BY <1>3, <1>4
<1>5. CASE \A s \in Rows(src) : src[s].opp # h
  BY <1>3, <1>4, <1>5 DEF RollInv, ListedHaveSources
<1>6. ASSUME NEW s \in Rows(src), src[s].opp = h
      PROVE  \E t \in SourcesOf(v) : src[t].opp # h
  <2>1. h \in g
    BY <1>3, <1>6, HolderIsGrouped DEF RollInv
  <2>2. PICK p \in g : ~(h <= p)
    BY <1>2, <2>1 DEF Targets
  <2>3. p # h
    <3>1. h \in Nat
      BY RecordAssumption DEF TypeInv, TypeOK, Rows
    <3>2. QED
      BY <2>2, <3>1
  <2>4. p \in Matches(v)
    BY DEF Group, Peopled, Coherent
  <2>5. \/ p \in Rows(opps) /\ UrlOf[opps[p].from] = UrlOf[v]
        \/ \E t \in SourcesOf(v) : src[t].opp = p
    BY <2>4 DEF Matches, SourcesOf
  <2>6. ~(p \in Rows(opps) /\ UrlOf[opps[p].from] = UrlOf[v])
    BY <1>2, <2>3 DEF RollInv, UrlsDiffer
  <2>7. QED
    BY <2>3, <2>5, <2>6
<1>7. QED
  BY <1>3, <1>5, <1>6

\* An attempt that no other transaction overlapped is rolled back by the unique index
\* only if the URL is held by a Duplicate, by a row that an earlier race left without a
\* source, or by one that the candidate joins with another (runDedup's insert and
\* update of canonical_url).
THEOREM RollsBackOnlyOnMergeAlways == Spec => RollsBackOnlyOnMerge
<1> DEFINE Rolls ==
        \A k \in Slots :
            run[k].pc = "write" /\ run'[k].pc = "idle" /\ budget' = budget /\ k \notin disturbed =>
                \E h \in Holders(carries[k]) :
                    \/ opps[h].status = "Duplicate"
                    \/ raced /\ \A s \in Rows(src) : src[s].opp # h
                    \/ \E s \in SourcesOf(carries[k]) : src[s].opp # h
<1>1. TypeInv /\ Coherent /\ RollInv /\ [Next]_vars => (TypeInv /\ Coherent /\ RollInv)'
  BY TypeStep, CoherentStep, RollStep
<1>2. TypeInv /\ Coherent /\ RollInv /\ [Next]_vars => [Rolls]_vars
  BY RollsBackStep
<1>3. Spec => [][Rolls]_vars
  BY <1>1, <1>2, TypeInit, CoherentInit, RollInit, PTL DEF Spec
<1>4. QED
  BY <1>3 DEF RollsBackOnlyOnMerge
=============================================================================
