--------------------------- MODULE LifecycleProofs ---------------------------
(***************************************************************************)
(* Closures are final and ambiguous ones are filed, for any opportunities, *)
(* handlers, dates and bounds; the relay of the outbox they write to keeps *)
(* the safety part of what EventStream promises, for any number of events, *)
(* relays and rows at a time; and a settled export stays settled, for any  *)
(* number of handlers, attempts and failures.                              *)
(***************************************************************************)
EXTENDS Lifecycle, Outbox, Exports, JobQueueProofs

Work == [pc : {"open", "committed"}, opp : Opps, closing : Closings, signal : Signals]

Types ==
    /\ opps \in [Opps -> Rows \union {Never}]
    /\ persist \in [Persisters -> Work \union {NoWork}]
    /\ job \in [Keys -> Job]
    /\ signal \in [Keys -> Signals \union {"open"}]
    /\ halfway \subseteq Keys /\ items \subseteq Keys

\* What is under way is about a row that is there; a handler between its two
\* statements has an active job.
Control ==
    /\ \A p \in Persisters : persist[p].pc = "committed" => persist[p].opp \in Stored
    /\ \A k \in Keys : JobOK(job[k])
    /\ \A k \in Keys : job[k].status # "none" => k[1] \in Stored
    /\ \A k \in halfway : job[k].status = "active"

TypeInv == Types /\ Control

LEMMA TypeInit == Init => TypeInv
<1> SUFFICES ASSUME Init PROVE TypeInv
  OBVIOUS
<1>1. JobOK(NoJob) /\ NoJob \in Job
  <2>1. JobOK(NewJob("none"))
    BY NewJobOK DEF JobStatus
  <2>2. QED
    BY <2>1 DEF NoJob, JobOK
<1>2. NoJob.status = "none"
  BY DEF NoJob, NewJob
<1>3. QED
  BY <1>1, <1>2 DEF Init, TypeInv, Types, Control, NoWork, Closings

-----------------------------------------------------------------------------
\* The steps that change neither a row nor a job.
LEMMA TypePersist ==
    ASSUME TypeInv, NEW p \in Persisters,
           \/ \E o \in Opps, c \in Closings, g \in Signals : BeginPersist(p, o, c, g)
           \/ PersistRetries(p)
    PROVE  TypeInv'
<1>1. ASSUME NEW o \in Opps, NEW c \in Closings, NEW g \in Signals, BeginPersist(p, o, c, g)
      PROVE  TypeInv'
  <2>1. [pc |-> "open", opp |-> o, closing |-> c, signal |-> g] \in Work
    BY DEF Work
  <2>2. QED
    BY <1>1, <2>1 DEF BeginPersist, TypeInv, Types, Control, Stored
<1>2. CASE PersistRetries(p)
  <2>1. persist[p] \in Work
    BY <1>2 DEF TypeInv, Types, PersistRetries, NoWork
  <2>2. [persist[p] EXCEPT !.pc = "open"] \in Work
    BY <2>1 DEF Work
  <2>3. QED
    BY <1>2, <2>1, <2>2 DEF PersistRetries, TypeInv, Types, Control, Stored, Work
<1>3. QED
  BY <1>1, <1>2

\* A row is written, and stays a row: whatever happens to opps, what was stored is.
LEMMA StoredStays ==
    ASSUME TypeInv, opps' \in [Opps -> Rows \union {Never}],
           \A o \in Stored : opps'[o] \in Rows,
           UNCHANGED <<persist, job, signal, halfway, items>>
    PROVE  TypeInv'
<1>1. Stored \subseteq Stored'
  BY NeverAssumption DEF Stored
<1>2. QED
  BY <1>1 DEF TypeInv, Types, Control

LEMMA StatusWritten ==
    ASSUME TypeInv, NEW o \in Stored, NEW status \in Statuses
    PROVE  /\ [opps[o] EXCEPT !.status = status] \in Rows
           /\ [opps[o] EXCEPT !.status = status].status = status
           /\ opps[o] \in Rows
BY DEF TypeInv, Types, Stored, Rows

LEMMA TypeCommit ==
    ASSUME TypeInv, NEW p \in Persisters, CommitPersist(p)
    PROVE  TypeInv'
<1> DEFINE w == persist[p]
<1>1. w \in Work /\ w.pc = "open"
  BY DEF TypeInv, Types, CommitPersist, NoWork
<1>2. Persisted(w) \in Rows
  BY <1>1 DEF Persisted, Rows, Work, Statuses, OpenStatuses, Stored, TypeInv, Types
<1>3. PICK writes \in BOOLEAN :
         /\ w.opp \notin Stored => writes
         /\ opps' = IF writes THEN [opps EXCEPT ![w.opp] = Persisted(w)] ELSE opps
  BY DEF CommitPersist
<1>4. opps' \in [Opps -> Rows \union {Never}]
  BY <1>1, <1>2, <1>3 DEF TypeInv, Types
<1>5. Stored \subseteq Stored' /\ w.opp \in Stored'
  BY <1>1, <1>2, <1>3, NeverAssumption DEF TypeInv, Types, Stored, Work
<1>6. [w EXCEPT !.pc = "committed"] \in Work
  BY <1>1 DEF Work
<1>7. QED
  BY <1>1, <1>4, <1>5, <1>6 DEF CommitPersist, TypeInv, Types, Control, Work

\* A row the sweep or a merge updates.
LEMMA TypeUpdate ==
    ASSUME TypeInv, \/ \E o \in Opps : MergeAway(o)
                    \/ BeginSweep
                    \/ EndSweep
    PROVE  TypeInv'
<1>1. ASSUME NEW o \in Opps, MergeAway(o) PROVE TypeInv'
  BY <1>1, StatusWritten, StoredStays
     DEF MergeAway, TypeInv, Types, Statuses, OpenStatuses, Stored
<1>2. CASE BeginSweep
  BY <1>2, StatusWritten, StoredStays
     DEF BeginSweep, Updated, TypeInv, Types, Statuses, OpenStatuses, Stored
<1>3. CASE EndSweep
  BY <1>3, StatusWritten, StoredStays
     DEF EndSweep, Updated, TypeInv, Types, Statuses, OpenStatuses, Stored
<1>4. QED
  BY <1>1, <1>2, <1>3

LEMMA TypeHandOver ==
    ASSUME TypeInv, NEW p \in Persisters, EndPersist(p)
    PROVE  TypeInv'
<1> DEFINE w == persist[p]
           k == <<w.opp, w.closing>>
<1>1. w \in Work /\ w.pc = "committed" /\ w.opp \in Stored /\ k \in Keys
  BY DEF TypeInv, Types, Control, EndPersist, NoWork, Work, Keys
<1>2. JobOK(Added(job[k]))
  BY <1>1, AddedOK DEF TypeInv, Control
<1>3. persist' = [persist EXCEPT ![p] = NoWork] /\ UNCHANGED <<opps, halfway, items>>
  BY DEF EndPersist
<1>4. \/ UNCHANGED <<job, signal>>
      \/ /\ job[k].status \in {"none", "evicted"}
         /\ job' = [job EXCEPT ![k] = Added(@)]
         /\ signal' = [signal EXCEPT ![k] = w.signal]
  BY DEF EndPersist, Added
<1>5. /\ Types'
      /\ \A q \in Persisters : persist'[q].pc = "committed" => persist'[q].opp \in Stored'
  <2>1. job' \in [Keys -> Job] /\ signal' \in [Keys -> Signals \union {"open"}]
    BY <1>1, <1>2, <1>4 DEF TypeInv, Types, JobOK, Work
  <2>2. QED
    BY <1>1, <1>3, <2>1 DEF TypeInv, Types, Control, Stored, NoWork
<1>6. /\ \A j \in Keys : JobOK(job'[j])
      /\ \A j \in Keys : job'[j].status # "none" => j[1] \in Stored'
      /\ \A j \in halfway' : job'[j].status = "active"
  <2>1. CASE UNCHANGED <<job, signal>>
    BY <1>3, <2>1 DEF TypeInv, Types, Control, Stored
  <2>2. CASE job[k].status \in {"none", "evicted"} /\ job' = [job EXCEPT ![k] = Added(@)]
    <3>1. k \notin halfway /\ k[1] \in Stored
      BY <1>1, <2>2 DEF TypeInv, Control
    <3>2. \A j \in Keys : job'[j] = IF j = k THEN Added(job[k]) ELSE job[j]
      BY <1>1, <2>2 DEF TypeInv, Types
    <3>3. QED
      BY <1>2, <1>3, <3>1, <3>2 DEF TypeInv, Types, Control, Stored
  <2>3. QED
    BY <1>4, <2>1, <2>2
<1>7. QED
  BY <1>5, <1>6 DEF TypeInv, Control


\* A job of a row that is there moves to another well-formed record.
LEMMA JobMoves ==
    ASSUME TypeInv, NEW k \in Keys, NEW j, JobOK(j), job[k].status # "none",
           job' = [job EXCEPT ![k] = j],
           opps' \in [Opps -> Rows \union {Never}], \A o \in Stored : opps'[o] \in Rows,
           UNCHANGED <<persist, signal>>, items' \subseteq items \union {k},
           \/ halfway' \subseteq halfway \ {k}
           \/ halfway' = halfway \union {k} /\ j.status = "active"
    PROVE  TypeInv'
<1>1. Stored \subseteq Stored'
  BY NeverAssumption DEF Stored
<1>2. \A i \in Keys : job'[i] = IF i = k THEN j ELSE job[i]
  BY DEF TypeInv, Types
<1>3. Types'
  BY DEF TypeInv, Types, JobOK
<1>4. \A i \in halfway' : job'[i].status = "active"
  BY <1>2 DEF TypeInv, Types, Control
<1>5. QED
  BY <1>1, <1>2, <1>3, <1>4 DEF TypeInv, Types, Control

LEMMA TypeApply ==
    ASSUME TypeInv, NEW k \in Keys, ApplySignal(k)
    PROVE  TypeInv'
<1>1. job[k].status = "waiting" /\ JobOK(job[k]) /\ k[1] \in Stored
  BY DEF ApplySignal, TypeInv, Control
<1>2. PICK status \in Statuses : opps' = [opps EXCEPT ![k[1]].status = status]
  BY DEF ApplySignal, WithStatus, Statuses
<1>3. /\ opps' \in [Opps -> Rows \union {Never}]
      /\ \A o \in Stored : opps'[o] \in Rows
  BY <1>1, <1>2, StatusWritten DEF TypeInv, Types, Stored
<1>4. CASE NeedsItem(k)
  BY <1>1, <1>3, <1>4, TakenOK, JobMoves DEF ApplySignal, TypeInv, Types
<1>5. CASE ~NeedsItem(k)
  <2>1. k \notin halfway
    BY <1>1 DEF TypeInv, Control
  <2>2. QED
    BY <1>1, <1>3, <1>5, <2>1, DoneOK, JobMoves DEF ApplySignal, TypeInv, Types
<1>6. QED
  BY <1>4, <1>5

LEMMA TypeTarget ==
    ASSUME TypeInv, NEW k \in Keys, FileItem(k) \/ TargetInterrupted(k) \/ TrimTarget(k)
    PROVE  TypeInv'
<1>1. CASE FileItem(k)
  <2>1. job[k].status = "active"
    BY <1>1 DEF FileItem, TypeInv, Control
  <2>2. QED
    BY <1>1, <2>1, DoneOK, JobMoves DEF FileItem, TypeInv, Types, Stored
<1>2. CASE TargetInterrupted(k)
  <2>1. job[k].status = "active" /\ JobOK(job[k])
    BY <1>2 DEF TargetInterrupted, TypeInv, Control
  <2>2. PICK j \in {Thrown(job[k]), Stalled(job[k])} : job' = [job EXCEPT ![k] = j]
    BY <1>2 DEF TargetInterrupted
  <2>3. JobOK(j)
    BY <2>1, <2>2, ThrownOK, StalledOK
  <2>4. QED
    BY <1>2, <2>1, <2>2, <2>3, JobMoves DEF TargetInterrupted, TypeInv, Types, Stored
<1>3. CASE TrimTarget(k)
  <2>1. job[k].status = "completed" /\ k \notin halfway
    BY <1>3 DEF TrimTarget, TypeInv, Control
  <2>2. QED
    BY <1>3, <2>1, DoneOK, JobMoves DEF TrimTarget, TypeInv, Types, Stored
<1>4. QED
  BY <1>1, <1>2, <1>3

LEMMA TypeStep == TypeInv /\ [Next]_vars => TypeInv'
<1> SUFFICES ASSUME TypeInv, [Next]_vars PROVE TypeInv'
  OBVIOUS
<1>1. CASE PersistStep
  BY <1>1, TypePersist, TypeCommit, TypeUpdate, TypeHandOver DEF PersistStep
<1>2. CASE TargetStep
  BY <1>2, TypeApply, TypeTarget DEF TargetStep
<1>3. CASE BeginSweep \/ EndSweep
  BY <1>3, TypeUpdate
<1>4. CASE SweepDies \/ Tick \/ UNCHANGED vars
  BY <1>4 DEF SweepDies, Tick, vars, TypeInv, Types, Control, Stored
<1>5. QED
  BY <1>1, <1>2, <1>3, <1>4 DEF Next

-----------------------------------------------------------------------------
\* One step never opens a closed row: a persist leaves the status of a row that
\* is there, and the sweep's updates start from open rows.
LEMMA ClosureStep ==
    TypeInv /\ [Next]_vars =>
        \A o \in Stored : opps[o].status \notin OpenStatuses
                             => opps'[o].status \notin OpenStatuses
<1> SUFFICES ASSUME TypeInv, [Next]_vars, NEW o \in Stored,
                    opps[o].status \notin OpenStatuses
             PROVE  opps'[o].status \notin OpenStatuses
  OBVIOUS
<1>1. o \in Opps /\ opps[o] \in Rows /\ opps \in [Opps -> Rows \union {Never}]
  BY DEF TypeInv, Types, Stored
<1>2. ASSUME NEW p \in Persisters, CommitPersist(p) PROVE opps'[o].status \notin OpenStatuses
  <2>1. opps' = [opps EXCEPT ![persist[p].opp] = Persisted(persist[p])] \/ opps' = opps
    BY <1>2 DEF CommitPersist
  <2>2. persist[p].opp = o => Persisted(persist[p]).status = opps[o].status
    BY <1>1 DEF Persisted, Rows
  <2>3. QED
    BY <1>1, <2>1, <2>2
<1>3. ASSUME NEW q \in Opps, MergeAway(q) PROVE opps'[o].status \notin OpenStatuses
  BY <1>1, <1>3 DEF MergeAway, Rows, OpenStatuses
<1>4. ASSUME NEW k \in Keys, ApplySignal(k) PROVE opps'[o].status \notin OpenStatuses
  <2>1. PICK status \in {"Closed", "Removed", "Needs review"} :
           opps' = [opps EXCEPT ![k[1]].status = status]
    BY <1>4 DEF ApplySignal, WithStatus
  <2>2. QED
    BY <1>1, <2>1 DEF Rows, OpenStatuses
<1>5. CASE BeginSweep
  BY <1>1, <1>5 DEF BeginSweep, Updated, Lapses
<1>6. CASE EndSweep
  BY <1>1, <1>6 DEF EndSweep, Updated, Soon, OpenStatuses
<1>7. CASE UNCHANGED opps
  BY <1>7
<1>8. QED
  BY <1>2, <1>3, <1>4, <1>5, <1>6, <1>7
     DEF Next, PersistStep, TargetStep, BeginPersist, EndPersist, PersistRetries, FileItem,
         TargetInterrupted, TrimTarget, SweepDies, Tick, vars

\* Whatever persists, signals and sweeps overlap, are retried or cut off, and
\* however many, a closed row is never open again.
THEOREM ClosureIsFinalAlways == Spec => ClosureIsFinal
BY TypeInit, TypeStep, ClosureStep, PTL DEF Spec, ClosureIsFinal

-----------------------------------------------------------------------------
LEMMA FiledStep == TypeInv /\ AmbiguousClosureIsFiled /\ [Next]_vars => AmbiguousClosureIsFiled'
<1> SUFFICES ASSUME TypeInv, AmbiguousClosureIsFiled, [Next]_vars, NEW i \in Keys,
                    job'[i].status = "completed", signal'[i] = "unknown"
             PROVE  i \in items'
  BY DEF AmbiguousClosureIsFiled
<1>1. job \in [Keys -> Job] /\ JobOK(job[i])
  BY DEF TypeInv, Types, Control
<1>2. ASSUME NEW p \in Persisters, EndPersist(p) PROVE i \in items'
  <2>1. job'[i] = job[i] /\ signal'[i] = signal[i]
    BY <1>1, <1>2 DEF EndPersist, Added, NewJob, TypeInv, Types
  <2>2. QED
    BY <1>2, <2>1 DEF EndPersist, AmbiguousClosureIsFiled
<1>3. ASSUME NEW k \in Keys, ApplySignal(k) PROVE i \in items'
  <2>1. CASE i = k
    BY <1>1, <1>3, <2>1 DEF ApplySignal, NeedsItem, Taken, Job
  <2>2. CASE i # k
    BY <1>1, <1>3, <2>2 DEF ApplySignal, AmbiguousClosureIsFiled
  <2>3. QED
    BY <2>1, <2>2
<1>4. ASSUME NEW k \in Keys, FileItem(k) PROVE i \in items'
  BY <1>1, <1>4 DEF FileItem, AmbiguousClosureIsFiled
<1>5. ASSUME NEW k \in Keys, TargetInterrupted(k) PROVE i \in items'
  <2>1. job[k].status = "active" /\ JobOK(job[k])
    BY <1>5 DEF TargetInterrupted, TypeInv, Control
  <2>2. PICK j \in {Thrown(job[k]), Stalled(job[k])} : job' = [job EXCEPT ![k] = j]
    BY <1>5 DEF TargetInterrupted
  <2>3. j.status # "completed"
    BY <2>1, <2>2, ThrownOK, StalledOK
  <2>4. QED
    BY <1>1, <1>5, <2>2, <2>3 DEF TargetInterrupted, AmbiguousClosureIsFiled
<1>6. ASSUME NEW k \in Keys, TrimTarget(k) PROVE i \in items'
  BY <1>1, <1>6, DoneOK DEF TrimTarget, AmbiguousClosureIsFiled
<1>7. CASE UNCHANGED <<job, signal, items>>
  BY <1>7 DEF AmbiguousClosureIsFiled
<1>8. QED
  BY <1>2, <1>3, <1>4, <1>5, <1>6, <1>7
     DEF Next, PersistStep, TargetStep, BeginPersist, CommitPersist, MergeAway, PersistRetries,
         BeginSweep, EndSweep, SweepDies, Tick, vars

\* A completed job with an unknown signal has filed its review item, in every
\* order of deaths, retries and hand-overs.
THEOREM AmbiguousClosureIsFiledAlways == Spec => []AmbiguousClosureIsFiled
<1>1. Init => AmbiguousClosureIsFiled
  BY DEF Init, AmbiguousClosureIsFiled, NoJob, NewJob
<1>2. QED
  BY TypeInit, TypeStep, FiledStep, <1>1, PTL DEF Spec

-----------------------------------------------------------------------------
(***************************************************************************)
(* The outbox's relay: each of its steps is one of the stream or none.     *)
(***************************************************************************)

\* The control of a relay: what it holds are rows whose transactions have
\* committed, and what it is about to mark is one of them and dispatched.
Holds ==
    /\ row \in [Events -> RowStates]
    /\ relay \in [Relays -> [batch : SUBSET Events, sent : Events \union {None}]]
    /\ \A r \in Relays :
          /\ relay[r].batch \subseteq Written
          /\ relay[r].sent # None => relay[r].sent \in relay[r].batch \cap dispatched
    /\ \A e \in Events : row[e] = "published" => e \in dispatched

LEMMA HoldsInit == OutboxInit => Holds
BY DEF OutboxInit, Holds, Idle, RowStates

\* Nothing written is ever unwritten, so a relay's batch stays written.
LEMMA HoldsStep == Holds /\ [OutboxNext]_outboxVars => Holds'
<1> SUFFICES ASSUME Holds, [OutboxNext]_outboxVars PROVE Holds'
  OBVIOUS
<1> USE OutboxAssumption
<1>1. ASSUME NEW e \in Events, BeginTransaction(e) PROVE Holds'
  BY <1>1 DEF Holds, BeginTransaction, Written, RowStates
<1>2. ASSUME NEW e \in Events, Commit(e) PROVE Holds'
  BY <1>2 DEF Holds, Commit, Written, RowStates
<1>3. ASSUME NEW e \in Events, RollBack(e) PROVE Holds'
  BY <1>3 DEF Holds, RollBack, Written, RowStates
<1>4. ASSUME NEW r \in Relays, SelectBatch(r) PROVE Holds'
  <2>1. PICK batch \in Oldest(Unpublished, BatchSize) :
           relay' = [relay EXCEPT ![r].batch = batch]
    BY <1>4 DEF SelectBatch
  <2>2. batch \subseteq Unpublished
    BY <2>1 DEF Oldest
  <2>3. relay[r].sent = None
    BY <1>4 DEF SelectBatch, Idle
  <2>4. QED
    BY <1>4, <2>1, <2>2, <2>3 DEF Holds, SelectBatch, Written, Unpublished
<1>5. ASSUME NEW r \in Relays, DispatchNext(r) PROVE Holds'
  BY <1>5 DEF Holds, DispatchNext, Written
<1>6. ASSUME NEW r \in Relays, MarkPublished(r) PROVE Holds'
  <2>1. relay[r].sent \in Written \cap dispatched
    BY <1>6 DEF Holds, MarkPublished
  <2>2. Written' = Written
    BY <1>6, <2>1 DEF Holds, MarkPublished, Written, RowStates
  <2>3. QED
    BY <1>6, <2>1, <2>2 DEF Holds, MarkPublished, RowStates
<1>7. ASSUME NEW r \in Relays, LosesBatch(r) PROVE Holds'
  BY <1>7 DEF Holds, LosesBatch, Written, Idle
<1>8. CASE UNCHANGED outboxVars
  BY <1>8 DEF Holds, outboxVars, Written
<1>9. QED
  BY <1>1, <1>2, <1>3, <1>4, <1>5, <1>6, <1>7, <1>8 DEF OutboxNext, RelayStep

\* No relay publishes a row it has not dispatched, whichever of them hold it and
\* whenever they die (outbox.ts, "we only mark published AFTER a successful
\* dispatch").
THEOREM PublishedAreDispatched ==
    OutboxSpec => [](\A e \in Events : row[e] = "published" => e \in dispatched)
<1>1. Holds => \A e \in Events : row[e] = "published" => e \in dispatched
  BY DEF Holds
<1>2. QED
  BY HoldsInit, HoldsStep, <1>1, PTL DEF OutboxSpec

LEMMA StepRefines == Holds /\ [OutboxNext]_outboxVars => [Promise!Next]_<<Written, dispatched>>
<1> SUFFICES ASSUME Holds, [OutboxNext]_outboxVars
             PROVE  Promise!Next \/ UNCHANGED <<Written, dispatched>>
  OBVIOUS
<1>1. ASSUME NEW e \in Events, BeginTransaction(e) PROVE UNCHANGED <<Written, dispatched>>
  BY <1>1 DEF Holds, BeginTransaction, Written
<1>2. ASSUME NEW e \in Events, Commit(e) PROVE Promise!CommitEvent(e)
  BY <1>2 DEF Holds, Commit, Written, Promise!CommitEvent
<1>3. ASSUME NEW e \in Events, RollBack(e) PROVE UNCHANGED <<Written, dispatched>>
  BY <1>3 DEF Holds, RollBack, Written
<1>4. ASSUME NEW r \in Relays, SelectBatch(r) PROVE UNCHANGED <<Written, dispatched>>
  BY <1>4 DEF SelectBatch, Written
<1>5. ASSUME NEW r \in Relays, DispatchNext(r) PROVE Promise!Next
  <2>1. PICK e \in relay[r].batch : dispatched' = dispatched \union {e}
    BY <1>5 DEF DispatchNext
  <2>2. e \in Written /\ e \in Events
    BY <2>1 DEF Holds, Written
  <2>3. Promise!Dispatch(e)
    BY <1>5, <2>1, <2>2 DEF DispatchNext, Written, Promise!Dispatch
  <2>4. QED
    BY <2>2, <2>3 DEF Promise!Next
<1>6. ASSUME NEW r \in Relays, MarkPublished(r) PROVE UNCHANGED <<Written, dispatched>>
  <2>1. relay[r].sent \in Written
    BY <1>6 DEF Holds, MarkPublished
  <2>2. QED
    BY <1>6, <2>1 DEF Holds, MarkPublished, Written
<1>7. ASSUME NEW r \in Relays, LosesBatch(r) PROVE UNCHANGED <<Written, dispatched>>
  BY <1>7 DEF LosesBatch, Written
<1>8. CASE UNCHANGED outboxVars
  BY <1>8 DEF outboxVars, Written
<1>9. QED
  BY <1>1, <1>2, <1>3, <1>4, <1>5, <1>6, <1>7, <1>8 DEF OutboxNext, RelayStep, Promise!Next

\* The relay implements the safety part of DeliversAtLeastOnce: an event is
\* dispatched only after its transaction has committed, and nothing that was
\* committed or dispatched is taken back.
THEOREM RelayImplementsStream == OutboxSpec => Promise!Safety
<1>1. OutboxInit => Promise!Init
  BY DEF OutboxInit, Promise!Init, Written
<1>2. QED
  BY HoldsInit, HoldsStep, StepRefines, <1>1, PTL DEF OutboxSpec, Promise!Safety

-----------------------------------------------------------------------------
(***************************************************************************)
(* Exports.                                                                *)
(***************************************************************************)

ExportRow ==
    [status : {"none", "pending", "processing", "ready", "failed", "deleted"}, key : BOOLEAN]

\* While no handler has gone on without its lock, the one that holds it is alone, its
\* job is active, and it is past its last write once the row is ready; so a job is
\* taken again only when the row is not ready, or to find it built.
ExportInv ==
    /\ export \in ExportRow
    /\ asking = "create" => export.status = "none"
    /\ handler \in [Handlers -> {"idle", "mark", "build", "store", "return", "catch", "unsure"}]
    /\ export.status = "ready" => export.key
    /\ ~outlived =>
          /\ JobOK(ejob)
          /\ \A h \in Handlers :
                handler[h] # "idle" => /\ lock = h /\ ejob.status = "active"
                                       /\ export.status = "ready"
                                             => handler[h] \in {"return", "unsure"}

\* A handler that lost the answer of its update to ready flags the row and is done.
Recants == \E h \in Handlers : handler[h] = "unsure" /\ handler'[h] = "idle"

\* A step keeps what SettledStays says of the row.
Settles ==
    /\ export.status = "ready" /\ export'.status # "ready"
          => export'.status = "deleted" \/ outlived \/ Recants
    /\ export.status = "deleted" => export' = export

LEMMA ExportInvInit ==
    ASSUME ExportsInit
    PROVE  ExportInv
<1>1. JobOK(NoJob)
  BY NewJobOK DEF NoJob, JobStatus
<1>2. QED
  BY <1>1 DEF ExportsInit, ExportInv, ExportRow

\* The request: it inserts its row once, and add() leaves a job that is there.
LEMMA RequestSettles ==
    ASSUME ExportInv, UNCHANGED outlived,
           Arrive \/ CreatePending \/ EnqueueExport \/ RequestFails
    PROVE  ExportInv' /\ Settles
<1>1. CASE Arrive
  BY <1>1 DEF Arrive, ExportInv, Settles
<1>2. CASE CreatePending
  BY <1>2 DEF CreatePending, ExportInv, ExportRow, Settles
<1>3. CASE EnqueueExport
  <2>1. JobOK(ejob) => JobOK(Added(ejob)) /\ (ejob.status = "active" => Added(ejob) = ejob)
    BY AddedOK DEF Added
  <2>2. QED
    BY <1>3, <2>1 DEF EnqueueExport, ExportInv, Settles
<1>4. CASE RequestFails
  BY <1>4 DEF RequestFails, ExportInv, Settles
<1>5. QED
  BY <1>1, <1>2, <1>3, <1>4

\* The page only reads the row.
LEMMA PageSettles ==
    ASSUME ExportInv, UNCHANGED outlived,
           FirstQuery \/ QueryFails \/ Poll \/ Refresh \/ Reopen \/ Nudge
    PROVE  ExportInv' /\ Settles
<1>1. UNCHANGED <<export, ejob, handler, lock, asking>>
  BY DEF FirstQuery, QueryFails, Poll, Refresh, Reopen, Nudge
<1>2. QED
  BY <1>1 DEF ExportInv, Settles

\* A job is taken when no handler has it: in the absence of lost locks, all are idle.
LEMMA TakeSettles ==
    ASSUME ExportInv, UNCHANGED outlived, NEW h \in Handlers, TakeExport(h)
    PROVE  ExportInv' /\ Settles
<1>1. ejob.status = "waiting" /\ UNCHANGED <<export, asking, page>>
  BY DEF TakeExport
<1>2. ~outlived => \A g \in Handlers : handler[g] = "idle"
  BY <1>1 DEF ExportInv
<1>3. CASE Kept /\ ~Built
  <2>1. export.status # "ready"
    BY <1>3 DEF Built, ExportInv
  <2>2. ~outlived => JobOK(Taken(ejob)) /\ Taken(ejob).status = "active"
    BY <1>1, TakenOK DEF ExportInv
  <2>3. ejob' = Taken(ejob) /\ lock' = h /\ handler' = [handler EXCEPT ![h] = "mark"]
    BY <1>3 DEF TakeExport, Moves
  <2>4. QED
    BY <1>1, <1>2, <2>1, <2>2, <2>3 DEF ExportInv, Settles
<1>4. CASE ~(Kept /\ ~Built)
  <2>1. ejob' = Completed(ejob) /\ UNCHANGED <<lock, handler>>
    BY <1>4 DEF TakeExport
  <2>2. QED
    BY <1>1, <1>2, <2>1, DoneOK DEF ExportInv, Settles
<1>5. QED
  BY <1>3, <1>4

\* A handler's writes: only one that is past them leaves the row ready, whether it
\* has the answer of its last update or not.
LEMMA WritesSettle ==
    ASSUME ExportInv, UNCHANGED outlived, NEW h \in Handlers,
           MarkProcessing(h) \/ BuildBundle(h) \/ MarkReady(h) \/ ExportThrows(h)
    PROVE  ExportInv' /\ Settles
<1>1. UNCHANGED <<ejob, lock, asking, page>>
  BY DEF MarkProcessing, BuildBundle, MarkReady, ExportThrows
<1>2. ~outlived => /\ export.status = "ready" => handler[h] = "return"
                   /\ \A g \in Handlers : handler[g] # "idle" => g = h
  BY DEF MarkProcessing, BuildBundle, MarkReady, ExportThrows, ExportInv
<1>3. CASE MarkProcessing(h)
  BY <1>1, <1>2, <1>3 DEF MarkProcessing, RowWith, Kept, Moves, ExportInv, ExportRow, Settles
<1>4. CASE BuildBundle(h)
  BY <1>1, <1>2, <1>4 DEF BuildBundle, Moves, ExportInv, Settles
<1>5. CASE MarkReady(h)
  BY <1>1, <1>2, <1>5 DEF MarkReady, Kept, Moves, ExportInv, ExportRow, Settles
<1>6. CASE ExportThrows(h)
  BY <1>1, <1>2, <1>6 DEF ExportThrows, Moves, ExportInv, Settles
<1>7. QED
  BY <1>3, <1>4, <1>5, <1>6

\* What a handler reports ends its hold of the job; one without the lock changes
\* nothing of the job.
LEMMA ReportsEnd ==
    ASSUME ExportInv, UNCHANGED outlived, NEW h \in Handlers, handler[h] # "idle",
           NEW after, ~outlived => JobOK(after), Reports(h, after)
    PROVE  /\ handler' = [handler EXCEPT ![h] = "idle"]
           /\ ~outlived => JobOK(ejob') /\ \A g \in Handlers : handler'[g] = "idle"
<1>1. handler' = [handler EXCEPT ![h] = "idle"]
  BY DEF Reports, Moves
<1>2. ~outlived => lock = h /\ \A g \in Handlers : handler[g] # "idle" => g = h
  BY DEF ExportInv
<1>3. ~outlived => ejob' = after
  BY <1>2 DEF Reports, Owns
<1>4. QED
  BY <1>1, <1>2, <1>3 DEF ExportInv

LEMMA EndsSettle ==
    ASSUME ExportInv, UNCHANGED outlived, NEW h \in Handlers,
           Return(h) \/ MarkThrows(h) \/ Catch(h)
    PROVE  ExportInv' /\ Settles
<1>1. UNCHANGED <<asking, page>>
  BY DEF Return, MarkThrows, Catch
<1>2. CASE Return(h)
  <2>1. handler[h] = "return" /\ Reports(h, Completed(ejob)) /\ UNCHANGED export
    BY <1>2 DEF Return
  <2>2. /\ handler' = [handler EXCEPT ![h] = "idle"]
        /\ ~outlived => JobOK(ejob') /\ \A g \in Handlers : handler'[g] = "idle"
    BY <2>1, DoneOK, ReportsEnd
  <2>3. QED
    BY <1>1, <2>1, <2>2 DEF ExportInv, Settles
<1>3. CASE MarkThrows(h)
  <2>1. /\ handler[h] = "mark" /\ Reports(h, Thrown(ejob))
        /\ export' \in {RowWith("processing"), export}
    BY <1>3 DEF MarkThrows
  <2>2. ~outlived => JobOK(Thrown(ejob)) /\ export.status # "ready"
    BY <2>1, ThrownOK DEF ExportInv
  <2>3. /\ handler' = [handler EXCEPT ![h] = "idle"]
        /\ ~outlived => JobOK(ejob') /\ \A g \in Handlers : handler'[g] = "idle"
    BY <2>1, <2>2, ReportsEnd
  <2>4. /\ export' \in ExportRow
        /\ export'.status = "ready" => export.status = "ready" /\ export'.key
        /\ export.status \in {"none", "deleted"} => export' = export
    BY <2>1 DEF RowWith, Kept, ExportInv, ExportRow
  <2>5. QED
    BY <1>1, <2>2, <2>3, <2>4 DEF ExportInv, Settles
<1>4. CASE Catch(h)
  <2>1. /\ handler[h] \in {"catch", "unsure"} /\ Reports(h, Thrown(ejob))
        /\ export' \in {RowWith("failed"), export}
    BY <1>4 DEF Catch
  <2>2. ~outlived => JobOK(Thrown(ejob)) /\ (export.status = "ready" => handler[h] = "unsure")
    BY <2>1, ThrownOK DEF ExportInv
  <2>3. /\ handler' = [handler EXCEPT ![h] = "idle"]
        /\ ~outlived => JobOK(ejob') /\ \A g \in Handlers : handler'[g] = "idle"
    BY <2>1, <2>2, ReportsEnd
  <2>4. /\ export' \in ExportRow
        /\ export'.status = "ready" => export.status = "ready" /\ export'.key
        /\ export.status \in {"none", "deleted"} => export' = export
    BY <2>1 DEF RowWith, Kept, ExportInv, ExportRow
  <2>5. handler'[h] = "idle"
    BY <2>3 DEF ExportInv
  <2>6. Settles
    BY <2>2, <2>4, <2>5 DEF Settles, Recants
  <2>7. QED
    BY <1>1, <2>3, <2>4, <2>6 DEF ExportInv
<1>5. QED
  BY <1>2, <1>3, <1>4

\* A lock that is lost: its handler is dead and no other is at work, or it goes on.
LEMMA StallSettles ==
    ASSUME ExportInv, NEW h \in Handlers, ExportStalls(h)
    PROVE  ExportInv' /\ Settles
<1>1. UNCHANGED <<export, asking, page>> /\ handler[h] # "idle" /\ ejob' = Stalled(ejob)
  BY DEF ExportStalls
<1>2. CASE UNCHANGED handler /\ outlived' = TRUE
  BY <1>1, <1>2 DEF ExportInv, Settles
<1>3. CASE Moves(h, "idle") /\ UNCHANGED outlived
  <2>1. ~outlived => ejob.status = "active" /\ JobOK(ejob)
    BY <1>1 DEF ExportInv
  <2>2. ~outlived => JobOK(ejob')
    BY <1>1, <2>1, StalledOK
  <2>3. ~outlived => \A g \in Handlers : handler'[g] = "idle"
    BY <1>1, <1>3 DEF Moves, ExportInv
  <2>4. QED
    BY <1>1, <1>3, <2>2, <2>3 DEF Moves, ExportInv, Settles
<1>4. QED
  BY <1>2, <1>3 DEF ExportStalls

LEMMA DeletionSettles ==
    ASSUME ExportInv, DeleteAccount
    PROVE  ExportInv' /\ Settles
BY DEF DeleteAccount, Kept, ExportInv, ExportRow, Settles

LEMMA ExportStep ==
    ASSUME ExportInv, [ExportsNext]_exportsVars
    PROVE  ExportInv' /\ (Settles \/ UNCHANGED exportsVars)
<1>1. CASE UNCHANGED <<ownVars, outlived>>
  BY <1>1 DEF ownVars, ExportInv, Settles
<1>2. CASE UserStep
  BY <1>1, <1>2, RequestSettles, PageSettles DEF UserStep
<1>3. CASE RequestStep
  BY <1>3, RequestSettles DEF RequestStep
<1>4. CASE HandlerStep
  BY <1>4, TakeSettles, WritesSettle, EndsSettle DEF HandlerStep
<1>5. CASE PageStep
  BY <1>5, PageSettles DEF PageStep
<1>6. CASE StreamStep
  BY <1>1, <1>6, PageSettles DEF StreamStep
<1>7. CASE DeleteAccount
  BY <1>7, DeletionSettles
<1>8. CASE Fault
  <2>1. CASE (RequestFails \/ QueryFails) /\ UNCHANGED outlived
    BY <2>1, RequestSettles, PageSettles
  <2>2. ASSUME NEW h \in Handlers, MarkThrows(h) \/ ExportThrows(h), UNCHANGED outlived
        PROVE  ExportInv' /\ Settles
    BY <2>2, WritesSettle, EndsSettle
  <2>3. ASSUME NEW h \in Handlers, ExportStalls(h)
        PROVE  ExportInv' /\ Settles
    BY <2>3, StallSettles
  <2>4. QED
    BY <1>1, <1>8, <2>1, <2>2, <2>3 DEF Fault
<1>9. CASE UNCHANGED exportsVars
  BY <1>1, <1>9 DEF exportsVars
<1>10. QED
  BY <1>2, <1>3, <1>4, <1>5, <1>6, <1>7, <1>8, <1>9 DEF ExportsNext

\* What is settled stays settled, however failures, retries, lost locks, the deletion
\* of the account and the page's reads interleave: a ready row is not rebuilt unless a
\* handler went on without its lock or flagged the row when the answer to its own last
\* update was lost, and a deleted one is not written.
THEOREM SettledStaysAlways == ExportsSpec => SettledStays
<1>1. ExportInv /\ [ExportsNext]_exportsVars =>
        [/\ export.status = "ready" /\ export'.status # "ready"
              => \/ export'.status = "deleted" \/ outlived
                 \/ \E h \in Handlers : handler[h] = "unsure" /\ handler'[h] = "idle"
         /\ export.status = "deleted" => export' = export]_exportsVars
  BY ExportStep DEF Settles, Recants
<1>2. ExportInv /\ [ExportsNext]_exportsVars => ExportInv'
  BY ExportStep
<1>3. QED
  BY ExportInvInit, <1>1, <1>2, PTL DEF ExportsSpec, SettledStays
=============================================================================
