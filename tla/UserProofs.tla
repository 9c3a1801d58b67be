------------------------------ MODULE UserProofs -----------------------------
(***************************************************************************)
(* What a user is shown and keeps: connections stay removed and deleted,   *)
(* and the list of opportunities is whole and shows the user's own saves,  *)
(* for any connections, requests, jobs, rows, pages and mutations.         *)
(***************************************************************************)
EXTENDS Connections, Explorer, FiniteSetTheorems, SequenceTheorems, TLAPS

-----------------------------------------------------------------------------
(***************************************************************************)
(* Connections.                                                            *)
(***************************************************************************)

ConnStatus == {"none", "active", "paused", "removed", "deleted"}

ConnRow == [status : ConnStatus, kind : {"board", "url"}]

RequestPcs == {"idle", "update", "disconnect", "run", "reactivate", "insert", "enqueue"}

RequestRecord ==
    [pc : RequestPcs, conn : Conns \union {NoId}, saw : ConnStatus, run : Runs \union {NoId}]

\* A request has the connection it was made for until it ends or is to insert one; what
\* it will write over it did not see removed.
ConnTypes ==
    /\ conn \in [Conns -> ConnRow]
    /\ req \in [Requests -> RequestRecord]
    /\ \A q \in Requests :
           /\ req[q].pc \in {"update", "disconnect", "run", "reactivate", "enqueue"}
                => req[q].conn \in Conns
           /\ req[q].pc \in {"update", "reactivate"} => req[q].saw # "removed"

\* A request's record after a step of its handler.
Fits(s) ==
    /\ s \in RequestRecord
    /\ s.pc \in {"update", "disconnect", "run", "reactivate", "enqueue"} => s.conn \in Conns
    /\ s.pc \in {"update", "reactivate"} => s.saw # "removed"

LEMMA NoRequestFits == Fits(NoRequest)
BY DEF Fits, NoRequest, RequestRecord, RequestPcs, ConnStatus

LEMMA StaysFit ==
    ASSUME ConnTypes, NEW q \in Requests, NEW s, Fits(s), req' = [req EXCEPT ![q] = s],
           conn' \in [Conns -> ConnRow]
    PROVE  ConnTypes'
BY DEF ConnTypes, Fits

LEMMA ConnTypesInit ==
    ASSUME ConnectionsInit
    PROVE  ConnTypes
BY DEF ConnectionsInit, ConnTypes, NoRequest, RequestRecord, RequestPcs, ConnStatus, ConnRow

\* A request that begins on a row it has found.
LEMMA BeginsFit ==
    ASSUME ConnTypes, NEW q \in Requests, NEW c \in Conns,
           NEW pc \in {"update", "disconnect", "run", "reactivate"},
           pc \in {"update", "reactivate"} => conn[c].status # "removed",
           Begins(q, pc, c), UNCHANGED conn
    PROVE  ConnTypes'
<1> DEFINE s == [pc |-> pc, conn |-> c, run |-> NoId,
                 saw |-> IF pc \in {"update", "reactivate"} THEN conn[c].status ELSE "none"]
<1>1. conn[c].status \in ConnStatus
  BY DEF ConnTypes, ConnRow
<1>2. Fits(s)
  BY <1>1 DEF Fits, RequestRecord, RequestPcs, ConnStatus
<1>3. req' = [req EXCEPT ![q] = s]
  BY DEF Begins
<1> HIDE DEF s
<1>4. QED
  BY <1>2, <1>3, StaysFit DEF ConnTypes

\* A new row, and what its request does next.
LEMMA InsertsFit ==
    ASSUME ConnTypes, NEW q \in Requests, NEW c \in Conns, NEW kind \in {"board", "url"},
           NEW next \in {"enqueue", "run"}, Inserts(q, c, kind, next)
    PROVE  ConnTypes'
<1> DEFINE s == [NoRequest EXCEPT !.pc = next, !.conn = c]
<1>1. Fits(s)
  BY DEF Fits, NoRequest, RequestRecord, RequestPcs, ConnStatus
<1>2. req' = [req EXCEPT ![q] = s] /\ conn' = [conn EXCEPT ![c] = [status |-> "active", kind |-> kind]]
  BY DEF Inserts
<1>3. [status |-> "active", kind |-> kind] \in ConnRow
  BY DEF ConnRow, ConnStatus
<1>4. conn' \in [Conns -> ConnRow]
  BY <1>2, <1>3 DEF ConnTypes
<1> HIDE DEF s
<1>5. QED
  BY <1>1, <1>2, <1>4, StaysFit

\* An unconditional write of the status, and what its request does next.
LEMMA WritesFit ==
    ASSUME ConnTypes, NEW q \in Requests, NEW status \in {"active", "paused"},
           NEW next \in {"idle", "run", "insert"}, req[q].conn \in Conns,
           SetsStatus(q, status, next)
    PROVE  ConnTypes'
<1> DEFINE s == IF next = "idle" THEN NoRequest
                ELSE [NoRequest EXCEPT !.pc = next, !.conn = req[q].conn]
<1>1. Fits(s)
  BY NoRequestFits DEF Fits, NoRequest, RequestRecord, RequestPcs, ConnStatus
<1>2. req' = [req EXCEPT ![q] = s]
  BY DEF SetsStatus
<1>3. conn' \in [Conns -> ConnRow]
  BY DEF SetsStatus, ConnTypes, ConnRow, ConnStatus
<1> HIDE DEF s
<1>4. QED
  BY <1>1, <1>2, <1>3, StaysFit

\* The scheduler and the workers write neither connections nor requests.
LEMMA QueueLeavesRows ==
    ASSUME DiscoveryStep \/ \E j \in Slots : DiscoveryThrows(j) \/ DiscoveryStalls(j)
    PROVE  UNCHANGED <<conn, req>>
BY DEF DiscoveryStep, Schedule, TakeDiscovery, DiscoveryOpensRun, FinishDiscovery,
       RecordFailure, DiscoveryThrows, DiscoveryStalls

LEMMA ConnTypesStep ==
    ASSUME ConnTypes, [ConnectionsNext]_connectionsVars
    PROVE  ConnTypes'
<1>1. ASSUME NEW c \in Conns, Remove(c)
      PROVE  ConnTypes'
  BY <1>1 DEF Remove, ConnTypes, ConnRow, ConnStatus
<1>2. ASSUME NEW c \in Conns, NEW q \in Requests, NEW kind \in {"board", "url"},
             CreateConnection(q, c, kind)
      PROVE  ConnTypes'
  BY <1>2, InsertsFit DEF CreateConnection
<1>3. ASSUME NEW c \in Conns, NEW q \in Requests,
             ReadForUpdate(q, c) \/ ReadForDisconnect(q, c) \/ ReadForRun(q, c)
      PROVE  ConnTypes'
  <2>1. UNCHANGED conn
    BY <1>3 DEF ReadForUpdate, ReadForDisconnect, ReadForRun
  <2>2. CASE ReadForUpdate(q, c)
    BY <2>1, <2>2, BeginsFit DEF ReadForUpdate, Finds
  <2>3. CASE ReadForDisconnect(q, c)
    BY <2>1, <2>3, BeginsFit DEF ReadForDisconnect
  <2>4. CASE ReadForRun(q, c)
    BY <2>1, <2>4, BeginsFit DEF ReadForRun
  <2>5. QED
    BY <1>3, <2>2, <2>3, <2>4
<1>4. ASSUME NEW q \in Requests, SubmitUrl(q)
      PROVE  ConnTypes'
  <2>1. UNCHANGED conn
    BY <1>4 DEF SubmitUrl
  <2>2. ASSUME NEW c \in UrlRows,
               Begins(q, IF conn[c].status = "active" THEN "run" ELSE "reactivate", c)
        PROVE  ConnTypes'
    <3>1. c \in Conns /\ conn[c].status # "removed"
      BY DEF UrlRows, Finds
    <3>2. QED
      BY <2>1, <2>2, <3>1, BeginsFit
  <2>3. CASE Begins(q, "insert", NoId)
    <3> DEFINE s == [pc |-> "insert", conn |-> NoId, run |-> NoId, saw |-> "none"]
    <3>1. Fits(s)
      BY DEF Fits, RequestRecord, RequestPcs, ConnStatus
    <3>2. req' = [req EXCEPT ![q] = s]
      BY <2>3 DEF Begins
    <3> HIDE DEF s
    <3>3. QED
      BY <2>1, <3>1, <3>2, StaysFit DEF ConnTypes
  <2>4. QED
    BY <1>4, <2>2, <2>3 DEF SubmitUrl
<1>5. CASE DropsConnections
  <2>1. \A c \in Conns : [conn[c] EXCEPT !.status = "deleted"] \in ConnRow
    BY DEF ConnTypes, ConnRow, ConnStatus
  <2>2. conn' \in [Conns -> ConnRow] /\ req' = req
    BY <1>5, <2>1 DEF DropsConnections, ConnTypes
  <2>3. QED
    BY <2>2 DEF ConnTypes
<1>6. ASSUME NEW q \in Requests, NEW status \in {"active", "paused"},
             WriteUpdate(q, status) \/ WriteDisconnect(q) \/ Reactivate(q)
      PROVE  ConnTypes'
  <2>1. req[q].conn \in Conns
    BY <1>6 DEF WriteUpdate, WriteDisconnect, Reactivate, ConnTypes
  <2>2. CASE WriteUpdate(q, status)
    BY <2>1, <2>2, WritesFit DEF WriteUpdate
  <2>3. CASE WriteDisconnect(q)
    BY <2>1, <2>3, WritesFit DEF WriteDisconnect
  <2>4. CASE Reactivate(q)
    BY <2>1, <2>4, WritesFit DEF Reactivate
  <2>5. QED
    BY <1>6, <2>2, <2>3, <2>4
<1>7. ASSUME NEW q \in Requests, NEW c \in Conns, InsertUrl(q, c)
      PROVE  ConnTypes'
  BY <1>7, InsertsFit DEF InsertUrl
<1>8. ASSUME NEW q \in Requests, NEW r \in Runs, TriggerOpensRun(q, r)
      PROVE  ConnTypes'
  <2> DEFINE s == [req[q] EXCEPT !.pc = "enqueue", !.run = r]
  <2>1. Fits(s)
    BY <1>8 DEF TriggerOpensRun, ConnTypes, Fits, RequestRecord, RequestPcs
  <2>2. req' = [req EXCEPT ![q] = s] /\ conn' = conn
    BY <1>8 DEF TriggerOpensRun, ConnTypes, RequestRecord
  <2> HIDE DEF s
  <2>3. QED
    BY <2>1, <2>2, StaysFit DEF ConnTypes
<1>9. ASSUME NEW q \in Requests,
             RequestFails(q) \/ \E j \in Slots : EnqueueDiscovery(q, j)
      PROVE  ConnTypes'
  <2>1. req' = [req EXCEPT ![q] = NoRequest] /\ conn' = conn
    BY <1>9 DEF RequestFails, EnqueueDiscovery, Ends
  <2>2. QED
    BY <2>1, NoRequestFits, StaysFit DEF ConnTypes
<1>11. ASSUME UNCHANGED <<conn, req>>
       PROVE  ConnTypes'
  BY <1>11 DEF ConnTypes
<1>12. CASE StartRequest
  BY <1>12, <1>1, <1>2, <1>3, <1>4 DEF StartRequest
<1>13. CASE RequestStep
  BY <1>13, <1>6, <1>7, <1>8, <1>9 DEF RequestStep
<1>14. CASE Fault
  BY <1>14, <1>9, QueueLeavesRows, <1>11 DEF Fault
<1>15. CASE UNCHANGED connectionsVars
  BY <1>15, <1>11 DEF connectionsVars, connVars
<1>16. QED
  BY <1>5, QueueLeavesRows, <1>11, <1>12, <1>13, <1>14, <1>15
     DEF ConnectionsNext, DeleteConnections, DeleteAccount
-----------------------------------------------------------------------------
\* A write of the status makes a removed row active or paused only for a request
\* that did not see it removed, or for a disconnect.
LEMMA WriteUndoes ==
    ASSUME ConnTypes, NEW c \in Conns, conn[c].status = "removed",
           conn'[c].status \in {"active", "paused"},
           NEW q \in Requests, NEW status \in {"active", "paused"},
           WriteUpdate(q, status) \/ WriteDisconnect(q) \/ Reactivate(q)
    PROVE  /\ req[q].conn = c /\ req'[q] # req[q]
           /\ req[q].saw # "removed" \/ req[q].pc = "disconnect"
<1>1. req[q].conn = c
  BY DEF WriteUpdate, WriteDisconnect, Reactivate, SetsStatus, ConnTypes
<1>2. req'[q].pc # req[q].pc
  <2>1. PICK next \in {"idle", "run", "insert"} :
           req' = [req EXCEPT ![q] = IF next = "idle" THEN NoRequest
                                     ELSE [NoRequest EXCEPT !.pc = next, !.conn = req[q].conn]]
    BY DEF WriteUpdate, WriteDisconnect, Reactivate, SetsStatus
  <2>2. req'[q].pc \in {"idle", "run", "insert"}
    BY <2>1 DEF ConnTypes, NoRequest
  <2>3. req[q].pc \in {"update", "disconnect", "reactivate"}
    BY DEF WriteUpdate, WriteDisconnect, Reactivate
  <2>4. QED
    BY <2>2, <2>3
<1>3. req[q].saw # "removed" \/ req[q].pc = "disconnect"
  BY DEF WriteUpdate, WriteDisconnect, Reactivate, ConnTypes
<1>4. QED
  BY <1>1, <1>2, <1>3

LEMMA RemovalHoldsStep ==
    ASSUME ConnTypes, ConnectionsNext, NEW c \in Conns, conn[c].status = "removed",
           conn'[c].status \in {"active", "paused"}
    PROVE  \E q \in Requests :
              /\ req[q].conn = c /\ req'[q] # req[q]
              /\ req[q].saw # "removed" \/ req[q].pc = "disconnect"
<1>1. conn'[c] # conn[c]
  OBVIOUS
<1>2. ~DropsConnections
  BY <1>1 DEF DropsConnections, Owned, Stored, ConnTypes, ConnRow
<1>3. ~StartRequest
  <2>1. ASSUME NEW d \in Conns, Remove(d) PROVE FALSE
    BY <2>1 DEF Remove, ConnTypes, ConnRow
  <2>2. ASSUME NEW d \in Conns, NEW q \in Requests, NEW kind \in {"board", "url"},
               CreateConnection(q, d, kind)
        PROVE  FALSE
    BY <1>1, <2>2 DEF CreateConnection, Inserts, ConnTypes
  <2>3. ASSUME NEW d \in Conns, NEW q \in Requests,
               ReadForUpdate(q, d) \/ ReadForDisconnect(q, d) \/ ReadForRun(q, d) \/ SubmitUrl(q)
        PROVE  FALSE
    BY <1>1, <2>3 DEF ReadForUpdate, ReadForDisconnect, ReadForRun, SubmitUrl
  <2>4. QED
    BY <2>1, <2>2, <2>3 DEF StartRequest
<1>4. ~DiscoveryStep /\ ~Fault
  BY <1>1, QueueLeavesRows DEF Fault, RequestFails
<1>5. ASSUME NEW q \in Requests, NEW d \in Conns, InsertUrl(q, d) PROVE FALSE
  BY <1>1, <1>5 DEF InsertUrl, Inserts, ConnTypes
<1>6. ASSUME NEW q \in Requests,
             (\E r \in Runs : TriggerOpensRun(q, r)) \/ (\E j \in Slots : EnqueueDiscovery(q, j))
      PROVE  FALSE
  BY <1>1, <1>6 DEF TriggerOpensRun, EnqueueDiscovery
<1>7. RequestStep
  BY <1>2, <1>3, <1>4 DEF ConnectionsNext, DeleteConnections, DeleteAccount
<1>8. PICK q \in Requests : \E status \in {"active", "paused"} :
                               WriteUpdate(q, status) \/ WriteDisconnect(q) \/ Reactivate(q)
  BY <1>5, <1>6, <1>7 DEF RequestStep
<1>9. QED
  BY <1>8, WriteUndoes

\* However requests, the scheduler, retries and deaths interleave, a removed
\* connection comes back only through a request that read it before the removal and
\* writes after it, or through a disconnect (connections.service.ts remove).
THEOREM RemovalHoldsAlways == ConnectionsSpec => RemovalHolds
<1>1. ConnTypes /\ [ConnectionsNext]_connectionsVars =>
        [\A c \in Conns :
          conn[c].status = "removed" /\ conn'[c].status \in {"active", "paused"}
            => \E q \in Requests :
                  /\ req[q].conn = c /\ req'[q] # req[q]
                  /\ req[q].saw # "removed" \/ req[q].pc = "disconnect"]_connectionsVars
  BY RemovalHoldsStep
<1>2. QED
  BY ConnTypesInit, ConnTypesStep, <1>1, PTL DEF ConnectionsSpec, RemovalHolds

-----------------------------------------------------------------------------
\* Once the account is deleted with no request of the user being handled, there is
\* none again: the guard lets none in, and the workers insert no connection.
ErasedInv ==
    erased /\ ~late => /\ \A c \in Conns : ~Stored(c)
                       /\ \A q \in Requests : req[q].pc = "idle"

LEMMA ErasedInvStep ==
    ASSUME ConnTypes, ErasedInv, [ConnectionsNext]_connectionsVars
    PROVE  ErasedInv'
<1>1. CASE DeleteAccount
  <2>1. \A c \in Conns : ~Stored(c)'
    BY <1>1 DEF DeleteAccount, DropsConnections, Owned, Stored, ConnTypes, ConnRow
  <2>2. ~late' => \A q \in Requests : req'[q].pc = "idle"
    BY <1>1 DEF DeleteAccount, DropsConnections
  <2>3. QED
    BY <2>1, <2>2 DEF ErasedInv
<1>2. CASE ~erased /\ ~DeleteAccount
  BY <1>2 DEF ErasedInv, ConnectionsNext, StartRequest, DeleteConnections, RequestStep,
              DiscoveryStep, Fault, connectionsVars
<1>3. CASE erased
  <2>1. UNCHANGED <<erased, late>>
    BY <1>3 DEF ConnectionsNext, StartRequest, DeleteConnections, DeleteAccount, RequestStep,
                DiscoveryStep, Fault, connectionsVars
  <2>2. SUFFICES ASSUME ~late PROVE ErasedInv'
    BY <2>1 DEF ErasedInv
  <2>3. \A q \in Requests : req[q].pc = "idle"
    BY <1>3, <2>2 DEF ErasedInv
  <2>4. ~RequestStep
    BY <2>3 DEF RequestStep, WriteUpdate, WriteDisconnect, Reactivate, InsertUrl,
                TriggerOpensRun, EnqueueDiscovery
  <2>5. UNCHANGED <<conn, req>>
    BY <1>3, <2>3, <2>4, QueueLeavesRows
       DEF ConnectionsNext, StartRequest, DeleteConnections, DeleteAccount, Fault, RequestFails,
           connectionsVars, connVars
  <2>6. QED
    BY <2>1, <2>5 DEF ErasedInv, Stored
<1>4. QED
  BY <1>1, <1>2, <1>3

RunRow == [status : {"none", "running", "deleted"}, conn : Conns \union {NoId}, counted : BOOLEAN]

\* A run that is there belongs to a connection that is there: the insert needs its row,
\* and the row takes its runs with it.
RunsBelong ==
    /\ runs \in [Runs -> RunRow]
    /\ \A r \in Runs : Running(r) => runs[r].conn \in Conns /\ Stored(runs[r].conn)

DiscoveryRecord ==
    [job : [status : JobStatus, attempts : Nat, stalls : Nat],
     pc : {"idle", "open", "discover", "record"}, conn : Conns \union {NoId},
     run : Runs \union {NoId}, own : Runs \union {NoId}]

\* A job that may still run has the connection it was queued for.
Queued(d) ==
    /\ d \in DiscoveryRecord
    /\ d.job.status = "waiting" \/ d.pc \in {"open", "discover"} => d.conn \in Conns

DiscoveryTypes ==
    /\ disc \in [Slots -> DiscoveryRecord]
    /\ \A j \in Slots : Queued(disc[j])

LEMMA StaysQueued ==
    ASSUME DiscoveryTypes, NEW j \in Slots, NEW d, Queued(d), disc' = [disc EXCEPT ![j] = d]
    PROVE  DiscoveryTypes'
BY DEF DiscoveryTypes, Queued

\* What the queue does to a job's record.
LEMMA JobsKeepShape ==
    ASSUME NEW job \in [status : JobStatus, attempts : Nat, stalls : Nat]
    PROVE  /\ Taken(job) \in [status : JobStatus, attempts : Nat, stalls : Nat]
           /\ Taken(job).status = "active"
           /\ Completed(job) \in [status : JobStatus, attempts : Nat, stalls : Nat]
           /\ Completed(job).status = "completed"
           /\ Thrown(job) \in [status : JobStatus, attempts : Nat, stalls : Nat]
           /\ Stalled(job) \in [status : JobStatus, attempts : Nat, stalls : Nat]
<1> USE AttemptsAssumption, StallsAssumption
<1>0. job.attempts + 1 \in Nat /\ job.stalls + 1 \in Nat
  OBVIOUS
<1>1. Taken(job) \in [status : JobStatus, attempts : Nat, stalls : Nat] /\ Taken(job).status = "active"
  BY DEF Taken, JobStatus
<1>2. /\ Completed(job) \in [status : JobStatus, attempts : Nat, stalls : Nat]
      /\ Completed(job).status = "completed"
  BY DEF Completed, NewJob, JobStatus
<1>3. Thrown(job) \in [status : JobStatus, attempts : Nat, stalls : Nat]
  BY <1>0 DEF Thrown, JobStatus
<1>4. Stalled(job) \in [status : JobStatus, attempts : Nat, stalls : Nat]
  <2>1. CASE job.stalls < MaxStalls
    BY <1>0, <2>1 DEF Stalled, JobStatus
  <2>2. CASE ~(job.stalls < MaxStalls)
    BY <2>2 DEF Stalled, JobStatus
  <2>3. QED
    BY <2>1, <2>2
<1>5. QED
  BY <1>1, <1>2, <1>3, <1>4

\* A job that is added waits with the connection it is for.
LEMMA AddsQueued ==
    ASSUME DiscoveryTypes, NEW j \in Slots, NEW c \in Conns, NEW r \in Runs \union {NoId},
           Adds(j, c, r)
    PROVE  DiscoveryTypes'
<1> DEFINE d == [NoDiscovery EXCEPT !.job = Added(NoJob), !.conn = c, !.run = r]
<1>1. Queued(d)
  BY DEF Queued, DiscoveryRecord, NoDiscovery, Added, NoJob, NewJob, JobStatus
<1>2. disc' = [disc EXCEPT ![j] = d]
  BY DEF Adds
<1> HIDE DEF d
<1>3. QED
  BY <1>1, <1>2, StaysQueued

LEMMA DiscoveryTypesInit ==
    ASSUME ConnectionsInit
    PROVE  DiscoveryTypes
BY DEF ConnectionsInit, DiscoveryTypes, Queued, DiscoveryRecord, NoDiscovery, NoJob, NewJob, JobStatus

LEMMA DiscoveryTypesStep ==
    ASSUME ConnTypes, DiscoveryTypes, [ConnectionsNext]_connectionsVars
    PROVE  DiscoveryTypes'
<1> DEFINE Shape == [status : JobStatus, attempts : Nat, stalls : Nat]
<1>1. ASSUME NEW j \in Slots
      PROVE  /\ disc[j] \in DiscoveryRecord /\ disc[j].job \in Shape
             /\ disc[j].pc \in {"open", "discover"} => disc[j].conn \in Conns
             /\ disc[j].job.status = "waiting" => disc[j].conn \in Conns
             /\ disc[j].conn \in Conns \union {NoId} /\ disc[j].run \in Runs \union {NoId}
             /\ disc[j].own \in Runs \union {NoId}
  BY DEF DiscoveryTypes, Queued, DiscoveryRecord
<1>2. ASSUME NEW j \in Slots, NEW c \in Conns, Schedule(c, j) PROVE DiscoveryTypes'
  BY <1>2, AddsQueued DEF Schedule
<1>3. ASSUME NEW j \in Slots, NEW q \in Requests, EnqueueDiscovery(q, j) PROVE DiscoveryTypes'
  <2>1. req[q].conn \in Conns /\ req[q].run \in Runs \union {NoId}
    BY <1>3 DEF EnqueueDiscovery, ConnTypes, RequestRecord
  <2>2. Adds(j, req[q].conn, req[q].run)
    BY <1>3 DEF EnqueueDiscovery
  <2>3. QED
    BY <2>1, <2>2, AddsQueued
<1>4. ASSUME NEW j \in Slots, TakeDiscovery(j) PROVE DiscoveryTypes'
  <2> DEFINE d == disc[j]
             skipped == [d EXCEPT !.job = Completed(d.job)]
             opens(pc) == [d EXCEPT !.job = Taken(d.job), !.own = d.run, !.pc = pc]
  <2>1. d.conn \in Conns /\ d \in DiscoveryRecord /\ d.job \in Shape
    BY <1>1, <1>4 DEF TakeDiscovery
  <2>2. Completed(d.job) \in Shape /\ Taken(d.job) \in Shape
    BY <2>1, JobsKeepShape
  <2>3. Queued(skipped)
    BY <2>1, <2>2 DEF Queued, DiscoveryRecord
  <2>4. \A pc \in {"open", "discover"} : Queued(opens(pc))
    BY <2>1, <2>2 DEF Queued, DiscoveryRecord
  <2>5. \E e \in {skipped} \union {opens(pc) : pc \in {"open", "discover"}} :
           disc' = [disc EXCEPT ![j] = e]
    BY <1>4 DEF TakeDiscovery
  <2> HIDE DEF d, skipped, opens
  <2>6. QED
    BY <2>3, <2>4, <2>5, StaysQueued
<1>5. ASSUME NEW j \in Slots, NEW r \in Runs, DiscoveryOpensRun(j, r) PROVE DiscoveryTypes'
  <2> DEFINE e == [disc[j] EXCEPT !.pc = "discover", !.own = r]
  <2>1. Queued(e)
    BY <1>1, <1>5 DEF DiscoveryOpensRun, Queued, DiscoveryRecord
  <2>2. disc' = [disc EXCEPT ![j] = e]
    BY <1>1, <1>5 DEF DiscoveryOpensRun, DiscoveryTypes, DiscoveryRecord
  <2> HIDE DEF e
  <2>3. QED
    BY <2>1, <2>2, StaysQueued
<1>6. ASSUME NEW j \in Slots, FinishDiscovery(j) PROVE DiscoveryTypes'
  <2> DEFINE e == [disc[j] EXCEPT !.job = Completed(disc[j].job), !.pc = "idle"]
  <2>1. disc[j].conn \in Conns /\ Completed(disc[j].job) \in Shape
    BY <1>1, <1>6, JobsKeepShape DEF FinishDiscovery
  <2>2. Queued(e)
    BY <1>1, <2>1 DEF Queued, DiscoveryRecord
  <2>3. disc' = [disc EXCEPT ![j] = e]
    BY <1>1, <1>6 DEF FinishDiscovery, DiscoveryTypes, DiscoveryRecord
  <2> HIDE DEF e
  <2>4. QED
    BY <2>2, <2>3, StaysQueued
<1>7. ASSUME NEW j \in Slots, RecordFailure(j) PROVE DiscoveryTypes'
  <2> DEFINE e == [disc[j] EXCEPT !.pc = "idle"]
  <2>1. Queued(e)
    BY <1>1 DEF Queued, DiscoveryRecord
  <2>2. disc' = [disc EXCEPT ![j] = e]
    BY <1>7 DEF RecordFailure, Handles
  <2> HIDE DEF e
  <2>3. QED
    BY <2>1, <2>2, StaysQueued
<1>8. ASSUME NEW j \in Slots, DiscoveryThrows(j) \/ DiscoveryStalls(j) PROVE DiscoveryTypes'
  <2> DEFINE e(job, pc) == [disc[j] EXCEPT !.job = job, !.own = NoId, !.pc = pc]
  <2>1. disc[j].conn \in Conns /\ Thrown(disc[j].job) \in Shape /\ Stalled(disc[j].job) \in Shape
    BY <1>1, <1>8, JobsKeepShape DEF DiscoveryThrows, DiscoveryStalls
  <2>2. \A job \in Shape, pc \in {"idle", "record"} : Queued(e(job, pc))
    BY <1>1, <2>1 DEF Queued, DiscoveryRecord
  <2>3. \E job \in {Thrown(disc[j].job), Stalled(disc[j].job)}, pc \in {"idle", "record"} :
           disc' = [disc EXCEPT ![j] = e(job, pc)]
    BY <1>1, <1>8 DEF DiscoveryThrows, DiscoveryStalls, DiscoveryTypes, DiscoveryRecord
  <2> HIDE DEF e
  <2>4. QED
    BY <2>1, <2>2, <2>3, StaysQueued
<1>9. CASE UNCHANGED disc
  BY <1>9 DEF DiscoveryTypes
<1>10. CASE StartRequest \/ DropsConnections \/ UNCHANGED connectionsVars
  BY <1>9, <1>10 DEF StartRequest, Remove, CreateConnection, Inserts, ReadForUpdate,
     ReadForDisconnect, ReadForRun, SubmitUrl, DropsConnections, connectionsVars, connVars
<1>11. CASE RequestStep
  BY <1>3, <1>9, <1>11 DEF RequestStep, WriteUpdate, WriteDisconnect, Reactivate, SetsStatus,
     InsertUrl, Inserts, TriggerOpensRun
<1>12. CASE DiscoveryStep
  BY <1>2, <1>4, <1>5, <1>6, <1>7, <1>12 DEF DiscoveryStep
<1>13. CASE Fault
  BY <1>8, <1>9, <1>13 DEF Fault, RequestFails
<1>14. QED
  BY <1>10, <1>11, <1>12, <1>13 DEF ConnectionsNext, DeleteConnections, DeleteAccount

\* Only the deletion of a user's connections makes one go.
LEMMA ConnectionsStay ==
    ASSUME ConnTypes, ConnectionsNext, ~DropsConnections, NEW c \in Conns, Stored(c)
    PROVE  Stored(c)'
<1>1. CASE UNCHANGED conn
  BY <1>1 DEF Stored
<1>2. ASSUME NEW x \in Conns, Remove(x) PROVE Stored(c)'
  BY <1>2 DEF Remove, Stored, ConnTypes, ConnRow
<1>3. ASSUME NEW x \in Conns, NEW q \in Requests, NEW kind \in {"board", "url"},
             NEW next \in {"enqueue", "run"}, Inserts(q, x, kind, next)
      PROVE  Stored(c)'
  BY <1>3 DEF Inserts, Stored, ConnTypes, ConnRow
<1>4. ASSUME NEW q \in Requests, NEW status \in {"active", "paused"},
             NEW next \in {"idle", "run", "insert"}, SetsStatus(q, status, next)
      PROVE  Stored(c)'
  BY <1>4 DEF SetsStatus, Stored, ConnTypes, ConnRow
<1>5. CASE StartRequest
  BY <1>1, <1>2, <1>3, <1>5 DEF StartRequest, CreateConnection, ReadForUpdate,
     ReadForDisconnect, ReadForRun, SubmitUrl
<1>6. CASE RequestStep
  BY <1>1, <1>3, <1>4, <1>6 DEF RequestStep, WriteUpdate, WriteDisconnect, Reactivate,
     InsertUrl, TriggerOpensRun, EnqueueDiscovery
<1>7. CASE DiscoveryStep \/ Fault
  BY <1>1, <1>7, QueueLeavesRows DEF Fault, RequestFails
<1>8. QED
  BY <1>5, <1>6, <1>7 DEF ConnectionsNext, DeleteConnections, DeleteAccount

LEMMA RunsBelongStep ==
    ASSUME ConnTypes, DiscoveryTypes, RunsBelong, [ConnectionsNext]_connectionsVars
    PROVE  RunsBelong'
<1>1. CASE DropsConnections
  <2>1. \A r \in Runs : [runs[r] EXCEPT !.status = "deleted"] \in RunRow
    BY DEF RunsBelong, RunRow
  <2>2. runs' \in [Runs -> RunRow]
    BY <1>1, <2>1 DEF DropsConnections, RunsBelong
  <2>3. \A r \in Runs : ~Running(r)'
    BY <1>1, <2>1 DEF DropsConnections, RunsBelong, RunRow, Running, Owned
  <2>4. QED
    BY <2>2, <2>3 DEF RunsBelong
<1>2. ASSUME ConnectionsNext, ~DropsConnections, runs' \in [Runs -> RunRow],
             \A r \in Runs : Running(r)' =>
                \/ Running(r) /\ runs'[r].conn = runs[r].conn
                \/ runs'[r].conn \in Conns /\ Stored(runs'[r].conn)
      PROVE  RunsBelong'
  BY <1>2, ConnectionsStay DEF RunsBelong, Stored
<1>3. ASSUME NEW r \in Runs, NEW c \in Conns, OpensRun(r, c), ConnectionsNext, ~DropsConnections
      PROVE  RunsBelong'
  <2> DEFINE opened == [status |-> "running", conn |-> c, counted |-> FALSE]
  <2>1. opened \in RunRow /\ opened.conn = c
    BY DEF RunRow
  <2>2. runs' = [runs EXCEPT ![r] = opened] /\ Stored(c)
    BY <1>3 DEF OpensRun
  <2> HIDE DEF opened
  <2>3. runs' \in [Runs -> RunRow] /\ runs'[r].conn = c /\ \A s \in Runs \ {r} : runs'[s] = runs[s]
    BY <2>1, <2>2 DEF RunsBelong
  <2>4. \A s \in Runs \ {r} : Running(s)' => Running(s) /\ runs'[s].conn = runs[s].conn
    BY <2>3 DEF Running
  <2>5. \A s \in Runs : Running(s)' =>
           \/ Running(s) /\ runs'[s].conn = runs[s].conn
           \/ runs'[s].conn \in Conns /\ Stored(runs'[s].conn)
    BY <2>2, <2>3, <2>4
  <2>6. QED
    BY <1>2, <1>3, <2>3, <2>5
<1>4. CASE UNCHANGED runs /\ ConnectionsNext /\ ~DropsConnections
  BY <1>2, <1>4 DEF RunsBelong, Running
<1>5. ASSUME NEW j \in Slots, FinishDiscovery(j), ConnectionsNext, ~DropsConnections
      PROVE  RunsBelong'
  <2>1. \A r \in Runs : [runs[r] EXCEPT !.counted = TRUE] \in RunRow
    BY DEF RunsBelong, RunRow
  <2>2. runs' \in [Runs -> RunRow]
    BY <1>5, <2>1 DEF FinishDiscovery, RunsBelong
  <2>3. \A r \in Runs : runs'[r].status = runs[r].status /\ runs'[r].conn = runs[r].conn
    BY <1>5 DEF FinishDiscovery, RunsBelong, RunRow
  <2>4. \A r \in Runs : Running(r)' => Running(r) /\ runs'[r].conn = runs[r].conn
    BY <2>3 DEF Running
  <2>5. QED
    BY <1>2, <1>5, <2>2, <2>4
<1>6. ASSUME NEW q \in Requests, NEW r \in Runs, TriggerOpensRun(q, r), ConnectionsNext,
             ~DropsConnections
      PROVE  RunsBelong'
  BY <1>3, <1>6 DEF TriggerOpensRun, ConnTypes
<1>7. ASSUME NEW j \in Slots, NEW r \in Runs, DiscoveryOpensRun(j, r), ConnectionsNext,
             ~DropsConnections
      PROVE  RunsBelong'
  BY <1>3, <1>7 DEF DiscoveryOpensRun, DiscoveryTypes, Queued
<1>8. CASE ConnectionsNext /\ ~DropsConnections /\ StartRequest
  BY <1>4, <1>8 DEF StartRequest, Remove, CreateConnection, Inserts, ReadForUpdate,
     ReadForDisconnect, ReadForRun, SubmitUrl
<1>9. CASE ConnectionsNext /\ ~DropsConnections /\ RequestStep
  BY <1>4, <1>6, <1>9 DEF RequestStep, WriteUpdate, WriteDisconnect, Reactivate, SetsStatus,
     InsertUrl, Inserts, EnqueueDiscovery
<1>10. CASE ConnectionsNext /\ ~DropsConnections /\ DiscoveryStep
  BY <1>4, <1>5, <1>7, <1>10 DEF DiscoveryStep, Schedule, TakeDiscovery, RecordFailure
<1>11. CASE ConnectionsNext /\ ~DropsConnections /\ Fault
  BY <1>4, <1>11 DEF Fault, RequestFails, DiscoveryThrows, DiscoveryStalls
<1>12. CASE UNCHANGED connectionsVars
  BY <1>12 DEF RunsBelong, Running, Stored, connectionsVars, connVars
<1>13. QED
  BY <1>1, <1>8, <1>9, <1>10, <1>11, <1>12 DEF ConnectionsNext, DeleteConnections, DeleteAccount

\* Deleting an account while no request of its user is being handled is final for
\* connections and runs: no schedule, retry or discovery brings one back, a discovery
\* that had loaded its connection before the deletion included
\* (account-deletion.service.ts, discovery.ts).
THEOREM ErasedStaysErasedAlways == ConnectionsSpec => []ErasedStaysErased
<1>1. ConnectionsInit => ErasedInv /\ RunsBelong
  BY DEF ConnectionsInit, ErasedInv, RunsBelong, RunRow, Running
<1>2. ErasedInv /\ RunsBelong => ErasedStaysErased
  BY DEF ErasedInv, RunsBelong, ErasedStaysErased
<1>3. QED
  BY ConnTypesInit, ConnTypesStep, DiscoveryTypesInit, DiscoveryTypesStep, RunsBelongStep,
     ErasedInvStep, <1>1, <1>2, PTL DEF ConnectionsSpec

-----------------------------------------------------------------------------
(***************************************************************************)
(* The list of opportunities: types.                                       *)
(***************************************************************************)

Item == [id : Opps, state : UserStates]

Pages == [loaded : BOOLEAN, items : Seq(Item), cursor : Cursors \union {None}, pages : Nat,
          from : SUBSET Opps]

FetchRecord == [pc : {"idle", "sent", "answered"}, want : Nat, fresh : BOOLEAN, clean : BOOLEAN,
                acc : Pages, page : Seq(Item), next : Cursors \union {None}]

Kinds == {"save", "unsave", "dismiss", "undismiss"}

Mutation == [pc : {"new", "sent", "reading", "answered", "done"}, opp : Opps \union {None},
             kind : Kinds \union {None}, prev : Pages, result : UserStates \union {None}]

\* A mutation under way is about an opportunity; an answered one has the state to show.
ListTypes ==
    /\ row \in [Opps -> Columns] /\ mine \in [Opps -> UserStates]
    /\ cache \in Pages /\ fetch \in FetchRecord /\ mut \in [Muts -> Mutation]
    /\ raced \in BOOLEAN /\ touches \in Nat
    /\ \A m \in Muts : mut[m].pc \in {"sent", "reading", "answered"} =>
          mut[m].opp \in Opps /\ mut[m].kind \in Kinds
    /\ \A m \in Muts : mut[m].pc = "answered" => mut[m].result \in UserStates

-----------------------------------------------------------------------------
(***************************************************************************)
(* The order of the list, and the page a query returns.                    *)
(***************************************************************************)

LEMMA SortValueType ==
    ASSUME row \in [Opps -> Columns], NEW o \in Opps
    PROVE  SortValue(o) \in Nat \union {None} /\ (view.sort # "closingSoon" => SortValue(o) \in Nat)
BY DEF SortValue, Columns

LEMMA OrderIsStrict ==
    ASSUME row \in [Opps -> Columns]
    PROVE  /\ \A o \in Opps : ~Precedes(o, o)
           /\ \A o, p \in Opps : o = p \/ Precedes(o, p) \/ Precedes(p, o)
<1> USE ExplorerAssumption
<1>1. \A o \in Opps : o \in Nat
  OBVIOUS
<1>2. ASSUME NEW o \in Opps PROVE ~Precedes(o, o)
  BY <1>1, SortValueType DEF Precedes
<1>3. ASSUME NEW o \in Opps, NEW p \in Opps PROVE o = p \/ Precedes(o, p) \/ Precedes(p, o)
  BY <1>1, SortValueType DEF Precedes
<1>4. QED
  BY <1>2, <1>3

LEMMA OrderIsTransitive ==
    ASSUME row \in [Opps -> Columns], NEW o \in Opps, NEW p \in Opps, NEW q \in Opps,
           Precedes(o, p), Precedes(p, q)
    PROVE  Precedes(o, q)
<1>1. o \in Nat /\ p \in Nat /\ q \in Nat /\ None \notin Nat
  BY ExplorerAssumption
<1>2. QED
  BY <1>1, SortValueType DEF Precedes

\* The rows of a set that come before a row.
Ahead(S, o) == {p \in S : Precedes(p, o)}

LEMMA AheadIsFinite ==
    ASSUME NEW S \in SUBSET Opps, NEW o
    PROVE  /\ IsFiniteSet(S) /\ Cardinality(S) \in Nat
           /\ IsFiniteSet(Ahead(S, o)) /\ Cardinality(Ahead(S, o)) \in Nat
           /\ Cardinality(Ahead(S, o)) <= Cardinality(S)
<1>1. IsFiniteSet(S)
  BY FS_Subset, ExplorerAssumption
<1>2. Ahead(S, o) \in SUBSET S
  BY DEF Ahead
<1>3. QED
  BY <1>1, <1>2, FS_Subset, FS_CardinalityType

\* A row that comes before another has fewer rows before it.
LEMMA AheadGrows ==
    ASSUME row \in [Opps -> Columns], NEW S \in SUBSET Opps, NEW o \in S, NEW p \in S,
           Precedes(o, p)
    PROVE  Cardinality(Ahead(S, o)) < Cardinality(Ahead(S, p))
<1>1. Ahead(S, o) \in SUBSET Ahead(S, p)
  BY OrderIsTransitive DEF Ahead
<1>2. o \in Ahead(S, p) /\ o \notin Ahead(S, o)
  BY OrderIsStrict DEF Ahead
<1>3. Ahead(S, o) # Ahead(S, p)
  BY <1>2
<1>4. QED
  BY <1>1, <1>3, AheadIsFinite, FS_Subset

LEMMA AheadIsFewer ==
    ASSUME row \in [Opps -> Columns], NEW S \in SUBSET Opps, NEW o \in S
    PROVE  Cardinality(Ahead(S, o)) < Cardinality(S)
<1>1. Ahead(S, o) \in SUBSET S /\ o \notin Ahead(S, o)
  BY OrderIsStrict DEF Ahead
<1>2. Ahead(S, o) # S
  BY <1>1
<1>3. QED
  BY <1>1, <1>2, AheadIsFinite, FS_Subset

\* Every place of the list has one row.
LEMMA NthIsThere ==
    ASSUME row \in [Opps -> Columns], NEW S \in SUBSET Opps,
           NEW n \in Nat, n < Cardinality(S)
    PROVE  Nth(S, n) \in S /\ Cardinality(Ahead(S, Nth(S, n))) = n
<1> DEFINE k == Cardinality(S)
           places == 0..(k - 1)
           place == [o \in S |-> Cardinality(Ahead(S, o))]
<1>1. k \in Nat /\ IsFiniteSet(S) /\ k > 0
  BY AheadIsFinite
<1>2. \A o \in S : place[o] = Cardinality(Ahead(S, o)) /\ place[o] \in Nat /\ place[o] < k
  BY AheadIsFinite, AheadIsFewer
<1> HIDE DEF k
<1>3. place \in [S -> places]
  BY <1>1, <1>2
<1>4. ASSUME NEW o \in S, NEW p \in S, place[o] = place[p] PROVE o = p
  <2>1. ~Precedes(o, p) /\ ~Precedes(p, o)
    BY <1>2, <1>4, AheadGrows
  <2>2. QED
    BY <2>1, OrderIsStrict
<1>5. IsFiniteSet(places) /\ Cardinality(places) = k
  BY <1>1, FS_Interval
<1>6. k = Cardinality(S)
  BY DEF k
<1> HIDE DEF place, places
<1>7. place \in Injection(S, places)
  BY <1>3, <1>4 DEF Injection, IsInjective
<1>8. place \in Surjection(S, places)
  BY <1>5, <1>6, <1>7, FS_Injection
<1>9. n \in places
  BY <1>1, <1>6 DEF places
<1>10. PICK o \in S : place[o] = n
  BY <1>8, <1>9 DEF Surjection
<1>11. Cardinality({p \in S : Precedes(p, o)}) = n
  BY <1>2, <1>10 DEF Ahead
<1>12. QED
  BY <1>11 DEF Nth, Ahead

\* The rows of the query.
Found(c) == {o \in Matching : c # None => AfterCursor(o, c)}

PageSize(c) == IF Cardinality(Found(c)) > Limit THEN Limit ELSE Cardinality(Found(c))

LEMMA FoundIsSet ==
    ASSUME NEW c
    PROVE  Found(c) \in SUBSET Opps /\ Cardinality(Found(c)) \in Nat /\ PageSize(c) \in Nat
<1>1. Found(c) \in SUBSET Opps
  BY DEF Found, Matching
<1>2. QED
  BY <1>1, AheadIsFinite, ExplorerAssumption DEF PageSize

\* The page in terms of places: its rows are the first ones of the order, and its
\* cursor is the last of them if there are more.
LEMMA PageShape ==
    ASSUME NEW c
    PROVE  ListPage(c) =
             [items |-> [i \in 1..PageSize(c) |-> [id |-> Nth(Found(c), i - 1),
                                                  state |-> mine[Nth(Found(c), i - 1)]]],
              next |-> IF Cardinality(Found(c)) > Limit
                       THEN [v |-> SortValue(Nth(Found(c), Limit - 1)),
                             id |-> Nth(Found(c), Limit - 1)]
                       ELSE None]
<1> DEFINE S == Found(c)
           n == Cardinality(S)
           more == n > Limit
           k == IF more THEN Limit + 1 ELSE n
           size == PageSize(c)
           rows == [i \in 1..k |-> Nth(S, i - 1)]
           page == IF Len(rows) > Limit THEN SubSeq(rows, 1, Limit) ELSE rows
<1>1. n \in Nat /\ Limit \in Nat /\ Limit > 0
  BY FoundIsSet, ExplorerAssumption
<1>2. Rows(c) = rows
  BY DEF Rows, Found
<1>3. size = IF more THEN Limit ELSE n
  BY DEF PageSize
<1> HIDE DEF n, S
<1>4. Len(rows) = k
  BY <1>1
<1>5. (Len(rows) > Limit) <=> more
  BY <1>1, <1>4
<1>6. page = [i \in 1..size |-> Nth(S, i - 1)]
  <2>1. CASE more
    <3>1. SubSeq(rows, 1, Limit) = [i \in 1..Limit |-> rows[i]]
      <4>1. SubSeq(rows, 1, Limit) = [i \in 1..(1 + Limit - 1) |-> rows[i + 1 - 1]]
        BY <1>1
      <4>2. \A i \in 1..Limit : i + 1 - 1 = i
        BY <1>1
      <4>3. 1 + Limit - 1 = Limit
        BY <1>1
      <4> HIDE DEF rows
      <4>4. QED
        BY <4>1, <4>2, <4>3
    <3>2. \A i \in 1..Limit : rows[i] = Nth(S, i - 1)
      BY <1>1, <2>1
    <3> HIDE DEF rows
    <3>3. QED
      BY <1>3, <1>5, <2>1, <3>1, <3>2
  <2>2. CASE ~more
    BY <1>3, <1>5, <2>2
  <2>3. QED
    BY <2>1, <2>2
<1> HIDE DEF rows, page, more
<1>7. DOMAIN page = 1..size /\ \A i \in 1..size : page[i] = Nth(S, i - 1)
  BY <1>6
<1>8. size \in Nat /\ Len(page) = size
  BY <1>6, FoundIsSet
<1>9. more => page[Len(page)] = Nth(S, Limit - 1)
  BY <1>1, <1>3, <1>7, <1>8
<1>10. ListPage(c) =
         [items |-> [i \in DOMAIN page |-> [id |-> page[i], state |-> mine[page[i]]]],
          next |-> IF Len(rows) > Limit
                   THEN [v |-> SortValue(page[Len(page)]), id |-> page[Len(page)]] ELSE None]
  BY <1>2 DEF ListPage, page
<1>11. [i \in DOMAIN page |-> [id |-> page[i], state |-> mine[page[i]]]] =
       [i \in 1..size |-> [id |-> Nth(S, i - 1), state |-> mine[Nth(S, i - 1)]]]
  BY <1>7
<1>12. QED
  BY <1>5, <1>9, <1>10, <1>11 DEF more, n, S, SortValue

\* A page is a sequence of rows the query finds, none twice, as the overlay has them.
LEMMA PageRows ==
    ASSUME ListTypes, NEW c
    PROVE  /\ ListPage(c).items \in Seq(Item)
           /\ ListPage(c).next \in Cursors \union {None}
           /\ \A i \in DOMAIN ListPage(c).items :
                /\ ListPage(c).items[i].id \in Found(c)
                /\ ListPage(c).items[i].state = mine[ListPage(c).items[i].id]
           /\ \A i, j \in DOMAIN ListPage(c).items :
                ListPage(c).items[i].id = ListPage(c).items[j].id => i = j
<1> DEFINE S == Found(c)
           size == PageSize(c)
           P == ListPage(c)
<1>1. S \in SUBSET Opps /\ Cardinality(S) \in Nat /\ size \in Nat /\ Limit \in Nat \ {0}
      /\ size <= Cardinality(S) /\ row \in [Opps -> Columns]
  BY FoundIsSet, ExplorerAssumption DEF PageSize, ListTypes
<1>2. /\ P.items = [i \in 1..size |-> [id |-> Nth(S, i - 1), state |-> mine[Nth(S, i - 1)]]]
      /\ P.next = IF Cardinality(S) > Limit
                  THEN [v |-> SortValue(Nth(S, Limit - 1)), id |-> Nth(S, Limit - 1)] ELSE None
  BY PageShape
<1> HIDE DEF S, size, P
<1>3. ASSUME NEW i \in 1..size
      PROVE  Nth(S, i - 1) \in S /\ Cardinality(Ahead(S, Nth(S, i - 1))) = i - 1
  BY <1>1, NthIsThere
<1>4. \A i \in 1..size : [id |-> Nth(S, i - 1), state |-> mine[Nth(S, i - 1)]] \in Item
  BY <1>1, <1>3 DEF Item, ListTypes
<1>5. P.items \in Seq(Item)
  BY <1>1, <1>2, <1>4
<1>6. P.next \in Cursors \union {None}
  <2>1. CASE Cardinality(S) > Limit
    <3>1. Limit - 1 \in Nat /\ Limit - 1 < Cardinality(S)
      BY <1>1, <2>1
    <3>2. Nth(S, Limit - 1) \in Opps
      BY <1>1, <3>1, NthIsThere
    <3>3. QED
      BY <1>1, <1>2, <2>1, <3>2, SortValueType DEF Cursors
  <2>2. CASE ~(Cardinality(S) > Limit)
    BY <1>2, <2>2
  <2>3. QED
    BY <2>1, <2>2
<1>7. DOMAIN P.items = 1..size
      /\ \A i \in 1..size : /\ P.items[i].id = Nth(S, i - 1)
                            /\ P.items[i].state = mine[Nth(S, i - 1)]
  BY <1>2
<1>8. \A i, j \in 1..size : Nth(S, i - 1) = Nth(S, j - 1) => i = j
  BY <1>1, <1>3
<1>9. QED
  BY <1>3, <1>5, <1>6, <1>7, <1>8 DEF S, P

Listed(items, o) == \E i \in DOMAIN items : items[i].id = o

\* The row at the place of a row is that row.
LEMMA NthOfPlace ==
    ASSUME row \in [Opps -> Columns], NEW S \in SUBSET Opps, NEW o \in S
    PROVE  Nth(S, Cardinality(Ahead(S, o))) = o
<1> DEFINE n == Cardinality(Ahead(S, o))
           p == Nth(S, n)
<1>1. n \in Nat /\ n < Cardinality(S)
  BY AheadIsFinite, AheadIsFewer
<1>2. p \in S /\ Cardinality(Ahead(S, p)) = n
  BY <1>1, NthIsThere
<1> HIDE DEF p
<1>3. ~Precedes(o, p) /\ ~Precedes(p, o)
  BY <1>1, <1>2, AheadGrows
<1>4. QED
  BY <1>2, <1>3, OrderIsStrict DEF p

\* The page has every row the query finds up to its cursor, the last of them, or all
\* that there are.
LEMMA PageIsWhole ==
    ASSUME ListTypes, NEW c
    PROVE  /\ ListPage(c).next = None => \A o \in Found(c) : Listed(ListPage(c).items, o)
           /\ ListPage(c).next # None =>
                LET last == ListPage(c).next.id IN
                /\ last \in Found(c) /\ ListPage(c).next = [v |-> SortValue(last), id |-> last]
                /\ \A o \in Found(c) : Precedes(last, o) \/ Listed(ListPage(c).items, o)
                /\ \A i \in DOMAIN ListPage(c).items : ~Precedes(last, ListPage(c).items[i].id)
<1> DEFINE S == Found(c)
           size == PageSize(c)
           P == ListPage(c)
           last == Nth(S, Limit - 1)
<1>1. S \in SUBSET Opps /\ Cardinality(S) \in Nat /\ size \in Nat /\ Limit \in Nat \ {0}
      /\ size = (IF Cardinality(S) > Limit THEN Limit ELSE Cardinality(S))
      /\ row \in [Opps -> Columns]
  BY FoundIsSet, ExplorerAssumption DEF PageSize, ListTypes
<1>2. /\ P.items = [i \in 1..size |-> [id |-> Nth(S, i - 1), state |-> mine[Nth(S, i - 1)]]]
      /\ P.next = IF Cardinality(S) > Limit
                  THEN [v |-> SortValue(last), id |-> last] ELSE None
  BY PageShape
<1> HIDE DEF S, size, P, last
<1>3. DOMAIN P.items = 1..size /\ \A i \in 1..size : P.items[i].id = Nth(S, i - 1)
  BY <1>2
<1>4. ASSUME NEW o \in S, Cardinality(Ahead(S, o)) < size
      PROVE  Listed(P.items, o)
  <2> DEFINE n == Cardinality(Ahead(S, o))
  <2>1. n \in Nat /\ Nth(S, n) = o
    BY <1>1, AheadIsFinite, NthOfPlace
  <2> HIDE DEF n
  <2>2. n + 1 \in 1..size /\ (n + 1) - 1 = n
    BY <1>1, <1>4, <2>1 DEF n
  <2>3. P.items[n + 1].id = o
    BY <1>3, <2>1, <2>2
  <2>4. QED
    BY <1>3, <2>2, <2>3 DEF Listed
<1>5. ASSUME ~(Cardinality(S) > Limit), NEW o \in S
      PROVE  Listed(P.items, o)
  BY <1>1, <1>4, <1>5, AheadIsFewer
<1>6. ASSUME Cardinality(S) > Limit
      PROVE  /\ last \in S /\ Cardinality(Ahead(S, last)) = Limit - 1
             /\ \A o \in S : Precedes(last, o) \/ Listed(P.items, o)
             /\ \A i \in 1..size : ~Precedes(last, P.items[i].id)
  <2>1. Limit - 1 \in Nat /\ Limit - 1 < Cardinality(S)
    BY <1>1, <1>6
  <2>2. last \in S /\ Cardinality(Ahead(S, last)) = Limit - 1
    BY <1>1, <2>1, NthIsThere DEF last
  <2>3. ASSUME NEW o \in S, ~Precedes(last, o) PROVE Listed(P.items, o)
    <3>1. o = last \/ Precedes(o, last)
      BY <1>1, <2>2, <2>3, OrderIsStrict
    <3>2. Cardinality(Ahead(S, o)) \in Nat /\ Cardinality(Ahead(S, o)) <= Limit - 1
      BY <1>1, <2>2, <3>1, AheadGrows, AheadIsFinite
    <3>3. QED
      BY <1>1, <1>4, <1>6, <3>2
  <2>4. ASSUME NEW i \in 1..size, Precedes(last, P.items[i].id) PROVE FALSE
    <3>1. i - 1 \in Nat /\ i - 1 < Cardinality(S) /\ i - 1 <= Limit - 1
      BY <1>1, <1>6
    <3>2. Nth(S, i - 1) \in S /\ Cardinality(Ahead(S, Nth(S, i - 1))) = i - 1
      BY <1>1, <3>1, NthIsThere
    <3>3. Precedes(last, Nth(S, i - 1))
      BY <1>3, <2>4
    <3>4. Limit - 1 < i - 1
      BY <1>1, <2>2, <3>2, <3>3, AheadGrows
    <3>5. QED
      BY <1>1, <3>1, <3>4
  <2>5. QED
    BY <2>2, <2>3, <2>4
<1>7. CASE Cardinality(S) > Limit
  <2>1. P.next = [v |-> SortValue(last), id |-> last]
    BY <1>2, <1>7
  <2>2. P.next # None
    <3>1. last \in Opps /\ SortValue(last) \in Nat \union {None}
      BY <1>1, <1>6, <1>7, SortValueType
    <3>2. P.next \in Cursors
      BY <2>1, <3>1 DEF Cursors
    <3>3. QED
      BY <3>2, ExplorerAssumption
  <2>3. P.next.id = last
    BY <2>1
  <2>4. QED
    BY <1>3, <1>6, <1>7, <2>1, <2>2, <2>3 DEF S, P
<1>8. CASE ~(Cardinality(S) > Limit)
  BY <1>2, <1>5, <1>8 DEF S, P
<1>9. QED
  BY <1>7, <1>8

-----------------------------------------------------------------------------
(***************************************************************************)
(* Types.                                                                  *)
(***************************************************************************)

LEMMA NoPagesType == NoPages \in Pages /\ NoPages.items = <<>> /\ NoPages.cursor = None
BY DEF NoPages, Pages

LEMMA NoFetchType == NoFetch \in FetchRecord /\ NoFetch.acc = NoPages /\ NoFetch.pc = "idle"
BY NoPagesType DEF NoFetch, FetchRecord

LEMMA KindsAreGoals ==
    DOMAIN Goal = Kinds /\ \A kind \in Kinds : Goal[kind] \in UserStates
BY DEF Goal, Kinds, UserStates

\* patchCaches changes the states shown of one opportunity and nothing else.
LEMMA PatchedPages ==
    ASSUME NEW P \in Pages, NEW o, NEW s \in UserStates
    PROVE  /\ Patched(P, o, s) \in Pages
           /\ Patched(P, o, s).loaded = P.loaded /\ Patched(P, o, s).cursor = P.cursor
           /\ Patched(P, o, s).pages = P.pages /\ Patched(P, o, s).from = P.from
           /\ DOMAIN Patched(P, o, s).items = DOMAIN P.items
           /\ \A i \in DOMAIN P.items :
                /\ Patched(P, o, s).items[i].id = P.items[i].id
                /\ Patched(P, o, s).items[i].state =
                      IF P.items[i].id = o THEN s ELSE P.items[i].state
<1> DEFINE shown == [i \in DOMAIN P.items |->
                       IF P.items[i].id = o THEN [P.items[i] EXCEPT !.state = s] ELSE P.items[i]]
<1>1. Patched(P, o, s) = [P EXCEPT !.items = shown]
  BY DEF Patched
<1>2. P.items \in Seq(Item) /\ DOMAIN P.items = 1..Len(P.items) /\ Len(P.items) \in Nat
  BY DEF Pages
<1>3. \A i \in DOMAIN P.items : P.items[i] \in Item
  BY <1>2
<1>4. \A i \in DOMAIN P.items :
         /\ shown[i] \in Item /\ shown[i].id = P.items[i].id
         /\ shown[i].state = IF P.items[i].id = o THEN s ELSE P.items[i].state
  BY <1>3 DEF Item
<1>5. DOMAIN shown = DOMAIN P.items
  OBVIOUS
<1> HIDE DEF shown
<1>6. shown \in Seq(Item)
  <2>1. shown = [i \in 1..Len(P.items) |-> shown[i]]
    BY <1>2, <1>5 DEF shown
  <2>2. QED
    BY <1>2, <1>4, <2>1
<1>7. QED
  BY <1>1, <1>4, <1>5, <1>6 DEF Pages

LEMMA SendsRecord ==
    ASSUME NEW acc, NEW want, Sends(acc, want)
    PROVE  fetch' = [pc |-> "sent", want |-> want, fresh |-> (acc = NoPages),
                     clean |-> (PendingMuts = {}), acc |-> acc, page |-> <<>>, next |-> None]
BY DEF Sends, NoFetch

LEMMA ListTypesInit == Init => ListTypes
<1> SUFFICES ASSUME Init PROVE ListTypes
  OBVIOUS
<1>1. NewMut \in Mutation /\ NewMut.pc = "new"
  BY NoPagesType DEF NewMut, Mutation
<1>2. row \in [Opps -> Columns] /\ mine \in [Opps -> UserStates]
  BY ExplorerAssumption DEF Init
<1>3. QED
  BY <1>1, <1>2, NoPagesType, NoFetchType DEF Init, ListTypes

\* What a mutation's record has to be.
MutationFits(r) ==
    /\ r \in Mutation
    /\ r.pc \in {"sent", "reading", "answered"} => r.opp \in Opps /\ r.kind \in Kinds
    /\ r.pc = "answered" => r.result \in UserStates

LEMMA MutStaysTyped ==
    ASSUME ListTypes, NEW m \in Muts, NEW r, MutationFits(r), mut' = [mut EXCEPT ![m] = r],
           row' \in [Opps -> Columns], mine' \in [Opps -> UserStates],
           cache' \in Pages, fetch' \in FetchRecord, raced' \in BOOLEAN, touches' \in Nat
    PROVE  ListTypes'
BY DEF ListTypes, MutationFits

LEMMA SameMutStaysTyped ==
    ASSUME ListTypes, UNCHANGED mut,
           row' \in [Opps -> Columns], mine' \in [Opps -> UserStates],
           cache' \in Pages, fetch' \in FetchRecord, raced' \in BOOLEAN, touches' \in Nat
    PROVE  ListTypes'
BY DEF ListTypes

LEMMA SentRecord ==
    ASSUME NEW acc \in Pages, NEW want \in Nat, NEW fresh \in BOOLEAN, NEW clean \in BOOLEAN
    PROVE  [pc |-> "sent", want |-> want, fresh |-> fresh, clean |-> clean, acc |-> acc,
            page |-> <<>>, next |-> None] \in FetchRecord
BY DEF FetchRecord

LEMMA SendsType ==
    ASSUME ListTypes, NEW acc \in Pages, NEW want \in Nat, Sends(acc, want),
           UNCHANGED <<row, mine, cache, mut, raced, touches>>
    PROVE  ListTypes'
<1> DEFINE fresh == (acc = NoPages)
           clean == (PendingMuts = {})
<1>1. fresh \in BOOLEAN /\ clean \in BOOLEAN
  OBVIOUS
<1>2. fetch' = [pc |-> "sent", want |-> want, fresh |-> fresh, clean |-> clean, acc |-> acc,
                page |-> <<>>, next |-> None]
  BY SendsRecord
<1> HIDE DEF fresh, clean
<1>3. [pc |-> "sent", want |-> want, fresh |-> fresh, clean |-> clean, acc |-> acc,
       page |-> <<>>, next |-> None] \in FetchRecord
  BY <1>1, SentRecord
<1>4. fetch' \in FetchRecord
  BY <1>2, <1>3
<1>5. QED
  BY <1>4, SameMutStaysTyped DEF ListTypes

LEMMA AnswerRecord ==
    ASSUME ListTypes, AnswerList
    PROVE  /\ fetch.pc = "sent"
           /\ fetch' = [fetch EXCEPT !.pc = "answered",
                                     !.page = ListPage(fetch.acc.cursor).items,
                                     !.next = ListPage(fetch.acc.cursor).next,
                                     !.acc = [fetch.acc EXCEPT !.from =
                                        IF fetch.acc.pages = 0 THEN Matching ELSE fetch.acc.from]]
           /\ fetch' \in FetchRecord
<1> DEFINE page == ListPage(fetch.acc.cursor)
           acc == [fetch.acc EXCEPT !.from =
                     IF fetch.acc.pages = 0 THEN Matching ELSE fetch.acc.from]
<1>1. fetch \in FetchRecord
  BY DEF ListTypes
<1>2. acc \in Pages
  BY <1>1 DEF FetchRecord, Pages, Matching
<1>3. page.items \in Seq(Item) /\ page.next \in Cursors \union {None}
  BY PageRows
<1>4. fetch.pc = "sent" /\ fetch' = [fetch EXCEPT !.pc = "answered", !.page = page.items,
                                                  !.next = page.next, !.acc = acc]
  BY <1>1 DEF AnswerList, FetchRecord
<1> HIDE DEF page, acc
<1>5. fetch' \in FetchRecord
  BY <1>1, <1>2, <1>3, <1>4 DEF FetchRecord
<1>6. QED
  BY <1>4, <1>5 DEF page, acc

\* The pages of a request, the answered one among them.
Received == [fetch.acc EXCEPT !.loaded = TRUE, !.items = @ \o fetch.page,
                              !.cursor = fetch.next, !.pages = @ + 1]

LEMMA ReceivedPages ==
    ASSUME ListTypes
    PROVE  /\ Received \in Pages
           /\ Received.loaded = TRUE /\ Received.cursor = fetch.next
           /\ Received.pages = fetch.acc.pages + 1 /\ Received.from = fetch.acc.from
           /\ Received.items = fetch.acc.items \o fetch.page
<1>1. /\ fetch.acc \in Pages /\ fetch.page \in Seq(Item)
      /\ fetch.next \in Cursors \union {None}
  BY DEF ListTypes, FetchRecord
<1> DEFINE items == fetch.acc.items \o fetch.page
<1>2. items \in Seq(Item)
  BY <1>1, ConcatProperties DEF Pages
<1>3. Received = [fetch.acc EXCEPT !.loaded = TRUE, !.items = items,
                                   !.cursor = fetch.next, !.pages = fetch.acc.pages + 1]
  BY DEF Received
<1>4. fetch.acc.pages + 1 \in Nat
  BY <1>1 DEF Pages
<1> HIDE DEF items
<1>5. QED
  BY <1>1, <1>2, <1>3, <1>4 DEF Pages, items

LEMMA ReceiveRecord ==
    ASSUME ListTypes, ReceiveList
    PROVE  /\ fetch.pc = "answered" /\ UNCHANGED <<row, mine, view, mut, touches>>
           /\ \/ /\ fetch.want > 1 /\ fetch.next # None
                 /\ fetch' = [fetch EXCEPT !.pc = "sent", !.want = fetch.want - 1, !.acc = Received]
                 /\ fetch' \in FetchRecord /\ UNCHANGED <<cache, raced>>
              \/ /\ cache' = Received /\ fetch' = NoFetch
                 /\ raced' = (~fetch.clean \/ (raced /\ ~fetch.fresh))
<1>1. fetch \in FetchRecord
  BY DEF ListTypes
<1>2. CASE fetch.want > 1 /\ fetch.next # None
  <2>1. fetch' = [fetch EXCEPT !.pc = "sent", !.want = fetch.want - 1, !.acc = Received]
    BY <1>1, <1>2 DEF ReceiveList, Received, FetchRecord
  <2>2. fetch.want - 1 \in Nat
    BY <1>1, <1>2 DEF FetchRecord
  <2>3. fetch' \in FetchRecord
    BY <1>1, <2>1, <2>2, ReceivedPages DEF FetchRecord
  <2>4. QED
    BY <1>2, <2>1, <2>3 DEF ReceiveList
<1>3. CASE ~(fetch.want > 1 /\ fetch.next # None)
  BY <1>3 DEF ReceiveList, Received
<1>4. QED
  BY <1>2, <1>3

\* What is kept of pages whose rows may have stopped to match.
Kept(P) == [P EXCEPT !.from = Still(@)]

LEMMA KeptPages ==
    ASSUME NEW P \in Pages
    PROVE  /\ Kept(P) \in Pages
           /\ Kept(P).loaded = P.loaded /\ Kept(P).items = P.items
           /\ Kept(P).cursor = P.cursor /\ Kept(P).pages = P.pages
           /\ Kept(P).from = Still(P.from) /\ Still(P.from) \subseteq P.from
BY DEF Kept, Still, Pages

\* The cache and the request after a write to the database.
LEMMA KeptState ==
    ASSUME ListTypes, NEW clean \in BOOLEAN
    PROVE  /\ Kept(cache) \in Pages
           /\ [fetch EXCEPT !.acc = Kept(fetch.acc), !.clean = clean] \in FetchRecord
           /\ [fetch EXCEPT !.acc = Kept(fetch.acc)] \in FetchRecord
<1>1. cache \in Pages /\ fetch \in FetchRecord /\ fetch.acc \in Pages
  BY DEF ListTypes, FetchRecord
<1>2. Kept(cache) \in Pages /\ Kept(fetch.acc) \in Pages
  BY <1>1, KeptPages
<1> HIDE DEF Kept
<1>3. QED
  BY <1>1, <1>2 DEF FetchRecord

LEMMA FollowsRecord ==
    ASSUME ListTypes, Follows
    PROVE  cache' = Kept(cache) /\ fetch' = [fetch EXCEPT !.acc = Kept(fetch.acc)]
BY DEF ListTypes, FetchRecord, Pages, Follows, Kept

LEMMA ClickRecord ==
    ASSUME ListTypes, NEW m \in Muts, NEW o \in Opps, NEW kind \in Kinds, Click(m, o, kind)
    PROVE  /\ mut[m].pc = "new" /\ fetch' = NoFetch
           /\ cache' = Patched(cache, o, Goal[kind]) /\ raced' = (raced \/ Busy(o))
           /\ mingled' = IF PendingMuts = {} THEN mingled
                         ELSE mingled \union PendingMuts \union {m}
           /\ mut' = [mut EXCEPT ![m] = [pc |-> "sent", opp |-> o, kind |-> kind, prev |-> cache,
                                         result |-> None]]
           /\ UNCHANGED <<row, mine, view, touches>>
           /\ ListTypes'
<1> DEFINE r == [pc |-> "sent", opp |-> o, kind |-> kind, prev |-> cache, result |-> None]
<1>1. MutationFits(r)
  <2>1. cache \in Pages
    BY DEF ListTypes
  <2>2. r \in Mutation
    BY <2>1 DEF Mutation
  <2>3. r.pc = "sent" /\ r.opp = o /\ r.kind = kind
    OBVIOUS
  <2> HIDE DEF r
  <2>4. QED
    BY <2>2, <2>3 DEF MutationFits
<1>2. mut' = [mut EXCEPT ![m] = r]
  BY DEF Click
<1>3. cache' = Patched(cache, o, Goal[kind]) /\ cache' \in Pages
  BY PatchedPages, KindsAreGoals DEF Click, ListTypes
<1>4. fetch' = NoFetch /\ raced' = (raced \/ Busy(o)) /\ raced' \in BOOLEAN
  BY DEF Click, Cancelled
<1>5. /\ mut[m].pc = "new" /\ UNCHANGED <<row, mine, view, touches>>
      /\ mingled' = IF PendingMuts = {} THEN mingled ELSE mingled \union PendingMuts \union {m}
  BY DEF Click
<1> HIDE DEF r
<1>6. ListTypes'
  BY <1>1, <1>2, <1>3, <1>4, <1>5, MutStaysTyped, NoFetchType DEF ListTypes
<1>7. QED
  BY <1>2, <1>3, <1>4, <1>5, <1>6 DEF r

\* A save or dismiss is answered at once, an undo after it has read the row back.
LEMMA WriteRecord ==
    ASSUME ListTypes, NEW m \in Muts, Write(m)
    PROVE  /\ mut[m].pc = "sent" /\ mut[m].opp \in Opps /\ mut[m].kind \in Kinds
           /\ mut' = [mut EXCEPT ![m] =
                        [mut[m] EXCEPT !.pc = IF mut[m].kind \in {"save", "dismiss"}
                                              THEN "answered" ELSE "reading",
                                       !.result = Goal[mut[m].kind]]]
           /\ mut[m].kind \in {"save", "dismiss"} =>
                mine' = [mine EXCEPT ![mut[m].opp] = Goal[mut[m].kind]]
           /\ \A o \in Opps : o # mut[m].opp => mine'[o] = mine[o]
           /\ cache' = Kept(cache) /\ fetch' = [fetch EXCEPT !.acc = Kept(fetch.acc)]
           /\ UNCHANGED <<row, view, raced, mingled, touches>>
           /\ ListTypes'
<1> DEFINE r == [mut[m] EXCEPT !.pc = IF mut[m].kind \in {"save", "dismiss"}
                                      THEN "answered" ELSE "reading",
                               !.result = Goal[mut[m].kind]]
<1>1. mut[m].pc = "sent" /\ mut[m].opp \in Opps /\ mut[m].kind \in Kinds /\ mut[m] \in Mutation
  BY DEF Write, ListTypes
<1>2. Goal[mut[m].kind] \in UserStates
  BY <1>1, KindsAreGoals
<1>3. MutationFits(r)
  BY <1>1, <1>2 DEF MutationFits, Mutation
<1>4. mut' = [mut EXCEPT ![m] = r]
  BY DEF Write, ListTypes, Mutation
<1>5. mine' = IF mut[m].kind \in {"save", "dismiss"}
              THEN [mine EXCEPT ![mut[m].opp] = Goal[mut[m].kind]]
              ELSE Cleared(mut[m].opp, mut[m].kind)
  BY DEF Write
<1>6. mine \in [Opps -> UserStates]
  BY DEF ListTypes
<1>7. /\ mine' \in [Opps -> UserStates]
      /\ \A o \in Opps : o # mut[m].opp => mine'[o] = mine[o]
  <2>1. CASE mut[m].kind \in {"save", "dismiss"}
    BY <1>1, <1>2, <1>5, <1>6, <2>1
  <2>2. CASE mut[m].kind \notin {"save", "dismiss"}
    BY <1>1, <1>5, <1>6, <2>2 DEF Cleared, UserStates
  <2>3. QED
    BY <2>1, <2>2
<1>8. Follows /\ UNCHANGED <<row, view, raced, mingled, touches>>
  BY DEF Write
<1>9. cache' = Kept(cache) /\ fetch' = [fetch EXCEPT !.acc = Kept(fetch.acc)]
  BY <1>8, FollowsRecord
<1> HIDE DEF r, Kept
<1>10. ListTypes'
  BY <1>3, <1>4, <1>7, <1>8, <1>9, MutStaysTyped, KeptState DEF ListTypes
<1>11. QED
  BY <1>1, <1>4, <1>5, <1>7, <1>8, <1>9, <1>10 DEF r

LEMMA ReadBackRecord ==
    ASSUME ListTypes, NEW m \in Muts, ReadBack(m)
    PROVE  /\ mut[m].pc = "reading" /\ mut[m].opp \in Opps
           /\ mut' = [mut EXCEPT ![m] = [mut[m] EXCEPT !.pc = "answered",
                                                       !.result = mine[mut[m].opp]]]
           /\ UNCHANGED <<row, mine, view, cache, fetch, raced, mingled, touches>>
           /\ ListTypes'
<1> DEFINE r == [mut[m] EXCEPT !.pc = "answered", !.result = mine[mut[m].opp]]
<1>1. mut[m].pc = "reading" /\ mut[m].opp \in Opps /\ mut[m] \in Mutation
  BY DEF ReadBack, ListTypes
<1>2. mine[mut[m].opp] \in UserStates
  BY <1>1 DEF ListTypes
<1>3. MutationFits(r)
  BY <1>1, <1>2 DEF MutationFits, Mutation, ListTypes
<1>4. mut' = [mut EXCEPT ![m] = r]
  BY DEF ReadBack, ListTypes, Mutation
<1>5. UNCHANGED <<row, mine, view, cache, fetch, raced, mingled, touches>>
  BY DEF ReadBack
<1> HIDE DEF r
<1>6. ListTypes'
  BY <1>3, <1>4, <1>5, MutStaysTyped DEF ListTypes
<1>7. QED
  BY <1>1, <1>4, <1>5, <1>6 DEF r

LEMMA SucceedRecord ==
    ASSUME ListTypes, NEW m \in Muts, Succeed(m)
    PROVE  /\ mut[m].pc = "answered" /\ mut[m].opp \in Opps /\ mut[m].result \in UserStates
           /\ cache' = Patched(cache, mut[m].opp, mut[m].result)
           /\ mut' = [mut EXCEPT ![m] = [mut[m] EXCEPT !.pc = "done", !.prev = NoPages]]
           /\ UNCHANGED <<row, mine, view, fetch, raced, mingled, touches>>
           /\ ListTypes'
<1> DEFINE r == [mut[m] EXCEPT !.pc = "done", !.prev = NoPages]
<1>1. mut[m].pc = "answered" /\ mut[m].opp \in Opps /\ mut[m] \in Mutation
      /\ mut[m].result \in UserStates
  BY DEF Succeed, ListTypes
<1>2. MutationFits(r)
  BY <1>1, NoPagesType DEF MutationFits, Mutation
<1>3. mut' = [mut EXCEPT ![m] = r]
  BY DEF Succeed, ListTypes, Mutation
<1>4. cache' = Patched(cache, mut[m].opp, mut[m].result) /\ cache' \in Pages
  BY <1>1, PatchedPages DEF Succeed, ListTypes
<1>5. UNCHANGED <<row, mine, view, fetch, raced, mingled, touches>>
  BY DEF Succeed
<1> HIDE DEF r
<1>6. ListTypes'
  BY <1>2, <1>3, <1>4, <1>5, MutStaysTyped DEF ListTypes
<1>7. QED
  BY <1>1, <1>3, <1>4, <1>5, <1>6 DEF r

LEMMA FailRecord ==
    ASSUME ListTypes, NEW m \in Muts, Fail(m)
    PROVE  /\ m \in PendingMuts
           /\ raced' = (raced \/ mut[m].pc # "sent" \/ m \in mingled)
           /\ cache' = [mut[m].prev EXCEPT !.from = mut[m].prev.from \cap cache.from]
           /\ mut' = [mut EXCEPT ![m] = [mut[m] EXCEPT !.pc = "done", !.result = None,
                                                       !.prev = NoPages]]
           /\ UNCHANGED <<row, mine, view, fetch, mingled, touches>>
           /\ ListTypes'
<1> DEFINE r == [mut[m] EXCEPT !.pc = "done", !.result = None, !.prev = NoPages]
<1>1. mut[m] \in Mutation /\ mut[m].prev \in Pages /\ cache \in Pages
  BY DEF ListTypes, Mutation
<1>2. MutationFits(r)
  BY <1>1, NoPagesType DEF MutationFits, Mutation
<1>3. mut' = [mut EXCEPT ![m] = r]
  BY DEF Fail, ListTypes, Mutation
<1>4. cache' = [mut[m].prev EXCEPT !.from = mut[m].prev.from \cap cache.from]
  BY <1>1 DEF Fail, Pages
<1>5. cache' \in Pages
  BY <1>1, <1>4 DEF Pages
<1>6. UNCHANGED <<row, mine, view, fetch, mingled, touches>> /\ m \in PendingMuts
      /\ raced' = (raced \/ mut[m].pc # "sent" \/ m \in mingled) /\ raced' \in BOOLEAN
  BY DEF Fail
<1> HIDE DEF r
<1>7. ListTypes'
  BY <1>2, <1>3, <1>5, <1>6, MutStaysTyped DEF ListTypes
<1>8. QED
  BY <1>3, <1>4, <1>6, <1>7 DEF r

LEMMA OtherDeviceRecord ==
    ASSUME ListTypes, NEW o \in Opps, NEW state \in UserStates, OtherDevice(o, state)
    PROVE  /\ raced' = TRUE /\ UNCHANGED <<row, view, mut, mingled>>
           /\ cache' = Kept(cache)
           /\ fetch' = [fetch EXCEPT !.acc = Kept(fetch.acc), !.clean = FALSE]
           /\ ListTypes'
<1>1. cache' = Kept(cache)
  BY DEF OtherDevice, Kept
<1>2. fetch' = [fetch EXCEPT !.acc = Kept(fetch.acc), !.clean = FALSE]
  BY DEF OtherDevice, Kept, ListTypes, FetchRecord, Pages
<1>3. /\ raced' = TRUE /\ UNCHANGED <<row, view, mut, mingled>> /\ touches' = touches + 1
      /\ mine' = [mine EXCEPT ![o] = state]
  BY DEF OtherDevice, Elsewhere
<1>4. cache' \in Pages /\ fetch' \in FetchRecord
  <2>1. FALSE \in BOOLEAN
    OBVIOUS
  <2>2. /\ Kept(cache) \in Pages
        /\ [fetch EXCEPT !.acc = Kept(fetch.acc), !.clean = FALSE] \in FetchRecord
    BY <2>1, KeptState
  <2>3. QED
    BY <1>1, <1>2, <2>2
<1>5. touches' \in Nat /\ mine' \in [Opps -> UserStates] /\ row' \in [Opps -> Columns]
      /\ raced' \in BOOLEAN
  BY <1>3 DEF ListTypes
<1>6. ListTypes'
  BY <1>3, <1>4, <1>5, SameMutStaysTyped
<1>7. QED
  BY <1>1, <1>2, <1>3, <1>6

\* The pipeline changes rows, but never when a row was first seen.
LEMMA PipelineRecord ==
    ASSUME ListTypes, NEW o \in Opps, NEW review \in BOOLEAN, Touch(o, review) \/ Insert(o)
    PROVE  /\ \A p \in Opps : row'[p].seen = row[p].seen
           /\ UNCHANGED <<mine, view, mut, raced, mingled>>
           /\ cache' = Kept(cache) /\ fetch' = [fetch EXCEPT !.acc = Kept(fetch.acc)]
           /\ ListTypes'
<1>1. Follows /\ UNCHANGED <<mine, view, mut, raced, mingled>> /\ touches' = touches + 1
  BY DEF Touch, Insert, Elsewhere
<1>2. cache' = Kept(cache) /\ fetch' = [fetch EXCEPT !.acc = Kept(fetch.acc)]
  BY <1>1, FollowsRecord
<1>3. row \in [Opps -> Columns] /\ touches \in Nat /\ Cardinality(Opps) \in Nat
  BY FS_CardinalityType, ExplorerAssumption DEF ListTypes
<1> DEFINE now == 1 + Cardinality(Opps) + touches
<1>4. now \in Nat
  BY <1>3
<1>5. \/ row' = [row EXCEPT ![o].updated = now, ![o].review = review]
      \/ row' = [row EXCEPT ![o].present = TRUE]
  BY DEF Touch, Insert
<1> HIDE DEF now
<1>6. row' \in [Opps -> Columns] /\ \A p \in Opps : row'[p].seen = row[p].seen
  <2>1. ASSUME NEW p \in Opps
        PROVE  row'[p] \in Columns /\ row'[p].seen = row[p].seen
    <3>1. row[p] \in Columns
      BY <1>3
    <3>2. \/ row'[p] = row[p] \/ row'[p] = [row[p] EXCEPT !.updated = now, !.review = review]
          \/ row'[p] = [row[p] EXCEPT !.present = TRUE]
      BY <1>3, <1>5
    <3>3. QED
      BY <1>4, <3>1, <3>2 DEF Columns
  <2>2. row' = [p \in Opps |-> row'[p]]
    BY <1>3, <1>5
  <2>3. QED
    BY <2>1, <2>2
<1> HIDE DEF Kept
<1>7. ListTypes'
  <2>1. cache' \in Pages /\ fetch' \in FetchRecord
    BY <1>2, KeptState
  <2>2. touches' \in Nat /\ mine' \in [Opps -> UserStates] /\ raced' \in BOOLEAN
    BY <1>1, <1>3 DEF ListTypes
  <2>3. QED
    BY <1>1, <1>6, <2>1, <2>2, SameMutStaysTyped
<1>8. QED
  BY <1>1, <1>2, <1>6, <1>7

LEMMA ListTypesStep == ListTypes /\ [Next]_vars => ListTypes'
<1> SUFFICES ASSUME ListTypes, [Next]_vars PROVE ListTypes'
  OBVIOUS
<1>1. CASE Refetch
  <2>1. (IF cache.loaded THEN cache.pages ELSE 1) \in Nat
    BY DEF ListTypes, Pages
  <2>2. QED
    BY <1>1, <2>1, SendsType, NoPagesType DEF Refetch
<1>2. CASE FetchNextPage
  BY <1>2, SendsType DEF FetchNextPage, ListTypes
<1>3. CASE AnswerList
  BY <1>3, AnswerRecord, SameMutStaysTyped DEF ListTypes, AnswerList
<1>4. CASE ReceiveList
  <2>1. cache' \in Pages /\ fetch' \in FetchRecord
    BY <1>4, ReceiveRecord, ReceivedPages, NoFetchType DEF ListTypes
  <2>2. raced' \in BOOLEAN /\ UNCHANGED <<row, mine, mut, touches>>
    BY <1>4 DEF ReceiveList, ListTypes
  <2>3. QED
    BY <2>1, <2>2, SameMutStaysTyped DEF ListTypes
<1>5. ASSUME NEW m \in Muts,
             \/ \E o \in Opps, kind \in DOMAIN Goal : Click(m, o, kind)
             \/ Write(m) \/ ReadBack(m) \/ Succeed(m) \/ Fail(m)
      PROVE  ListTypes'
  BY <1>5, KindsAreGoals, ClickRecord, WriteRecord, ReadBackRecord, SucceedRecord, FailRecord
<1>6. ASSUME NEW o \in Opps,
             \/ \E state \in UserStates : OtherDevice(o, state)
             \/ \E review \in BOOLEAN : Touch(o, review)
             \/ Insert(o)
      PROVE  ListTypes'
  BY <1>6, OtherDeviceRecord, PipelineRecord
<1>7. CASE UNCHANGED vars
  BY <1>7 DEF ListTypes, vars
<1>8. QED
  BY <1>1, <1>2, <1>3, <1>4, <1>5, <1>6, <1>7 DEF Next

-----------------------------------------------------------------------------
(***************************************************************************)
(* What the list shows.                                                    *)
(***************************************************************************)

Agree(items) == \A i \in DOMAIN items : items[i].state = mine[items[i].id]

\* A mutation that ran alone can be rolled back while it may not have been written, and
\* one that is answered knows what its row is to show.
Fixes(m) ==
    /\ mut[m].pc = "sent" /\ m \notin mingled => Agree(mut[m].prev.items)
    /\ mut[m].pc = "answered" => mut[m].result = mine[mut[m].opp]

\* A request that nothing overlapped brings what the user has.
CleanLoad ==
    fetch.pc # "idle" /\ fetch.clean =>
        /\ PendingMuts = {}
        /\ fetch.fresh \/ ~raced =>
              Agree(fetch.acc.items) /\ (fetch.pc = "answered" => Agree(fetch.page))

AloneInv ==
    /\ CleanLoad
    /\ \A m \in PendingMuts \ mingled : PendingMuts = {m}
    /\ ~raced => /\ \A m, n \in PendingMuts : mut[m].opp = mut[n].opp => m = n
                 /\ MarksAgree
                 /\ \A m \in PendingMuts : Fixes(m)

LEMMA AgreeConcat ==
    ASSUME NEW s \in Seq(Item), NEW t \in Seq(Item), Agree(s), Agree(t)
    PROVE  Agree(s \o t)
<1>1. /\ DOMAIN s = 1..Len(s) /\ DOMAIN t = 1..Len(t) /\ Len(s) \in Nat /\ Len(t) \in Nat
      /\ DOMAIN (s \o t) = 1..(Len(s) + Len(t))
      /\ \A i \in 1..(Len(s) + Len(t)) :
            (s \o t)[i] = IF i <= Len(s) THEN s[i] ELSE t[i - Len(s)]
  BY ConcatProperties, LenProperties
<1>2. ASSUME NEW i \in 1..(Len(s) + Len(t))
      PROVE  (s \o t)[i].state = mine[(s \o t)[i].id]
  <2>1. CASE i <= Len(s)
    BY <1>1, <1>2, <2>1 DEF Agree
  <2>2. CASE ~(i <= Len(s))
    <3>1. i - Len(s) \in 1..Len(t)
      BY <1>1, <1>2, <2>2
    <3>2. QED
      BY <1>1, <2>2, <3>1 DEF Agree
  <2>3. QED
    BY <2>1, <2>2
<1>3. QED
  BY <1>1, <1>2 DEF Agree

LEMMA AgreeEmpty == Agree(<<>>)
BY DEF Agree

LEMMA AloneInit == Init => AloneInv
BY NoFetchType, NoPagesType, AgreeEmpty
   DEF Init, AloneInv, CleanLoad, PendingMuts, NewMut, MarksAgree, Agree

\* A request is sent for the pages agreed on so far.
LEMMA AloneSends ==
    ASSUME ListTypes, AloneInv, NEW acc \in Pages, NEW want \in Nat, Sends(acc, want),
           acc = NoPages \/ acc = cache, UNCHANGED <<mine, cache, mut, raced, mingled>>
    PROVE  AloneInv'
<1>1. PendingMuts' = PendingMuts
  BY DEF PendingMuts
<1>2. fetch'.pc = "sent" /\ (fetch'.clean <=> PendingMuts = {}) /\ (fetch'.fresh <=> acc = NoPages)
      /\ fetch'.acc = acc
  <2> DEFINE fresh == (acc = NoPages)
             clean == (PendingMuts = {})
  <2>1. fetch' = [pc |-> "sent", want |-> want, fresh |-> fresh, clean |-> clean, acc |-> acc,
                  page |-> <<>>, next |-> None]
    BY SendsRecord
  <2> HIDE DEF fresh, clean
  <2>2. fetch'.pc = "sent" /\ fetch'.clean = clean /\ fetch'.fresh = fresh /\ fetch'.acc = acc
    BY <2>1
  <2>3. QED
    BY <2>2 DEF fresh, clean
<1>3. ASSUME acc = NoPages \/ ~raced, PendingMuts = {}
      PROVE  Agree(acc.items)
  <2>1. CASE acc = NoPages
    BY <2>1, NoPagesType, AgreeEmpty
  <2>2. CASE acc # NoPages
    BY <1>3, <2>2 DEF AloneInv, MarksAgree, Busy, Agree
  <2>3. QED
    BY <2>1, <2>2
<1>4. CleanLoad'
  BY <1>1, <1>2, <1>3 DEF CleanLoad, Agree
<1>5. QED
  BY <1>1, <1>4 DEF AloneInv, Fixes, Agree, MarksAgree, Busy

LEMMA AloneAnswer ==
    ASSUME ListTypes, AloneInv, AnswerList
    PROVE  AloneInv'
<1>1. PendingMuts' = PendingMuts /\ UNCHANGED <<mine, cache, mut, raced, mingled>>
  BY DEF PendingMuts, AnswerList
<1>2. /\ fetch.pc = "sent" /\ fetch'.pc = "answered" /\ fetch'.clean = fetch.clean
      /\ fetch'.fresh = fetch.fresh /\ fetch'.acc.items = fetch.acc.items
      /\ fetch'.page = ListPage(fetch.acc.cursor).items
  <2> DEFINE page == ListPage(fetch.acc.cursor)
             from == IF fetch.acc.pages = 0 THEN Matching ELSE fetch.acc.from
  <2>1. fetch.pc = "sent" /\ fetch' = [fetch EXCEPT !.pc = "answered", !.page = page.items,
                                          !.next = page.next,
                                          !.acc = [fetch.acc EXCEPT !.from = from]]
    BY AnswerRecord
  <2>2. fetch \in FetchRecord /\ fetch.acc \in Pages
    BY DEF ListTypes, FetchRecord
  <2> HIDE DEF page, from
  <2>3. [fetch.acc EXCEPT !.from = from].items = fetch.acc.items
    BY <2>2 DEF Pages
  <2> DEFINE acc == [fetch.acc EXCEPT !.from = from]
  <2> HIDE DEF acc
  <2>4. fetch'.pc = "answered" /\ fetch'.clean = fetch.clean /\ fetch'.fresh = fetch.fresh
        /\ fetch'.acc = acc /\ fetch'.page = page.items
    BY <2>1, <2>2 DEF FetchRecord, acc
  <2>5. QED
    BY <2>1, <2>3, <2>4 DEF acc, page
<1>3. Agree(ListPage(fetch.acc.cursor).items)
  BY PageRows DEF Agree
<1>4. CleanLoad'
  BY <1>1, <1>2, <1>3 DEF CleanLoad, AloneInv, Agree
<1>5. QED
  BY <1>1, <1>4 DEF AloneInv, Fixes, Agree, MarksAgree, Busy

LEMMA AloneReceive ==
    ASSUME ListTypes, AloneInv, ReceiveList
    PROVE  AloneInv'
<1>1. PendingMuts' = PendingMuts /\ UNCHANGED <<mine, mut, mingled>> /\ fetch.pc = "answered"
  BY DEF PendingMuts, ReceiveList
<1>2. ASSUME fetch.clean, fetch.fresh \/ ~raced
      PROVE  Agree(Received.items) /\ PendingMuts = {}
  <2>1. Agree(fetch.acc.items) /\ Agree(fetch.page) /\ PendingMuts = {}
    BY <1>1, <1>2 DEF AloneInv, CleanLoad
  <2>2. fetch.acc.items \in Seq(Item) /\ fetch.page \in Seq(Item)
    BY DEF ListTypes, FetchRecord, Pages
  <2>3. Agree(fetch.acc.items \o fetch.page)
    BY <2>1, <2>2, AgreeConcat
  <2>4. QED
    BY <2>1, <2>3, ReceivedPages
<1>3. CASE /\ fetch' = [fetch EXCEPT !.pc = "sent", !.want = fetch.want - 1, !.acc = Received]
           /\ UNCHANGED <<cache, raced>>
  <2>1. /\ fetch'.pc = "sent" /\ fetch'.clean = fetch.clean /\ fetch'.fresh = fetch.fresh
        /\ fetch'.acc = Received
    BY <1>3 DEF ListTypes, FetchRecord
  <2>2. fetch.clean => PendingMuts = {}
    BY <1>1 DEF AloneInv, CleanLoad
  <2>3. CleanLoad'
    BY <1>1, <1>2, <1>3, <2>1, <2>2 DEF CleanLoad, Agree
  <2>4. QED
    BY <1>1, <1>3, <2>3 DEF AloneInv, Fixes, Agree, MarksAgree, Busy
<1>4. CASE /\ cache' = Received /\ fetch' = NoFetch
           /\ raced' = (~fetch.clean \/ (raced /\ ~fetch.fresh))
  <2>1. CleanLoad'
    BY <1>4, NoFetchType DEF CleanLoad
  <2>2. ~raced' => Agree(cache.items)' /\ PendingMuts' = {}
    BY <1>1, <1>2, <1>4 DEF Agree
  <2>3. QED
    BY <1>1, <2>1, <2>2 DEF AloneInv, MarksAgree, Agree
<1>5. QED
  BY <1>3, <1>4, ReceiveRecord

LEMMA PendingAfter ==
    ASSUME ListTypes, NEW m \in Muts, NEW r, mut' = [mut EXCEPT ![m] = r]
    PROVE  /\ mut'[m] = r /\ \A n \in Muts : n # m => mut'[n] = mut[n]
           /\ r.pc \notin {"new", "done"} => PendingMuts' = PendingMuts \union {m}
           /\ r.pc \in {"new", "done"} => PendingMuts' = PendingMuts \ {m}
BY DEF PendingMuts, ListTypes

LEMMA AloneClick ==
    ASSUME ListTypes, AloneInv, NEW m \in Muts, NEW o \in Opps, NEW kind \in Kinds,
           Click(m, o, kind)
    PROVE  AloneInv'
<1> DEFINE r == [pc |-> "sent", opp |-> o, kind |-> kind, prev |-> cache, result |-> None]
<1>1. /\ fetch' = NoFetch /\ cache' = Patched(cache, o, Goal[kind])
      /\ raced' = (raced \/ Busy(o)) /\ mut' = [mut EXCEPT ![m] = r] /\ mine' = mine
      /\ mut[m].pc = "new"
      /\ mingled' = IF PendingMuts = {} THEN mingled ELSE mingled \union PendingMuts \union {m}
  BY ClickRecord
<1>2. r.pc = "sent" /\ r.opp = o /\ r.prev = cache
  OBVIOUS
<1> HIDE DEF r
<1>3. /\ mut'[m] = r /\ PendingMuts' = PendingMuts \union {m} /\ m \notin PendingMuts
      /\ \A n \in PendingMuts : mut'[n] = mut[n]
  BY <1>1, <1>2, PendingAfter DEF PendingMuts
<1>4. CleanLoad'
  BY <1>1, NoFetchType DEF CleanLoad
<1>0. \A n \in (PendingMuts \ mingled)' : PendingMuts' = {n}
  BY <1>1, <1>3 DEF AloneInv
<1>5. CASE raced'
  BY <1>4, <1>0, <1>5 DEF AloneInv
<1>6. CASE ~raced'
  <2>1. /\ ~raced /\ MarksAgree /\ \A n \in PendingMuts : mut[n].opp # o /\ Fixes(n)
        /\ \A n, q \in PendingMuts : mut[n].opp = mut[q].opp => n = q
    BY <1>1, <1>6 DEF AloneInv, Busy
  <2>2. \A n, q \in PendingMuts' : mut'[n].opp = mut'[q].opp => n = q
    BY <1>2, <1>3, <2>1
  <2>3. DOMAIN cache'.items = DOMAIN cache.items
        /\ \A i \in DOMAIN cache.items :
              /\ cache'.items[i].id = cache.items[i].id
              /\ cache.items[i].id # o => cache'.items[i].state = cache.items[i].state
    BY <1>1, PatchedPages, KindsAreGoals DEF ListTypes
  <2>4. \A p : Busy(p)' <=> Busy(p) \/ p = o
    BY <1>2, <1>3 DEF Busy
  <2>5. MarksAgree'
    BY <1>1, <1>6, <2>1, <2>3, <2>4 DEF MarksAgree
  <2>6. ASSUME PendingMuts = {}
        PROVE  Agree(cache.items)
    BY <2>1, <2>6 DEF MarksAgree, Busy, Agree
  <2>7. ASSUME NEW n \in PendingMuts'
        PROVE  Fixes(n)'
    <3>1. CASE n = m
      <4>1. m \notin mingled' => Agree(cache.items)
        BY <1>1, <2>6
      <4>2. QED
        BY <1>1, <1>2, <1>3, <3>1, <4>1 DEF Fixes, Agree
    <3>2. CASE n # m
      BY <1>1, <1>3, <2>1, <2>7, <3>2 DEF Fixes, Agree
    <3>3. QED
      BY <3>1, <3>2
  <2>8. QED
    BY <1>4, <1>0, <2>2, <2>5, <2>7 DEF AloneInv
<1>7. QED
  BY <1>5, <1>6

\* A pending mutation keeps clean requests away.
LEMMA NoCleanLoad ==
    ASSUME AloneInv, NEW m \in PendingMuts
    PROVE  fetch.pc = "idle" \/ ~fetch.clean
BY DEF AloneInv, CleanLoad

LEMMA AloneWrite ==
    ASSUME ListTypes, AloneInv, NEW m \in Muts, Write(m)
    PROVE  AloneInv'
<1> DEFINE save == mut[m].kind \in {"save", "dismiss"}
           r == [mut[m] EXCEPT !.pc = IF save THEN "answered" ELSE "reading",
                               !.result = Goal[mut[m].kind]]
<1>1. /\ mut[m].pc = "sent" /\ mut[m].opp \in Opps /\ mut' = [mut EXCEPT ![m] = r]
      /\ save => mine' = [mine EXCEPT ![mut[m].opp] = Goal[mut[m].kind]]
      /\ \A o \in Opps : o # mut[m].opp => mine'[o] = mine[o]
      /\ cache' = Kept(cache) /\ fetch' = [fetch EXCEPT !.acc = Kept(fetch.acc)]
      /\ raced' = raced /\ mingled' = mingled
  BY WriteRecord
<1>2. r.pc = (IF save THEN "answered" ELSE "reading") /\ r.opp = mut[m].opp
      /\ r.result = Goal[mut[m].kind]
  BY DEF ListTypes, Mutation
<1> HIDE DEF r
<1>3. /\ mut'[m] = r /\ m \in PendingMuts /\ PendingMuts' = PendingMuts
      /\ \A n \in PendingMuts : mut'[n].opp = mut[n].opp /\ (n # m => mut'[n] = mut[n])
  <2>1. mut'[m] = r /\ (\A n \in Muts : n # m => mut'[n] = mut[n])
        /\ PendingMuts' = PendingMuts \union {m}
    BY <1>1, <1>2, PendingAfter
  <2>2. m \in PendingMuts
    BY <1>1 DEF PendingMuts
  <2>3. QED
    BY <1>2, <2>1, <2>2 DEF PendingMuts
<1>4. CleanLoad'
  <2>1. fetch'.pc = fetch.pc /\ fetch'.clean = fetch.clean
    BY <1>1 DEF ListTypes, FetchRecord
  <2>2. QED
    BY <1>3, <2>1, NoCleanLoad DEF CleanLoad
<1>0. \A n \in (PendingMuts \ mingled)' : PendingMuts' = {n}
  BY <1>1, <1>3 DEF AloneInv
<1>5. CASE raced'
  BY <1>4, <1>0, <1>5 DEF AloneInv
<1>6. CASE ~raced'
  <2>1. /\ ~raced /\ MarksAgree /\ \A n \in PendingMuts : Fixes(n)
        /\ \A n, q \in PendingMuts : mut[n].opp = mut[q].opp => n = q
    BY <1>1, <1>6 DEF AloneInv
  <2>2. cache'.items = cache.items /\ \A i \in DOMAIN cache.items : cache.items[i].id \in Opps
    <3>1. cache.items \in Seq(Item) /\ cache'.items = cache.items
      BY <1>1, KeptPages DEF ListTypes, Pages
    <3>2. \A i \in DOMAIN cache.items : cache.items[i] \in Item
      BY <3>1
    <3>3. QED
      BY <3>1, <3>2 DEF Item
  <2>3. ASSUME save PROVE mine'[mut[m].opp] = Goal[mut[m].kind]
    BY <1>1, <2>3 DEF ListTypes
  <2>4. \A p : Busy(p)' <=> Busy(p)
    BY <1>3 DEF Busy
  <2>5. Busy(mut[m].opp)
    BY <1>3 DEF Busy
  <2>6. MarksAgree'
    BY <1>1, <1>6, <2>1, <2>2, <2>4, <2>5 DEF MarksAgree
  <2>7. ASSUME NEW n \in PendingMuts'
        PROVE  Fixes(n)'
    <3>1. CASE n = m
      BY <1>1, <1>2, <1>3, <2>3, <3>1 DEF Fixes
    <3>2. CASE n # m
      <4>1. mut'[n] = mut[n] /\ n \in PendingMuts /\ mut[n].opp # mut[m].opp /\ Fixes(n)
        BY <1>3, <2>1, <2>7, <3>2
      <4>2. n \in mingled
        BY <1>3, <3>2, <4>1 DEF AloneInv
      <4>3. mut[n].opp \in Opps
        BY <4>1 DEF ListTypes, PendingMuts, Mutation
      <4>4. mine'[mut[n].opp] = mine[mut[n].opp] /\ mingled' = mingled
        BY <1>1, <4>1, <4>3
      <4>5. QED
        BY <4>1, <4>2, <4>4 DEF Fixes
    <3>3. QED
      BY <3>1, <3>2
  <2>8. QED
    BY <1>3, <1>4, <1>0, <2>1, <2>6, <2>7 DEF AloneInv
<1>7. QED
  BY <1>5, <1>6

LEMMA AloneReadBack ==
    ASSUME ListTypes, AloneInv, NEW m \in Muts, ReadBack(m)
    PROVE  AloneInv'
<1> DEFINE r == [mut[m] EXCEPT !.pc = "answered", !.result = mine[mut[m].opp]]
<1>1. /\ mut[m].pc = "reading" /\ mut' = [mut EXCEPT ![m] = r]
      /\ UNCHANGED <<mine, cache, fetch, raced, mingled>>
  BY ReadBackRecord
<1>2. r.pc = "answered" /\ r.opp = mut[m].opp /\ r.result = mine[mut[m].opp]
  BY DEF ListTypes, Mutation
<1> HIDE DEF r
<1>3. /\ mut'[m] = r /\ m \in PendingMuts /\ PendingMuts' = PendingMuts
      /\ \A n \in PendingMuts : mut'[n].opp = mut[n].opp /\ (n # m => mut'[n] = mut[n])
  BY <1>1, <1>2, PendingAfter DEF PendingMuts
<1>4. CleanLoad'
  BY <1>1, <1>3, NoCleanLoad DEF CleanLoad
<1>0. \A n \in (PendingMuts \ mingled)' : PendingMuts' = {n}
  BY <1>1, <1>3 DEF AloneInv
<1>5. CASE raced'
  BY <1>4, <1>0, <1>5 DEF AloneInv
<1>6. CASE ~raced'
  <2>1. /\ ~raced /\ MarksAgree /\ \A n \in PendingMuts : Fixes(n)
        /\ \A n, q \in PendingMuts : mut[n].opp = mut[q].opp => n = q
    BY <1>1, <1>6 DEF AloneInv
  <2>2. MarksAgree'
    BY <1>1, <1>3, <2>1 DEF MarksAgree, Busy
  <2>3. ASSUME NEW n \in PendingMuts'
        PROVE  Fixes(n)'
    BY <1>1, <1>2, <1>3, <2>1, <2>3 DEF Fixes, Agree
  <2>4. QED
    BY <1>3, <1>4, <1>0, <2>1, <2>2, <2>3 DEF AloneInv
<1>7. QED
  BY <1>5, <1>6

LEMMA AloneSucceed ==
    ASSUME ListTypes, AloneInv, NEW m \in Muts, Succeed(m)
    PROVE  AloneInv'
<1> DEFINE r == [mut[m] EXCEPT !.pc = "done", !.prev = NoPages]
<1>1. /\ mut[m].pc = "answered" /\ mut[m].result \in UserStates
      /\ cache' = Patched(cache, mut[m].opp, mut[m].result)
      /\ mut' = [mut EXCEPT ![m] = r] /\ UNCHANGED <<mine, fetch, raced, mingled>>
  BY SucceedRecord
<1>2. r.pc = "done"
  BY DEF ListTypes, Mutation
<1> HIDE DEF r
<1>3. /\ m \in PendingMuts /\ PendingMuts' = PendingMuts \ {m}
      /\ \A n \in PendingMuts : n # m => mut'[n] = mut[n]
  BY <1>1, <1>2, PendingAfter DEF PendingMuts
<1>4. CleanLoad'
  BY <1>1, <1>3, NoCleanLoad DEF CleanLoad
<1>0. \A n \in (PendingMuts \ mingled)' : PendingMuts' = {n}
  BY <1>1, <1>3 DEF AloneInv
<1>5. CASE raced'
  BY <1>4, <1>0, <1>5 DEF AloneInv
<1>6. CASE ~raced'
  <2>1. /\ ~raced /\ MarksAgree /\ \A n \in PendingMuts : Fixes(n)
        /\ \A n, q \in PendingMuts : mut[n].opp = mut[q].opp => n = q
    BY <1>1, <1>6 DEF AloneInv
  <2>2. DOMAIN cache'.items = DOMAIN cache.items
        /\ \A i \in DOMAIN cache.items :
              /\ cache'.items[i].id = cache.items[i].id
              /\ cache'.items[i].state = IF cache.items[i].id = mut[m].opp
                                         THEN mut[m].result ELSE cache.items[i].state
    BY <1>1, PatchedPages DEF ListTypes
  <2>3. mut[m].result = mine[mut[m].opp]
    BY <1>1, <1>3, <2>1 DEF Fixes
  <2>4. \A p : Busy(p) => Busy(p)' \/ p = mut[m].opp
    BY <1>3 DEF Busy
  <2>5. MarksAgree'
    BY <1>1, <1>6, <2>1, <2>2, <2>3, <2>4 DEF MarksAgree
  <2>6. \A n \in PendingMuts' : Fixes(n)'
    BY <1>1, <1>3, <2>1 DEF Fixes, Agree
  <2>7. QED
    BY <1>3, <1>4, <1>0, <2>1, <2>5, <2>6 DEF AloneInv
<1>7. QED
  BY <1>5, <1>6

LEMMA AloneFail ==
    ASSUME ListTypes, AloneInv, NEW m \in Muts, Fail(m)
    PROVE  AloneInv'
<1> DEFINE r == [mut[m] EXCEPT !.pc = "done", !.result = None, !.prev = NoPages]
<1>1. /\ m \in PendingMuts /\ raced' = (raced \/ mut[m].pc # "sent" \/ m \in mingled)
      /\ cache' = [mut[m].prev EXCEPT !.from = mut[m].prev.from \cap cache.from]
      /\ mut' = [mut EXCEPT ![m] = r] /\ UNCHANGED <<mine, fetch, mingled>>
  BY FailRecord
<1>2. r.pc = "done"
  BY DEF ListTypes, Mutation
<1> HIDE DEF r
<1>3. /\ PendingMuts' = PendingMuts \ {m}
      /\ \A n \in PendingMuts : n # m => mut'[n] = mut[n]
  BY <1>1, <1>2, PendingAfter DEF PendingMuts
<1>4. CleanLoad'
  BY <1>1, NoCleanLoad DEF CleanLoad
<1>0. \A n \in (PendingMuts \ mingled)' : PendingMuts' = {n}
  BY <1>1, <1>3 DEF AloneInv
<1>5. CASE raced'
  BY <1>4, <1>0, <1>5 DEF AloneInv
<1>6. CASE ~raced'
  <2>1. PendingMuts' = {} /\ Agree(mut[m].prev.items)
    BY <1>1, <1>3, <1>6 DEF AloneInv, Fixes
  <2>2. cache'.items = mut[m].prev.items
    BY <1>1 DEF ListTypes, Mutation, Pages
  <2>3. QED
    BY <1>1, <1>4, <2>1, <2>2 DEF AloneInv, MarksAgree, Agree
<1>7. QED
  BY <1>5, <1>6

LEMMA AloneElsewhere ==
    ASSUME ListTypes, AloneInv, NEW o \in Opps,
           \/ \E state \in UserStates : OtherDevice(o, state)
           \/ \E review \in BOOLEAN : Touch(o, review)
           \/ Insert(o)
    PROVE  AloneInv'
<1>1. ASSUME NEW state \in UserStates, OtherDevice(o, state)
      PROVE  AloneInv'
  <2>1. raced' /\ fetch'.clean = FALSE /\ UNCHANGED <<mut, mingled>>
    BY <1>1, OtherDeviceRecord DEF ListTypes, FetchRecord
  <2>2. PendingMuts' = PendingMuts
    BY <2>1 DEF PendingMuts
  <2>3. QED
    BY <2>1, <2>2 DEF AloneInv, CleanLoad
<1>2. ASSUME NEW review \in BOOLEAN, Touch(o, review) \/ Insert(o)
      PROVE  AloneInv'
  <2>1. /\ UNCHANGED <<mine, mut, raced, mingled>> /\ cache' = Kept(cache)
        /\ fetch' = [fetch EXCEPT !.acc = Kept(fetch.acc)]
    BY <1>2, PipelineRecord
  <2>2. cache'.items = cache.items /\ Kept(fetch.acc).items = fetch.acc.items
    BY <2>1, KeptPages DEF ListTypes, FetchRecord
  <2>3. /\ fetch'.pc = fetch.pc /\ fetch'.clean = fetch.clean /\ fetch'.fresh = fetch.fresh
        /\ fetch'.page = fetch.page /\ fetch'.acc.items = fetch.acc.items
    BY <2>1, <2>2 DEF ListTypes, FetchRecord
  <2>4. PendingMuts' = PendingMuts
    BY <2>1 DEF PendingMuts
  <2>5. QED
    BY <2>1, <2>2, <2>3, <2>4 DEF AloneInv, CleanLoad, Fixes, Agree, MarksAgree, Busy
<1>3. QED
  BY <1>1, <1>2

LEMMA AloneStep == ListTypes /\ AloneInv /\ [Next]_vars => AloneInv'
<1> SUFFICES ASSUME ListTypes, AloneInv, [Next]_vars PROVE AloneInv'
  OBVIOUS
<1>1. CASE Refetch
  <2>1. (IF cache.loaded THEN cache.pages ELSE 1) \in Nat
    BY DEF ListTypes, Pages
  <2>2. QED
    BY <1>1, <2>1, AloneSends, NoPagesType DEF Refetch
<1>2. CASE FetchNextPage
  BY <1>2, AloneSends DEF FetchNextPage, ListTypes
<1>3. ASSUME NEW m \in Muts,
             \/ \E o \in Opps, kind \in DOMAIN Goal : Click(m, o, kind)
             \/ Write(m) \/ ReadBack(m) \/ Succeed(m) \/ Fail(m)
      PROVE  AloneInv'
  BY <1>3, KindsAreGoals, AloneClick, AloneWrite, AloneReadBack, AloneSucceed, AloneFail
<1>4. CASE UNCHANGED vars
  BY <1>4 DEF AloneInv, CleanLoad, Fixes, Agree, MarksAgree, Busy, PendingMuts, vars
<1>5. QED
  BY <1>1, <1>2, <1>3, <1>4, AloneAnswer, AloneReceive, AloneElsewhere DEF Next

\* However saves and dismissals of any rows overlap, and whatever pages and reloads they
\* cancel, the rows nothing is under way on show the user's own marks (opportunities.ts
\* onMutate, onError, onSuccess).
THEOREM MarksAgreeAlways == Spec => []MarksAgree
<1>1. AloneInv => MarksAgree
  BY DEF AloneInv, MarksAgree
<1>2. QED
  BY ListTypesInit, ListTypesStep, AloneInit, AloneStep, <1>1, PTL DEF Spec

-----------------------------------------------------------------------------
(***************************************************************************)
(* What the pages list when they are sorted by the date of discovery.      *)
(***************************************************************************)

Newest == view.sort \in {"newest", "newlyDiscovered"}

\* When each row was first seen; nothing changes it.
Seen == [o \in Opps |-> row[o].seen]

\* The keyset condition in these dates s.
Past(s, o, c) == s[o] < c.v \/ (s[o] = c.v /\ o < c.id)

Once(items) == \A i, j \in DOMAIN items : items[i].id = items[j].id => i = j

\* The pages list what matched all along up to their cursor, and nothing twice.
Whole(s, P) ==
    /\ Once(P.items)
    /\ P.cursor # None => /\ P.cursor.v \in Nat
                          /\ \A i \in DOMAIN P.items : ~Past(s, P.items[i].id, P.cursor)
    /\ P.loaded => /\ P.pages > 0
                   /\ \A o \in P.from :
                        (P.cursor # None /\ Past(s, o, P.cursor)) \/ Listed(P.items, o)
    /\ ~P.loaded => P.items = <<>> /\ P.cursor = None

\* The answered page of a request goes on where its pages end.
Continues(s, acc, page, next) ==
    /\ Once(page)
    /\ acc.cursor # None => \A i \in DOMAIN page : Past(s, page[i].id, acc.cursor)
    /\ next # None => next.v \in Nat /\ \A i \in DOMAIN page : ~Past(s, page[i].id, next)
    /\ acc.cursor # None /\ next # None =>
          \A o \in Opps : Past(s, o, next) => Past(s, o, acc.cursor)
    /\ \A o \in acc.from : (acc.cursor # None => Past(s, o, acc.cursor)) =>
          (next # None /\ Past(s, o, next)) \/ Listed(page, o)

CompleteInv ==
    Newest =>
        /\ Whole(Seen, cache) /\ Whole(Seen, fetch.acc)
        /\ \A m \in Muts : Whole(Seen, mut[m].prev)
        /\ cache.from \subseteq Matching /\ fetch.acc.from \subseteq Matching
        /\ fetch.acc.loaded => fetch.acc.cursor # None
        /\ fetch.pc = "answered" => Continues(Seen, fetch.acc, fetch.page, fetch.next)

LEMMA SeenOrder ==
    ASSUME Newest, row \in [Opps -> Columns]
    PROVE  /\ \A o \in Opps : Seen[o] \in Nat /\ SortValue(o) = Seen[o]
           /\ \A o \in Opps : \A c : AfterCursor(o, c) <=> Past(Seen, o, c)
           /\ \A o, p \in Opps : Precedes(o, p) <=>
                Seen[o] > Seen[p] \/ (Seen[o] = Seen[p] /\ o > p)
BY DEF Newest, Seen, SortValue, AfterCursor, Past, Precedes, Columns

LEMMA WholeEmpty ==
    ASSUME NEW s
    PROVE  Whole(s, NoPages)
BY DEF Whole, NoPages, Once

\* Pages of the same rows, for which fewer have matched all along.
LEMMA WholeKept ==
    ASSUME NEW s, NEW P \in Pages, NEW Q \in Pages, Whole(s, P),
           DOMAIN Q.items = DOMAIN P.items,
           \A i \in DOMAIN P.items : Q.items[i].id = P.items[i].id,
           Q.cursor = P.cursor, Q.loaded = P.loaded, Q.pages = P.pages, Q.from \subseteq P.from
    PROVE  Whole(s, Q)
<1>1. Once(Q.items)
  BY DEF Whole, Once
<1>2. \A o : Listed(P.items, o) => Listed(Q.items, o)
  BY DEF Listed
<1>3. ~P.loaded => Q.items = <<>>
  <2>1. SUFFICES ASSUME ~P.loaded PROVE Q.items = <<>>
    OBVIOUS
  <2>2. P.items = <<>>
    BY <2>1 DEF Whole
  <2>3. DOMAIN Q.items = {} /\ Q.items \in Seq(Item)
    BY <2>2 DEF Pages
  <2>4. Len(Q.items) = 0
    BY <2>3
  <2>5. QED
    BY <2>3, <2>4
<1>4. QED
  BY <1>1, <1>2, <1>3 DEF Whole

LEMMA ContinuesKept ==
    ASSUME NEW s, NEW P, NEW Q, NEW page, NEW next, Continues(s, P, page, next),
           Q.cursor = P.cursor, Q.from \subseteq P.from
    PROVE  Continues(s, Q, page, next)
BY DEF Continues

\* The page the API answers with goes on where the request's pages end.
LEMMA AnswerContinues ==
    ASSUME ListTypes, Newest, Whole(Seen, fetch.acc), NEW from \in SUBSET Matching,
           NEW acc, acc.cursor = fetch.acc.cursor, acc.from = from
    PROVE  Continues(Seen, acc, ListPage(fetch.acc.cursor).items, ListPage(fetch.acc.cursor).next)
<1> DEFINE c == fetch.acc.cursor
           page == ListPage(c).items
           next == ListPage(c).next
           last == next.id
<1>1. row \in [Opps -> Columns] /\ (c # None => c \in Cursors /\ c.v \in Nat)
  BY DEF ListTypes, FetchRecord, Pages, Whole
<1>2. /\ \A i \in DOMAIN page : page[i].id \in Found(c)
      /\ \A i, j \in DOMAIN page : page[i].id = page[j].id => i = j
  BY PageRows
<1>3. next = None => \A o \in Found(c) : Listed(page, o)
  BY PageIsWhole
<1>4. ASSUME next # None
      PROVE  /\ last \in Found(c) /\ next = [v |-> SortValue(last), id |-> last]
             /\ \A o \in Found(c) : Precedes(last, o) \/ Listed(page, o)
             /\ \A i \in DOMAIN page : ~Precedes(last, page[i].id)
  BY <1>4, PageIsWhole
<1> HIDE DEF page, next, c
<1>5. \A o \in Found(c) : o \in Opps /\ o \in Matching /\ (c # None => Past(Seen, o, c))
  BY <1>1, SeenOrder DEF Found, Matching
<1>6. \A o \in Matching : (c # None => Past(Seen, o, c)) => o \in Found(c)
  BY <1>1, SeenOrder DEF Found, Matching
<1>7. ASSUME next # None
      PROVE  /\ last \in Opps /\ next.v = Seen[last] /\ next.v \in Nat
             /\ \A o \in Opps : Past(Seen, o, next) <=> Precedes(last, o)
  <2>1. last \in Opps /\ next.v = SortValue(last)
    BY <1>4, <1>5, <1>7
  <2>2. next.v = Seen[last] /\ next.v \in Nat
    BY <1>1, <2>1, SeenOrder
  <2>3. \A o \in Opps : o \in Nat /\ Seen[o] \in Nat
    BY <1>1, SeenOrder, ExplorerAssumption
  <2>4. \A o \in Opps : Past(Seen, o, next) <=> Precedes(last, o)
    BY <1>1, <2>1, <2>2, <2>3, SeenOrder DEF Past
  <2>5. QED
    BY <2>1, <2>2, <2>4
<1>8. c # None => \A i \in DOMAIN page : Past(Seen, page[i].id, c)
  BY <1>2, <1>5
<1>9. next # None => \A i \in DOMAIN page : ~Past(Seen, page[i].id, next)
  BY <1>2, <1>4, <1>5, <1>7
<1>10. ASSUME c # None, next # None, NEW o \in Opps, Past(Seen, o, next)
       PROVE  Past(Seen, o, c)
  <2>1. o \in Nat /\ last \in Nat /\ Seen[o] \in Nat /\ Seen[last] \in Nat /\ c.v \in Nat
        /\ c.id \in Nat
    BY <1>1, <1>7, <1>10, SeenOrder, ExplorerAssumption DEF Cursors
  <2>2. Past(Seen, last, c)
    BY <1>4, <1>5, <1>10
  <2>3. Seen[o] < Seen[last] \/ (Seen[o] = Seen[last] /\ o < last)
    BY <1>7, <1>10 DEF Past
  <2>4. QED
    BY <2>1, <2>2, <2>3 DEF Past
<1>11. ASSUME NEW o \in from, c # None => Past(Seen, o, c)
       PROVE  (next # None /\ Past(Seen, o, next)) \/ Listed(page, o)
  <2>1. o \in Found(c) /\ o \in Opps
    BY <1>5, <1>6, <1>11
  <2>2. QED
    BY <1>3, <1>4, <1>7, <2>1
<1> HIDE DEF last
<1>12. acc.cursor = c
  BY DEF c
<1>13. Continues(Seen, acc, page, next)
  BY <1>2, <1>7, <1>8, <1>9, <1>10, <1>11, <1>12 DEF Continues, Once
<1>14. QED
  BY <1>13 DEF page, next, c

LEMMA ConcatIndex ==
    ASSUME NEW s \in Seq(Item), NEW t \in Seq(Item)
    PROVE  /\ DOMAIN (s \o t) = 1..(Len(s) + Len(t)) /\ Len(s) \in Nat /\ Len(t) \in Nat
           /\ \A i \in DOMAIN s : i \in DOMAIN (s \o t) /\ (s \o t)[i] = s[i]
           /\ \A i \in DOMAIN t : i + Len(s) \in DOMAIN (s \o t) /\ (s \o t)[i + Len(s)] = t[i]
           /\ \A i \in DOMAIN (s \o t) :
                \/ i \in DOMAIN s
                \/ i - Len(s) \in DOMAIN t /\ i = (i - Len(s)) + Len(s)
<1>1. /\ DOMAIN s = 1..Len(s) /\ DOMAIN t = 1..Len(t) /\ Len(s) \in Nat /\ Len(t) \in Nat
      /\ DOMAIN (s \o t) = 1..(Len(s) + Len(t))
      /\ \A i \in 1..(Len(s) + Len(t)) :
            (s \o t)[i] = IF i <= Len(s) THEN s[i] ELSE t[i - Len(s)]
  BY ConcatProperties, LenProperties
<1>2. \A i \in 1..Len(t) : (i + Len(s)) - Len(s) = i /\ ~(i + Len(s) <= Len(s))
                           /\ i + Len(s) \in 1..(Len(s) + Len(t))
  BY <1>1
<1>3. \A i \in DOMAIN (s \o t) : i \in DOMAIN s \/ (i - Len(s) \in DOMAIN t
                                                    /\ i = (i - Len(s)) + Len(s))
  BY <1>1
<1>4. QED
  BY <1>1, <1>2, <1>3

LEMMA ReceivedIsWhole ==
    ASSUME ListTypes, NEW s, Whole(s, fetch.acc),
           Continues(s, fetch.acc, fetch.page, fetch.next),
           fetch.acc.loaded => fetch.acc.cursor # None
    PROVE  Whole(s, Received)
<1> DEFINE acc == fetch.acc
           page == fetch.page
           next == fetch.next
           items == acc.items \o page
<1>1. acc \in Pages /\ acc.items \in Seq(Item) /\ page \in Seq(Item) /\ acc.pages \in Nat
  BY DEF ListTypes, FetchRecord, Pages
<1>2. /\ \A i \in DOMAIN acc.items : i \in DOMAIN items /\ items[i] = acc.items[i]
      /\ \A i \in DOMAIN page :
            i + Len(acc.items) \in DOMAIN items /\ items[i + Len(acc.items)] = page[i]
      /\ \A i \in DOMAIN items :
            \/ i \in DOMAIN acc.items
            \/ i - Len(acc.items) \in DOMAIN page
               /\ i = (i - Len(acc.items)) + Len(acc.items)
  BY <1>1, ConcatIndex
<1> HIDE DEF items
<1>3. \A i \in DOMAIN items :
         \/ i \in DOMAIN acc.items /\ items[i] = acc.items[i]
         \/ \E j \in DOMAIN page : i = j + Len(acc.items) /\ items[i] = page[j]
  BY <1>2
<1>4. \A i \in DOMAIN acc.items : acc.cursor # None /\ ~Past(s, acc.items[i].id, acc.cursor)
  BY <1>1 DEF Whole
<1>5. \A i \in DOMAIN acc.items, j \in DOMAIN page : acc.items[i].id # page[j].id
  BY <1>4 DEF Continues
<1>6. Once(items)
  BY <1>3, <1>5 DEF Once, Whole, Continues
<1>7. \A i \in DOMAIN acc.items : acc.items[i].id \in Opps
  <2>1. \A i \in DOMAIN acc.items : acc.items[i] \in Item
    BY <1>1
  <2>2. QED
    BY <2>1 DEF Item
<1>8. ASSUME next # None, NEW i \in DOMAIN items
      PROVE  ~Past(s, items[i].id, next)
  <2>1. CASE i \in DOMAIN acc.items /\ items[i] = acc.items[i]
    BY <1>4, <1>7, <1>8, <2>1 DEF Continues
  <2>2. CASE \E j \in DOMAIN page : i = j + Len(acc.items) /\ items[i] = page[j]
    BY <1>8, <2>2 DEF Continues
  <2>3. QED
    BY <1>3, <1>8, <2>1, <2>2
<1>9. \A o : Listed(acc.items, o) \/ Listed(page, o) => Listed(items, o)
  BY <1>2 DEF Listed
<1>10. ASSUME NEW o \in acc.from
       PROVE  (next # None /\ Past(s, o, next)) \/ Listed(items, o)
  <2>1. CASE acc.cursor # None => Past(s, o, acc.cursor)
    BY <1>9, <1>10, <2>1 DEF Continues
  <2>2. CASE acc.cursor # None /\ ~Past(s, o, acc.cursor)
    BY <1>9, <1>10, <2>2 DEF Whole
  <2>3. QED
    BY <2>1, <2>2
<1>11. /\ Received.loaded = TRUE /\ Received.cursor = next /\ Received.pages = acc.pages + 1
       /\ Received.from = acc.from /\ Received.items = items
  BY ReceivedPages DEF items
<1>12. next # None => next.v \in Nat
  BY DEF Continues
<1> HIDE DEF acc, page, next
<1>13. QED
  BY <1>1, <1>6, <1>8, <1>10, <1>11, <1>12 DEF Whole

LEMMA CompleteInit == Init => CompleteInv
<1> SUFFICES ASSUME Init PROVE CompleteInv
  OBVIOUS
<1>1. cache = NoPages /\ fetch.acc = NoPages /\ fetch.pc = "idle"
  BY NoFetchType DEF Init
<1>2. \A m \in Muts : mut[m].prev = NoPages
  BY DEF Init, NewMut
<1>3. NoPages.from = {} /\ NoPages.loaded = FALSE
  BY DEF NoPages
<1>4. QED
  BY <1>1, <1>2, <1>3, WholeEmpty DEF CompleteInv

\* A step that changes neither the database nor the view.
LEMMA SameRows ==
    ASSUME UNCHANGED <<row, view>>
    PROVE  Seen' = Seen /\ (Newest' <=> Newest) /\ (UNCHANGED mine => Matching' = Matching)
BY DEF Seen, Newest, Matching, Matches

LEMMA CompleteSends ==
    ASSUME ListTypes, CompleteInv, NEW acc \in Pages, NEW want \in Nat, Sends(acc, want),
           acc = NoPages \/ (acc = cache /\ cache.cursor # None),
           UNCHANGED <<row, mine, view, cache, mut>>
    PROVE  CompleteInv'
<1>1. Seen' = Seen /\ (Newest' <=> Newest) /\ Matching' = Matching
  BY SameRows
<1>2. fetch'.acc = acc /\ fetch'.pc = "sent"
  BY SendsRecord
<1>3. NoPages.from = {} /\ NoPages.loaded = FALSE
  BY DEF NoPages
<1>4. Newest => /\ Whole(Seen, acc) /\ acc.from \subseteq Matching
                /\ acc.loaded => acc.cursor # None
  BY <1>3, WholeEmpty DEF CompleteInv
<1>5. QED
  BY <1>1, <1>2, <1>4 DEF CompleteInv

LEMMA CompleteAnswer ==
    ASSUME ListTypes, CompleteInv, AnswerList
    PROVE  CompleteInv'
<1> SUFFICES ASSUME Newest PROVE CompleteInv'
  BY SameRows DEF CompleteInv, AnswerList
<1> DEFINE page == ListPage(fetch.acc.cursor)
           from == IF fetch.acc.pages = 0 THEN Matching ELSE fetch.acc.from
           acc == [fetch.acc EXCEPT !.from = from]
<1>1. UNCHANGED <<row, mine, view, cache, mut>>
  BY DEF AnswerList
<1>2. Seen' = Seen /\ (Newest' <=> Newest) /\ Matching' = Matching
  BY <1>1, SameRows
<1>3. /\ Whole(Seen, fetch.acc) /\ fetch.acc.from \subseteq Matching
      /\ fetch.acc.loaded => fetch.acc.cursor # None
  BY DEF CompleteInv
<1>4. fetch \in FetchRecord /\ fetch.acc \in Pages
  BY DEF ListTypes, FetchRecord
<1>5. from \subseteq Matching
  BY <1>3
<1>6. fetch' = [fetch EXCEPT !.pc = "answered", !.page = page.items, !.next = page.next,
                             !.acc = acc]
  BY AnswerRecord
<1> HIDE DEF page, from
<1>7. acc.loaded = fetch.acc.loaded /\ acc.items = fetch.acc.items /\ acc.from = from
      /\ acc.cursor = fetch.acc.cursor /\ acc.pages = fetch.acc.pages
  BY <1>4 DEF Pages
<1> HIDE DEF acc
<1>8. Whole(Seen, acc)
  <2>1. CASE fetch.acc.pages = 0
    <3>1. ~acc.loaded
      BY <1>3, <1>4, <1>7, <2>1 DEF Whole, Pages
    <3>2. QED
      BY <1>3, <1>7, <3>1 DEF Whole
  <2>2. CASE fetch.acc.pages # 0
    <3>1. acc.from = fetch.acc.from
      BY <1>7, <2>2 DEF from
    <3>2. QED
      BY <1>3, <1>7, <3>1 DEF Whole
  <2>3. QED
    BY <2>1, <2>2
<1>9. Continues(Seen, acc, page.items, page.next)
  BY <1>3, <1>5, <1>7, AnswerContinues DEF page
<1>10. fetch'.acc = acc /\ fetch'.page = page.items /\ fetch'.next = page.next
  BY <1>4, <1>6 DEF FetchRecord
<1>11. QED
  BY <1>1, <1>2, <1>3, <1>5, <1>7, <1>8, <1>9, <1>10 DEF CompleteInv

LEMMA CompleteReceive ==
    ASSUME ListTypes, CompleteInv, ReceiveList
    PROVE  CompleteInv'
<1>1. UNCHANGED <<row, mine, view, mut>> /\ fetch.pc = "answered"
  BY DEF ReceiveList
<1>2. Seen' = Seen /\ (Newest' <=> Newest) /\ Matching' = Matching
  BY <1>1, SameRows
<1>3. Newest => Whole(Seen, Received) /\ Received.from \subseteq Matching
  BY <1>1, ReceivedIsWhole, ReceivedPages DEF CompleteInv
<1>4. CASE /\ fetch' = [fetch EXCEPT !.pc = "sent", !.want = fetch.want - 1, !.acc = Received]
           /\ fetch.next # None /\ UNCHANGED cache
  <2>1. fetch'.pc = "sent" /\ fetch'.acc = Received
    BY <1>4 DEF ListTypes, FetchRecord
  <2>2. Received.cursor # None
    BY <1>4, ReceivedPages
  <2>3. QED
    BY <1>1, <1>2, <1>3, <1>4, <2>1, <2>2 DEF CompleteInv
<1>5. CASE cache' = Received /\ fetch' = NoFetch
  <2>1. fetch'.pc = "idle" /\ fetch'.acc = NoPages /\ NoPages.from = {} /\ NoPages.loaded = FALSE
    BY <1>5, NoFetchType DEF NoPages
  <2>2. QED
    BY <1>1, <1>2, <1>3, <1>5, <2>1, WholeEmpty DEF CompleteInv
<1>6. QED
  BY <1>4, <1>5, ReceiveRecord

\* A write to the database: what no longer matches is no longer followed.
LEMMA CompleteKept ==
    ASSUME ListTypes, CompleteInv, row' \in [Opps -> Columns], UNCHANGED view,
           \A p \in Opps : row'[p].seen = row[p].seen,
           cache' = Kept(cache), fetch'.acc = Kept(fetch.acc), fetch'.pc = fetch.pc,
           fetch'.page = fetch.page, fetch'.next = fetch.next,
           \A m \in Muts : mut'[m].prev = mut[m].prev
    PROVE  CompleteInv'
<1>1. Seen' = Seen /\ (Newest' <=> Newest)
  BY DEF Seen, Newest
<1>2. cache \in Pages /\ fetch.acc \in Pages
  BY DEF ListTypes, FetchRecord
<1>3. /\ cache'.loaded = cache.loaded /\ cache'.items = cache.items
      /\ cache'.cursor = cache.cursor /\ cache'.pages = cache.pages
      /\ cache'.from = Still(cache.from) /\ cache'.from \subseteq cache.from /\ cache' \in Pages
  BY <1>2, KeptPages
<1>4. /\ fetch'.acc.loaded = fetch.acc.loaded /\ fetch'.acc.items = fetch.acc.items
      /\ fetch'.acc.cursor = fetch.acc.cursor /\ fetch'.acc.pages = fetch.acc.pages
      /\ fetch'.acc.from = Still(fetch.acc.from) /\ fetch'.acc.from \subseteq fetch.acc.from
      /\ fetch'.acc \in Pages
  BY <1>2, KeptPages
<1>5. cache.from \subseteq Opps /\ fetch.acc.from \subseteq Opps
  BY <1>2 DEF Pages
<1>6. cache'.from \subseteq Matching' /\ fetch'.acc.from \subseteq Matching'
  BY <1>3, <1>4, <1>5 DEF Still, Matching, Matches
<1>7. ASSUME Newest PROVE Whole(Seen, cache') /\ Whole(Seen, fetch'.acc)
  BY <1>2, <1>3, <1>4, <1>7, WholeKept DEF CompleteInv
<1>8. ASSUME Newest, fetch.pc = "answered"
      PROVE  Continues(Seen, fetch'.acc, fetch.page, fetch.next)
  BY <1>4, <1>8, ContinuesKept DEF CompleteInv
<1>9. QED
  BY <1>1, <1>4, <1>6, <1>7, <1>8 DEF CompleteInv

LEMMA CompleteClick ==
    ASSUME ListTypes, CompleteInv, NEW m \in Muts, NEW o \in Opps, NEW kind \in Kinds,
           Click(m, o, kind)
    PROVE  CompleteInv'
<1> DEFINE r == [pc |-> "sent", opp |-> o, kind |-> kind, prev |-> cache, result |-> None]
<1>1. /\ fetch' = NoFetch /\ cache' = Patched(cache, o, Goal[kind])
      /\ mut' = [mut EXCEPT ![m] = r] /\ UNCHANGED <<row, mine, view>>
  BY ClickRecord
<1>2. r.prev = cache /\ r.pc = "sent"
  OBVIOUS
<1> HIDE DEF r
<1>3. \A n \in Muts : mut'[n].prev = cache \/ mut'[n].prev = mut[n].prev
  BY <1>1, <1>2, PendingAfter
<1>4. Seen' = Seen /\ (Newest' <=> Newest) /\ Matching' = Matching
  BY <1>1, SameRows
<1>5. fetch'.acc = NoPages /\ fetch'.pc = "idle" /\ NoPages.from = {} /\ NoPages.loaded = FALSE
  BY <1>1, NoFetchType DEF NoPages
<1> DEFINE Q == Patched(cache, o, Goal[kind])
<1>6. cache \in Pages /\ Q \in Pages /\ Q.from = cache.from
      /\ Q.cursor = cache.cursor /\ Q.loaded = cache.loaded /\ Q.pages = cache.pages
      /\ DOMAIN Q.items = DOMAIN cache.items
      /\ \A i \in DOMAIN cache.items : Q.items[i].id = cache.items[i].id
  BY PatchedPages, KindsAreGoals DEF ListTypes
<1> HIDE DEF Q
<1>7. Newest => Whole(Seen, Q)
  BY <1>6, WholeKept DEF CompleteInv
<1>8. cache' = Q
  BY <1>1 DEF Q
<1>9. QED
  BY <1>3, <1>4, <1>5, <1>6, <1>7, <1>8, WholeEmpty DEF CompleteInv

LEMMA CompleteSucceed ==
    ASSUME ListTypes, CompleteInv, NEW m \in Muts, Succeed(m)
    PROVE  CompleteInv'
<1> DEFINE r == [mut[m] EXCEPT !.pc = "done", !.prev = NoPages]
           Q == Patched(cache, mut[m].opp, mut[m].result)
<1>1. /\ cache' = Q /\ mut[m].result \in UserStates
      /\ mut' = [mut EXCEPT ![m] = r] /\ UNCHANGED <<row, mine, view, fetch>>
  BY SucceedRecord
<1>2. r.prev = NoPages
  BY DEF ListTypes, Mutation
<1>3. cache \in Pages /\ Q \in Pages /\ Q.from = cache.from
      /\ Q.cursor = cache.cursor /\ Q.loaded = cache.loaded /\ Q.pages = cache.pages
      /\ DOMAIN Q.items = DOMAIN cache.items
      /\ \A i \in DOMAIN cache.items : Q.items[i].id = cache.items[i].id
  BY <1>1, PatchedPages DEF ListTypes
<1> HIDE DEF r, Q
<1>4. \A n \in Muts : mut'[n].prev = NoPages \/ mut'[n].prev = mut[n].prev
  BY <1>1, <1>2 DEF ListTypes
<1>5. Seen' = Seen /\ (Newest' <=> Newest) /\ Matching' = Matching
  BY <1>1, SameRows
<1>6. Newest => Whole(Seen, Q)
  BY <1>3, WholeKept DEF CompleteInv
<1>7. QED
  BY <1>1, <1>3, <1>4, <1>5, <1>6, WholeEmpty DEF CompleteInv

LEMMA CompleteFail ==
    ASSUME ListTypes, CompleteInv, NEW m \in Muts, Fail(m)
    PROVE  CompleteInv'
<1> DEFINE r == [mut[m] EXCEPT !.pc = "done", !.result = None, !.prev = NoPages]
           P == mut[m].prev
           Q == [P EXCEPT !.from = P.from \cap cache.from]
<1>1. cache' = Q /\ mut' = [mut EXCEPT ![m] = r] /\ UNCHANGED <<row, mine, view, fetch>>
  BY FailRecord
<1>2. r.prev = NoPages
  BY DEF ListTypes, Mutation
<1>3. P \in Pages
  BY DEF ListTypes, Mutation
<1> HIDE DEF r, P
<1>4. Q \in Pages /\ Q.from \subseteq P.from /\ Q.from \subseteq cache.from
      /\ Q.cursor = P.cursor /\ Q.loaded = P.loaded /\ Q.pages = P.pages /\ Q.items = P.items
  BY <1>3 DEF Pages
<1> HIDE DEF Q
<1>5. \A n \in Muts : mut'[n].prev = NoPages \/ mut'[n].prev = mut[n].prev
  BY <1>1, <1>2 DEF ListTypes
<1>6. Seen' = Seen /\ (Newest' <=> Newest) /\ Matching' = Matching
  BY <1>1, SameRows
<1>7. Newest => Whole(Seen, P)
  BY DEF CompleteInv, P
<1>8. Newest => Whole(Seen, Q)
  BY <1>3, <1>4, <1>7, WholeKept
<1>9. QED
  BY <1>1, <1>4, <1>5, <1>6, <1>8, WholeEmpty DEF CompleteInv

LEMMA CompleteWrite ==
    ASSUME ListTypes, CompleteInv, NEW m \in Muts, Write(m)
    PROVE  CompleteInv'
<1> DEFINE r == [mut[m] EXCEPT !.pc = IF mut[m].kind \in {"save", "dismiss"}
                                      THEN "answered" ELSE "reading",
                               !.result = Goal[mut[m].kind]]
<1>1. /\ cache' = Kept(cache) /\ fetch' = [fetch EXCEPT !.acc = Kept(fetch.acc)]
      /\ mut' = [mut EXCEPT ![m] = r] /\ UNCHANGED <<row, view>>
  BY WriteRecord
<1>2. r.prev = mut[m].prev
  BY DEF ListTypes, Mutation
<1> HIDE DEF r, Kept
<1>3. \A n \in Muts : mut'[n].prev = mut[n].prev
  BY <1>1, <1>2 DEF ListTypes
<1>4. fetch'.acc = Kept(fetch.acc) /\ fetch'.pc = fetch.pc /\ fetch'.page = fetch.page
      /\ fetch'.next = fetch.next
  BY <1>1 DEF ListTypes, FetchRecord
<1>5. QED
  BY <1>1, <1>3, <1>4, CompleteKept DEF ListTypes

LEMMA CompleteElsewhere ==
    ASSUME ListTypes, CompleteInv, NEW o \in Opps,
           \/ \E state \in UserStates : OtherDevice(o, state)
           \/ \E review \in BOOLEAN : Touch(o, review)
           \/ Insert(o)
    PROVE  CompleteInv'
<1>1. ASSUME NEW state \in UserStates, OtherDevice(o, state)
      PROVE  CompleteInv'
  <2>1. /\ UNCHANGED <<row, view, mut>> /\ cache' = Kept(cache)
        /\ fetch' = [fetch EXCEPT !.acc = Kept(fetch.acc), !.clean = FALSE]
    BY <1>1, OtherDeviceRecord
  <2>2. fetch'.acc = Kept(fetch.acc) /\ fetch'.pc = fetch.pc /\ fetch'.page = fetch.page
        /\ fetch'.next = fetch.next
    BY <2>1 DEF ListTypes, FetchRecord
  <2>3. QED
    BY <2>1, <2>2, CompleteKept DEF ListTypes
<1>2. ASSUME NEW review \in BOOLEAN, Touch(o, review) \/ Insert(o)
      PROVE  CompleteInv'
  <2>1. /\ \A p \in Opps : row'[p].seen = row[p].seen
        /\ UNCHANGED <<view, mut>> /\ cache' = Kept(cache)
        /\ fetch' = [fetch EXCEPT !.acc = Kept(fetch.acc)] /\ ListTypes'
    BY <1>2, PipelineRecord
  <2>2. fetch'.acc = Kept(fetch.acc) /\ fetch'.pc = fetch.pc /\ fetch'.page = fetch.page
        /\ fetch'.next = fetch.next
    BY <2>1 DEF ListTypes, FetchRecord
  <2>3. row' \in [Opps -> Columns]
    BY <2>1 DEF ListTypes
  <2>4. QED
    BY <2>1, <2>2, <2>3, CompleteKept
<1>3. QED
  BY <1>1, <1>2

LEMMA CompleteReadBack ==
    ASSUME ListTypes, CompleteInv, NEW m \in Muts, ReadBack(m)
    PROVE  CompleteInv'
<1> DEFINE r == [mut[m] EXCEPT !.pc = "answered", !.result = mine[mut[m].opp]]
<1>1. mut' = [mut EXCEPT ![m] = r] /\ UNCHANGED <<row, mine, view, cache, fetch>>
  BY ReadBackRecord
<1>2. r.prev = mut[m].prev
  BY DEF ListTypes, Mutation
<1> HIDE DEF r
<1>3. \A n \in Muts : mut'[n].prev = mut[n].prev
  BY <1>1, <1>2 DEF ListTypes
<1>4. Seen' = Seen /\ (Newest' <=> Newest) /\ Matching' = Matching
  BY <1>1, SameRows
<1>5. QED
  BY <1>1, <1>3, <1>4 DEF CompleteInv

LEMMA CompleteStep == ListTypes /\ CompleteInv /\ [Next]_vars => CompleteInv'
<1> SUFFICES ASSUME ListTypes, CompleteInv, [Next]_vars PROVE CompleteInv'
  OBVIOUS
<1>1. CASE Refetch
  <2>1. (IF cache.loaded THEN cache.pages ELSE 1) \in Nat
    BY DEF ListTypes, Pages
  <2>2. QED
    BY <1>1, <2>1, CompleteSends, NoPagesType DEF Refetch
<1>2. CASE FetchNextPage
  BY <1>2, CompleteSends DEF FetchNextPage, ListTypes
<1>3. ASSUME NEW m \in Muts,
             \/ \E o \in Opps, kind \in DOMAIN Goal : Click(m, o, kind)
             \/ Write(m) \/ ReadBack(m) \/ Succeed(m) \/ Fail(m)
      PROVE  CompleteInv'
  BY <1>3, KindsAreGoals, CompleteClick, CompleteWrite, CompleteReadBack, CompleteSucceed,
     CompleteFail
<1>4. CASE UNCHANGED vars
  <2>1. Seen' = Seen /\ (Newest' <=> Newest) /\ Matching' = Matching
    BY <1>4, SameRows DEF vars
  <2>2. QED
    BY <1>4, <2>1 DEF CompleteInv, vars
<1>5. QED
  BY <1>1, <1>2, <1>3, <1>4, CompleteAnswer, CompleteReceive, CompleteElsewhere DEF Next

LEMMA OnceTimes ==
    ASSUME ListTypes, Once(cache.items), NEW o
    PROVE  /\ Times(o) <= 1
           /\ Listed(cache.items, o) => Times(o) = 1
<1> DEFINE places == {i \in DOMAIN cache.items : cache.items[i].id = o}
<1>1. Times(o) = Cardinality(places)
  BY DEF Times
<1>2. CASE Listed(cache.items, o)
  <2>1. PICK i \in DOMAIN cache.items : cache.items[i].id = o
    BY <1>2 DEF Listed
  <2>2. places = {i}
    BY <2>1 DEF Once
  <2>3. Cardinality({i}) = 1
    BY FS_Singleton
  <2>4. QED
    BY <1>1, <2>2, <2>3
<1>3. CASE ~Listed(cache.items, o)
  <2>1. places = {}
    BY <1>3 DEF Listed
  <2>2. QED
    BY <1>1, <1>3, <2>1, FS_EmptySet
<1>4. QED
  BY <1>2, <1>3

\* Whatever is inserted and touched while the pages are loaded, sorted by the date of
\* discovery they list every opportunity that matched all along, and none twice, for any
\* number of rows of the same millisecond and any page size (opportunity.repository.ts
\* buildKeysetCondition).
THEOREM NewestCompleteAlways == Spec => []NewestComplete
<1>1. ListTypes /\ CompleteInv => NewestComplete
  <2> SUFFICES ASSUME ListTypes, CompleteInv, Newest
               PROVE  /\ AtEnd => \A o \in cache.from : Times(o) = 1
                      /\ \A o \in Opps : Times(o) <= 1
    BY DEF NewestComplete, Newest
  <2>1. Whole(Seen, cache)
    BY DEF CompleteInv
  <2>2. \A o : Times(o) <= 1 /\ (Listed(cache.items, o) => Times(o) = 1)
    BY <2>1, OnceTimes DEF Whole
  <2>3. AtEnd => \A o \in cache.from : Listed(cache.items, o)
    BY <2>1 DEF AtEnd, Whole
  <2>4. QED
    BY <2>2, <2>3
<1>2. QED
  BY ListTypesInit, ListTypesStep, CompleteInit, CompleteStep, <1>1, PTL DEF Spec
=============================================================================
