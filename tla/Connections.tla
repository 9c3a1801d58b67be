---------------------------- MODULE Connections ----------------------------
(***************************************************************************)
(* A user's connections: the API's handlers (apps/api/src/connections),    *)
(* the scheduler and the discovery stage of the worker, as far as rows of  *)
(* connections and connector_runs go.  What a discovery finds is module    *)
(* Ingestion.                                                              *)
(*                                                                         *)
(* Handlers read, then write, in separate statements; requests, the        *)
(* scheduler and the workers interleave.  A request may fail or its        *)
(* process die between two statements, and a discovery job is retried.     *)
(* Two families of connections are told apart: "url", one page submitted   *)
(* by its URL, which submitManualUrl reuses, and "board", all others.      *)
(* Nothing in the program sets oauthAccountId, so disconnecting is its     *)
(* write to the connection.  Every run stays running: nothing calls        *)
(* finishRun; so a run is its row, its count and its failure reason.       *)
(***************************************************************************)
EXTENDS JobQueue

CONSTANTS
    Conns, Runs,    \* ids of rows; random UUIDs, never used twice
    Requests,       \* requests of the user at a time
    Slots,          \* discovery jobs at a time
    NoId,           \* no row, where an id may be missing
    Budget          \* bound on failures, throws and deaths

ASSUME BudgetAssumption == Budget \in Nat

VARIABLES
    conn,       \* connections rows
    failing,    \* connections whose health is failing
    runs,       \* connector_runs rows
    blamed,     \* runs with a failure reason
    disc,       \* records of queue connector-discovery, with their handlers
    req,        \* the requests being handled
    erased,     \* the account has been deleted
    late,       \* history: while a request of the user was being handled
    budget

connVars == <<conn, failing, runs, blamed, disc, req>>
connectionsVars == <<connVars, erased, late, budget>>

\* saw: the status the row had when a request that will write it read it.
NoRequest == [pc |-> "idle", conn |-> NoId, saw |-> "none", run |-> NoId]
NoDiscovery == [job |-> NoJob, pc |-> "idle", conn |-> NoId, run |-> NoId, own |-> NoId]

ConnectionsInit ==
    /\ conn = [c \in Conns |-> [status |-> "none", kind |-> "board"]]
    /\ failing = {}
    /\ runs = [r \in Runs |-> [status |-> "none", conn |-> NoId, counted |-> FALSE]]
    /\ blamed = {}
    /\ disc = [j \in Slots |-> NoDiscovery]
    /\ req = [q \in Requests |-> NoRequest]
    /\ erased = FALSE
    /\ late = FALSE
    /\ budget = Budget

Stored(c) == conn[c].status \in {"active", "paused", "removed"}
Running(r) == runs[r].status = "running"

\* Mutation: the lookup of an update trusts the owner check alone.
FindsAny(c) == Stored(c)

\* findOwned, and the 404 for a removed connection.
Finds(c) == Stored(c) /\ conn[c].status # "removed"

\* findOwnedBySourceAndConfigKey.
UrlRows == {c \in Conns : Finds(c) /\ conn[c].kind = "url"}

Ends(q) == req' = [req EXCEPT ![q] = NoRequest]
Begins(q, pc, c) ==
    /\ req[q].pc = "idle"
    /\ req' = [req EXCEPT ![q] = [pc |-> pc, conn |-> c, run |-> NoId,
                                  saw |-> IF pc \in {"update", "reactivate"}
                                            THEN conn[c].status ELSE "none"]]

-----------------------------------------------------------------------------
(***************************************************************************)
(* The API.                                                                *)
(***************************************************************************)

\* repo.create: a new active row, whatever rows there are already.
Inserts(q, c, kind, next) ==
    /\ conn[c].status = "none"
    /\ conn' = [conn EXCEPT ![c] = [status |-> "active", kind |-> kind]]
    /\ req' = [req EXCEPT ![q] = [NoRequest EXCEPT !.pc = next, !.conn = c]]
    /\ UNCHANGED <<failing, runs, blamed, disc>>

CreateConnection(q, c, kind) ==
    /\ req[q].pc = "idle"
    /\ Inserts(q, c, kind, "enqueue")

\* update, disconnect and triggerRun find the row first.
ReadForUpdate(q, c) ==
    /\ Finds(c)
    /\ Begins(q, "update", c)
    /\ UNCHANGED <<conn, failing, runs, blamed, disc>>

ReadForDisconnect(q, c) ==
    /\ Stored(c)
    /\ Begins(q, "disconnect", c)
    /\ UNCHANGED <<conn, failing, runs, blamed, disc>>

ReadForRun(q, c) ==
    /\ Finds(c)
    /\ Begins(q, "run", c)
    /\ UNCHANGED <<conn, failing, runs, blamed, disc>>

\* updateOwned and disconnect's transaction: no condition on the status.
SetsStatus(q, status, next) ==
    /\ conn' = IF Stored(req[q].conn) THEN [conn EXCEPT ![req[q].conn].status = status]
                                      ELSE conn
    /\ req' = [req EXCEPT ![q] = IF next = "idle" THEN NoRequest
                                        ELSE [NoRequest EXCEPT !.pc = next, !.conn = req[q].conn]]
    /\ UNCHANGED <<failing, runs, blamed, disc>>

WriteUpdate(q, status) == req[q].pc = "update" /\ SetsStatus(q, status, "idle")

WriteDisconnect(q) == req[q].pc = "disconnect" /\ SetsStatus(q, "paused", "idle")

\* markRemoved: one statement.
Remove(c) ==
    /\ Stored(c)
    /\ conn' = [conn EXCEPT ![c].status = "removed"]
    /\ UNCHANGED <<failing, runs, blamed, disc, req>>

\* submitManualUrl: reuse, reactivate or create.
SubmitUrl(q) ==
    /\ \/ \E c \in UrlRows :
             Begins(q, IF conn[c].status = "active" THEN "run" ELSE "reactivate", c)
       \/ UrlRows = {} /\ Begins(q, "insert", NoId)
    /\ UNCHANGED <<conn, failing, runs, blamed, disc>>

\* The row may be gone by now; then updateOwned returns null and a row is made.
Reactivate(q) ==
    /\ req[q].pc = "reactivate"
    /\ SetsStatus(q, "active", IF Stored(req[q].conn) THEN "run" ELSE "insert")

InsertUrl(q, c) ==
    /\ req[q].pc = "insert"
    /\ Inserts(q, c, "url", "run")

\* Mutation: a run does not reference its connection.
OpensRunAnyway(r, c) ==
    /\ runs[r].status = "none"
    /\ runs' = [runs EXCEPT ![r] = [status |-> "running", conn |-> c, counted |-> FALSE]]

\* The insert of a run row: it fails once the connection's row is gone.
OpensRun(r, c) ==
    /\ runs[r].status = "none" /\ Stored(c)
    /\ runs' = [runs EXCEPT ![r] = [status |-> "running", conn |-> c, counted |-> FALSE]]

TriggerOpensRun(q, r) ==
    /\ req[q].pc = "run"
    /\ OpensRun(r, req[q].conn)
    /\ req' = [req EXCEPT ![q].pc = "enqueue", ![q].run = r]
    /\ UNCHANGED <<conn, failing, blamed, disc>>

\* A job under discover_<runId>, or without an id after create.
Adds(j, c, r) ==
    /\ disc[j].job.status \in {"none", "completed", "failed"} /\ disc[j].pc = "idle"
    /\ disc' = [disc EXCEPT ![j] = [NoDiscovery EXCEPT !.job = Added(NoJob),
                                                      !.conn = c, !.run = r]]

EnqueueDiscovery(q, j) ==
    /\ req[q].pc = "enqueue"
    /\ Adds(j, req[q].conn, req[q].run)
    /\ Ends(q)
    /\ UNCHANGED <<conn, failing, runs, blamed>>

\* Redis is away, the run's insert fails, or the process dies: what is written stays.
RequestFails(q) ==
    /\ req[q].pc # "idle"
    /\ Ends(q)
    /\ UNCHANGED <<conn, failing, runs, blamed, disc>>

-----------------------------------------------------------------------------
(***************************************************************************)
(* The scheduler and the worker.                                           *)
(***************************************************************************)

\* enqueueDiscovery: one job per active connection and five minutes.
Schedule(c, j) ==
    /\ conn[c].status = "active"
    /\ Adds(j, c, NoId)
    /\ UNCHANGED <<conn, failing, runs, blamed, req>>

Handles(j, pc) == disc' = [disc EXCEPT ![j].pc = pc]

\* runDiscovery loads the connection; a paused or removed one is skipped.
TakeDiscovery(j) ==
    LET d == disc[j] IN
    /\ d.job.status = "waiting"
    /\ disc' = [disc EXCEPT ![j] =
                  IF conn[d.conn].status # "active" THEN [d EXCEPT !.job = Completed(@)]
                  ELSE [d EXCEPT !.job = Taken(@), !.own = d.run,
                                 !.pc = IF d.run = NoId THEN "open" ELSE "discover"]]
    /\ UNCHANGED <<conn, failing, runs, blamed, req>>

DiscoveryOpensRun(j, r) ==
    /\ disc[j].pc = "open"
    /\ OpensRun(r, disc[j].conn)
    /\ disc' = [disc EXCEPT ![j].pc = "discover", ![j].own = r]
    /\ UNCHANGED <<conn, failing, blamed, req>>

\* Fetch jobs are added and counted in the run, if it is still there.
FinishDiscovery(j) ==
    LET r == disc[j].own IN
    /\ disc[j].pc = "discover"
    /\ runs' = IF Running(r) THEN [runs EXCEPT ![r].counted = TRUE] ELSE runs
    /\ disc' = [disc EXCEPT ![j].job = Completed(@), ![j].pc = "idle"]
    /\ UNCHANGED <<conn, failing, blamed, req>>

\* The handler throws.  The retry has the job's data, so without a runId it opens
\* another run; a job out of attempts goes to the failed handler of workers.ts.
DiscoveryThrows(j) ==
    /\ disc[j].pc \in {"open", "discover"}
    /\ LET after == Thrown(disc[j].job) IN
       disc' = [disc EXCEPT ![j].job = after, ![j].own = NoId,
                            ![j].pc = IF after.status = "failed" THEN "record" ELSE "idle"]
    /\ UNCHANGED <<conn, failing, runs, blamed, req>>

\* The worker dies: a job stalled too often fails with attempts left, which
\* isExhausted takes for a job that will be retried.
DiscoveryStalls(j) ==
    /\ disc[j].pc \in {"open", "discover"}
    /\ disc' = [disc EXCEPT ![j].job = Stalled(@), ![j].own = NoId, ![j].pc = "idle"]
    /\ UNCHANGED <<conn, failing, runs, blamed, req>>

\* recordConnectionFailure, on the run the job's data names and the connection.
RecordFailure(j) ==
    LET d == disc[j] IN
    /\ d.pc = "record"
    /\ blamed' = blamed \union {r \in {d.run} \ {NoId} : Running(r)}
    /\ failing' = failing \union {c \in {d.conn} : Stored(c)}
    /\ Handles(j, "idle")
    /\ UNCHANGED <<conn, runs, req>>

-----------------------------------------------------------------------------
\* Mutation: only the rows the user still sees are deleted.
Visible(c) == Finds(c)

\* deleteByUser: every connection of the user, removed ones too.
Owned(c) == Stored(c)

\* A row of connections is deleted, and its runs with it (ON DELETE CASCADE).
DropsConnections ==
    /\ conn' = [c \in Conns |-> IF Owned(c) THEN [conn[c] EXCEPT !.status = "deleted"]
                                            ELSE conn[c]]
    /\ runs' = [r \in Runs |-> IF Running(r) /\ Owned(runs[r].conn)
                               THEN [runs[r] EXCEPT !.status = "deleted"]
                               ELSE runs[r]]
    /\ failing' = {c \in failing : ~Owned(c)}
    /\ blamed' = {r \in blamed : ~Owned(runs[r].conn)}
    /\ UNCHANGED <<disc, req>>

\* SessionAuthGuard lets a request in only while the user is active.
StartRequest ==
    /\ ~erased
    /\ \E c \in Conns :
        \/ Remove(c)
        \/ \E q \in Requests :
            \/ \E kind \in {"board", "url"} : CreateConnection(q, c, kind)
            \/ ReadForUpdate(q, c) \/ ReadForDisconnect(q, c) \/ ReadForRun(q, c)
            \/ SubmitUrl(q)
    /\ UNCHANGED <<erased, late, budget>>

\* deleteCategories with category connections.
DeleteConnections ==
    /\ ~erased
    /\ DropsConnections
    /\ UNCHANGED <<erased, late, budget>>

\* deleteAccount keeps the users row, so no foreign key stops a request that is
\* past the guard from inserting rows of the deleted user afterwards.
DeleteAccount ==
    /\ ~erased
    /\ DropsConnections
    /\ erased' = TRUE
    /\ late' = (\E q \in Requests : req[q].pc # "idle")
    /\ UNCHANGED budget

RequestStep ==
    /\ \E q \in Requests :
        \/ \E status \in {"active", "paused"} : WriteUpdate(q, status)
        \/ WriteDisconnect(q)
        \/ Reactivate(q)
        \/ \E c \in Conns : InsertUrl(q, c)
        \/ \E r \in Runs : TriggerOpensRun(q, r)
        \/ \E j \in Slots : EnqueueDiscovery(q, j)
    /\ UNCHANGED <<erased, late, budget>>

DiscoveryStep ==
    /\ \E j \in Slots :
        \/ \E c \in Conns : Schedule(c, j)
        \/ TakeDiscovery(j)
        \/ \E r \in Runs : DiscoveryOpensRun(j, r)
        \/ FinishDiscovery(j)
        \/ RecordFailure(j)
    /\ UNCHANGED <<erased, late, budget>>

Fault ==
    /\ budget > 0
    /\ budget' = budget - 1
    /\ \/ \E q \in Requests : RequestFails(q)
       \/ \E j \in Slots : DiscoveryThrows(j) \/ DiscoveryStalls(j)
    /\ UNCHANGED <<erased, late>>

ConnectionsNext ==
    \/ StartRequest \/ RequestStep \/ DiscoveryStep
    \/ DeleteConnections \/ DeleteAccount \/ Fault

ConnectionsSpec == ConnectionsInit /\ [][ConnectionsNext]_connectionsVars

-----------------------------------------------------------------------------
(***************************************************************************)
(* Properties.                                                             *)
(***************************************************************************)

\* A removal is undone only by a request that had read the row before it and
\* writes after it, or by a disconnect: no other request of the API, no schedule
\* and no job makes a removed connection active or paused (connections.service.ts
\* remove, "Scheduling stops").
RemovalHolds ==
    [][\A c \in Conns :
          conn[c].status = "removed" /\ conn'[c].status \in {"active", "paused"}
            => \E q \in Requests :
                  /\ req[q].conn = c /\ req'[q] # req[q]
                  /\ req[q].saw # "removed" \/ req[q].pc = "disconnect"]_connectionsVars

\* No connection or run of a deleted user is left or comes back, unless a request of
\* the user was being handled while the account was deleted: no schedule, retry or
\* discovery of a worker makes one (account-deletion.service.ts).
ErasedStaysErased ==
    erased /\ ~late => /\ \A c \in Conns : ~Stored(c)
                       /\ \A r \in Runs : ~Running(r)
=============================================================================
