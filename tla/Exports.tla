------------------------------ MODULE Exports ------------------------------
(***************************************************************************)
(* One data export: the request (apps/api/src/privacy/export.service.ts),  *)
(* the job (apps/worker/src/stages/export.ts) and the page that shows its  *)
(* status (apps/web/src/lib/api/privacy.ts useExportStatus).               *)
(*                                                                         *)
(* The row and the queue are written one after the other, each update of   *)
(* the handler is a statement of its own, and an account deletion may take *)
(* the row away between any two.  A handler that loses its lock may be     *)
(* dead or may go on beside the retry.  The page polls while the status it *)
(* shows is pending or processing, and reads it anew when an event of      *)
(* LiveUpdates names the export; the worker publishes none, so that the    *)
(* only one is the API's own, of the request.  A first query that fails is *)
(* not repeated by itself, and a later one that fails leaves the status on *)
(* the page.  What is in the bundle is left out: it is read in many        *)
(* queries, from rows of the user alone.                                   *)
(***************************************************************************)
EXTENDS JobQueue, LiveUpdates

CONSTANTS
    Handlers, Nobody,
    Failures            \* bound on failures, throws and lost locks

ASSUME FailuresAssumption == Failures \in Nat

VARIABLES
    export,     \* the exports row: status, whether storage_key is set
    bundle,     \* whether the object is stored
    ejob,       \* the record of queue data-export
    handler,    \* where each runExportJob is
    lock,       \* the handler that holds the job
    asking,     \* the request: past the session guard, then past createPending
    page,       \* the status shown, or: no id, first query under way or failed
    erased,     \* the account has been deleted
    outlived,   \* history: a handler went on after it had lost its lock
    spare

ownVars == <<export, bundle, ejob, handler, lock, asking, page>>
exportsVars == <<ownVars, liveVars, erased, outlived, spare>>

ExportsInit ==
    /\ LiveInit
    /\ export = [status |-> "none", key |-> FALSE]
    /\ bundle = FALSE
    /\ ejob = NoJob
    /\ handler = [h \in Handlers |-> "idle"]
    /\ lock = Nobody
    /\ asking = "idle"
    /\ page = "empty"
    /\ erased = FALSE
    /\ outlived = FALSE
    /\ spare = Failures

Kept == export.status \notin {"none", "deleted"}

-----------------------------------------------------------------------------
\* SessionAuthGuard lets the request in only while the user is active.
Arrive ==
    /\ ~erased /\ asking = "idle" /\ export.status = "none"
    /\ asking' = "create"
    /\ UNCHANGED <<export, bundle, ejob, handler, lock, page>>

CreatePending ==
    /\ asking = "create"
    /\ export' = [export EXCEPT !.status = "pending"]
    /\ asking' = "enqueue"
    /\ UNCHANGED <<bundle, ejob, handler, lock, page, sent>>

\* The add, the event, and the response that gives the page the export's id.
EnqueueExport ==
    /\ asking = "enqueue"
    /\ ejob' = Added(ejob)
    /\ asking' = "idle"
    /\ page' = "loading"
    /\ Emit("export.status")
    /\ UNCHANGED <<export, bundle, handler, lock>>

\* Redis or the database is away: a row stays pending, and no page asks for it.
RequestFails ==
    /\ asking # "idle"
    /\ asking' = "idle"
    /\ UNCHANGED <<export, bundle, ejob, handler, lock, page>>

Shown == page \in {"pending", "processing", "ready", "failed"}

\* What a query leaves on the page.  The guard answers 401 once the account is
\* gone: an error leaves the data the query has, and has none to show without.
Unread == IF Shown THEN page ELSE "unread"
Answer == IF Kept /\ ~erased THEN export.status ELSE Unread

\* The first query of a page with an id ...
FirstQuery ==
    /\ page = "loading"
    /\ page' = Answer
    /\ UNCHANGED <<export, bundle, ejob, handler, lock, asking>>

\* ... which may fail, and fail again at its only retry.
QueryFails ==
    /\ page = "loading"
    /\ page' = Unread
    /\ UNCHANGED <<export, bundle, ejob, handler, lock, asking>>

\* Mutation: refetchInterval stops at processing.
PollsWhilePending == page = "pending"

\* refetchInterval: false without data, and from ready or failed on.
Polls == page \in {"pending", "processing"}

Poll ==
    /\ Polls
    /\ page' = Answer
    /\ UNCHANGED <<export, bundle, ejob, handler, lock, asking>>

\* The query, if the page has one, is asked again: at once where there is data,
\* and as a first query, which may fail as one, where there is none.
Again == CASE page = "empty" -> page [] Shown -> Answer [] OTHER -> "loading"

\* An event that names the export makes its query ask again.
Nudge ==
    /\ page' = IF "export" \in Affected(sent) THEN Again ELSE page
    /\ Deliver
    /\ UNCHANGED <<export, bundle, ejob, handler, lock, asking>>

\* The button "Refresh status", or the window gets the focus.
Refresh ==
    /\ page' = Again
    /\ UNCHANGED <<export, bundle, ejob, handler, lock, asking>>

\* The page is loaded anew, with the id localStorage has kept.
Reopen ==
    /\ page # "empty"
    /\ page' = "loading"
    /\ UNCHANGED <<export, bundle, ejob, handler, lock, asking>>

-----------------------------------------------------------------------------
Moves(h, pc) == handler' = [handler EXCEPT ![h] = pc]

\* Mutation: a handler does not look whether the bundle is there already.
BuiltNever == FALSE

\* "a completed export is never rebuilt".
Built == export.status = "ready" /\ export.key

\* A handler takes the job and reads the row.
TakeExport(h) ==
    /\ ejob.status = "waiting" /\ handler[h] = "idle"
    /\ IF Kept /\ ~Built
       THEN ejob' = Taken(ejob) /\ lock' = h /\ Moves(h, "mark")
       ELSE ejob' = Completed(ejob) /\ UNCHANGED <<lock, handler>>
    /\ UNCHANGED <<export, bundle, asking, page>>

\* An update of the row: it may be gone.
RowWith(status) == IF Kept THEN [export EXCEPT !.status = status] ELSE export

MarkProcessing(h) ==
    /\ handler[h] = "mark"
    /\ export' = RowWith("processing")
    /\ Moves(h, "build")
    /\ UNCHANGED <<bundle, ejob, lock, asking, page>>

\* assembleBundle and putExport.
BuildBundle(h) ==
    /\ handler[h] = "build"
    /\ bundle' = TRUE
    /\ Moves(h, "store")
    /\ UNCHANGED <<export, ejob, lock, asking, page>>

Owns(h) == lock = h

\* What becomes of the job when handler h returns or throws: nothing, if the
\* lock is another's by now.
Reports(h, job) ==
    /\ ejob' = IF Owns(h) THEN job ELSE ejob
    /\ lock' = IF Owns(h) THEN Nobody ELSE lock
    /\ Moves(h, "idle")

\* The last update; the handler returns, or its worker dies before saying so.
MarkReady(h) ==
    /\ handler[h] = "store"
    /\ export' = IF Kept THEN [status |-> "ready", key |-> TRUE] ELSE export
    /\ Moves(h, "return")
    /\ UNCHANGED <<bundle, ejob, lock, asking, page>>

Return(h) ==
    /\ handler[h] = "return"
    /\ Reports(h, Completed(ejob))
    /\ UNCHANGED <<export, bundle, asking, page>>

\* The update to processing throws, before the try block: nothing flags the row.
MarkThrows(h) ==
    /\ handler[h] = "mark"
    /\ export' \in {RowWith("processing"), export}
    /\ Reports(h, Thrown(ejob))
    /\ UNCHANGED <<bundle, asking, page>>

\* Something in the try block throws: what comes before the update to ready, or
\* that update, which has been committed when only its answer is lost.
ExportThrows(h) ==
    /\ handler[h] \in {"build", "store", "return"}
    /\ Moves(h, IF handler[h] = "return" THEN "unsure" ELSE "catch")
    /\ UNCHANGED <<export, bundle, ejob, lock, asking, page>>

\* The catch block flags the row, or fails to, and throws on.
Catch(h) ==
    /\ handler[h] \in {"catch", "unsure"}
    /\ export' \in {RowWith("failed"), export}
    /\ Reports(h, Thrown(ejob))
    /\ UNCHANGED <<bundle, asking, page>>

\* The lock runs out: the worker is dead, or too busy to renew it and goes on.
ExportStalls(h) ==
    /\ handler[h] # "idle" /\ Owns(h)
    /\ ejob' = Stalled(ejob)
    /\ lock' = Nobody
    /\ \/ Moves(h, "idle") /\ UNCHANGED outlived
       \/ UNCHANGED handler /\ outlived' = TRUE
    /\ UNCHANGED <<export, bundle, asking, page>>

-----------------------------------------------------------------------------
\* deleteAccount's delete on exports; the object stays, and so does the job.
DeleteAccount ==
    /\ ~erased
    /\ erased' = TRUE
    /\ export' = IF Kept THEN [export EXCEPT !.status = "deleted"] ELSE export
    /\ UNCHANGED <<bundle, ejob, handler, lock, asking, page, liveVars, outlived, spare>>

HandlerStep ==
    /\ \E h \in Handlers :
        \/ TakeExport(h) \/ MarkProcessing(h) \/ BuildBundle(h)
        \/ MarkReady(h) \/ Return(h) \/ Catch(h)
    /\ UNCHANGED <<liveVars, erased, outlived, spare>>

RequestStep == (CreatePending \/ EnqueueExport) /\ UNCHANGED <<stream, erased, outlived, spare>>

PageStep == (FirstQuery \/ Poll) /\ UNCHANGED <<liveVars, erased, outlived, spare>>

UserStep ==
    \/ (Arrive \/ Refresh \/ Reopen) /\ UNCHANGED <<liveVars, erased, outlived, spare>>
    \/ Unmount /\ UNCHANGED <<ownVars, erased, outlived, spare>>

\* The guard answers 401 once the account is gone: the source errs.
Refused == erased /\ stream.source = "connecting" /\ Breaks

StreamStep ==
    \/ Nudge /\ UNCHANGED <<erased, outlived, spare>>
    \/ /\ \/ Mount /\ ~erased
          \/ Opens /\ ~erased
          \/ Refused
          \/ Reconnect
       /\ UNCHANGED <<ownVars, erased, outlived, spare>>

Fault ==
    /\ spare > 0
    /\ spare' = spare - 1
    /\ \/ (RequestFails \/ QueryFails) /\ UNCHANGED <<liveVars, outlived>>
       \/ \E h \in Handlers : (MarkThrows(h) \/ ExportThrows(h)) /\ UNCHANGED <<liveVars, outlived>>
       \/ \E h \in Handlers : ExportStalls(h) /\ UNCHANGED liveVars
       \/ Breaks /\ UNCHANGED <<ownVars, outlived>>
    /\ UNCHANGED erased

ExportsNext ==
    \/ UserStep \/ RequestStep \/ HandlerStep \/ PageStep \/ StreamStep
    \/ DeleteAccount \/ Fault

\* A page in the foreground polls every three seconds, a request and a worker go on
\* with what they hold, the browser and its timers with theirs; nobody has to press
\* Refresh, or to come back to a page in the background, whose interval rests.
ExportsSpec ==
    /\ ExportsInit /\ [][ExportsNext]_exportsVars
    /\ WF_exportsVars(PageStep) /\ WF_exportsVars(RequestStep)
    /\ WF_exportsVars(HandlerStep) /\ WF_exportsVars(StreamStep)

-----------------------------------------------------------------------------
(***************************************************************************)
(* Properties.                                                             *)
(***************************************************************************)

\* What is settled stays settled, at any point of a handler and of its retries.  A
\* ready export is not rebuilt: a retry sees the stored bundle (export.ts 224-227, "a
\* completed export is never rebuilt").  It ceases to be ready only with the account,
\* when a handler goes on without its lock, or when the update that made it ready has
\* been committed and its answer lost: the catch block of that same handler then flags
\* it failed (export.ts 237-255), and the retry rebuilds it.  A row an account
\* deletion took is not written again (account-deletion.service.ts).
SettledStays ==
    [][/\ export.status = "ready" /\ export'.status # "ready"
            => \/ export'.status = "deleted" \/ outlived
               \/ \E h \in Handlers : handler[h] = "unsure" /\ handler'[h] = "idle"
       /\ export.status = "deleted" => export' = export]_exportsVars

\* A page that shows an export under way comes to show it ready or failed, through
\* every failed attempt and lost lock, unless the job is out of attempts or stalls, the
\* account goes, or the page is loaded anew and its first query fails (requirement 56.2: "WHEN a long-running action completes or fails,
\* THE System SHALL update its displayed status accordingly").  This is less than the
\* requirement: a failed attempt is shown as failed, polling ends there, and the retry
\* that makes the export ready is not shown until the page asks again.  The row may
\* stay processing when a handler goes on without its lock: it can mark the row after
\* the retry has finished it, and fail.
OutcomeIsShown ==
    page \in {"pending", "processing"}
      ~> \/ page \in {"ready", "failed", "unread"}
         \/ ejob.status = "failed" \/ outlived \/ erased

\* A stream that breaks, at any time and while it is being set up, comes back as long
\* as the shell is there and the API lets the user in (use-live-updates.ts 90-100;
\* requirement 56.1).
StreamComesBack ==
    stream.enabled ~> stream.source = "open" \/ ~stream.enabled \/ erased
=============================================================================
