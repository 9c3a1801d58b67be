------------------------------ MODULE JobQueue ------------------------------
(***************************************************************************)
(* The record BullMQ keeps of one job, as the pipeline uses it: queues are *)
(* built with defaultJobOptions (apps/worker/src/context.ts), every        *)
(* producer derives a stable jobId, and workers.ts runs the handlers.      *)
(*                                                                         *)
(* Three facts about the records matter to the pipeline:                   *)
(*   - add() under an id that still has a record, in whatever state, is a  *)
(*     no-op (this is what "collapses onto one job" means in the source);  *)
(*   - a handler that throws is retried until attempts are used up; a      *)
(*     worker that dies mid-job leaves a stalled job, which is put back    *)
(*     MaxStalls times and then failed;                                    *)
(*   - completed records go once 1000 newer ones exist (removeOnComplete), *)
(*     failed ones never do (removeOnFail: false).                         *)
(*                                                                         *)
(* The operators map a record to the record after the call.  This module   *)
(* has no variables: the modules of the stages hold the records.           *)
(***************************************************************************)
EXTENDS Naturals

CONSTANTS
    MaxAttempts,    \* opts.attempts = rateLimit.maxRetries + 1
    MaxStalls       \* BullMQ's maxStalledCount

ASSUME AttemptsAssumption == MaxAttempts \in Nat \ {0}
ASSUME StallsAssumption   == MaxStalls \in Nat

\* "none": never added; "evicted": completed and its record removed since.
JobStatus == {"none", "waiting", "active", "completed", "failed", "evicted"}

Job == [status : JobStatus, attempts : 0..MaxAttempts, stalls : 0..MaxStalls]

NewJob(status) == [status |-> status, attempts |-> 0, stalls |-> 0]

NoJob == NewJob("none")

\* queue.add(name, data, { jobId })
Added(job) == IF job.status \in {"none", "evicted"} THEN NewJob("waiting") ELSE job

\* A worker takes the job and starts its handler.
Taken(job) == [job EXCEPT !.status = "active"]

\* The handler returned.
Completed(job) == NewJob("completed")

\* Mutation: the handler's error is swallowed.
ThrownSwallowed(job) == Completed(job)

\* The handler threw: back to the queue with a backoff, or out of attempts.
Thrown(job) ==
    [job EXCEPT !.attempts = @ + 1,
                !.status   = IF job.attempts + 1 < MaxAttempts THEN "waiting"
                                                               ELSE "failed"]

\* Mutation: nothing looks for stalled jobs.
StalledForGood(job) == job

\* The process running the handler died; the stalled-job check finds the job.
Stalled(job) ==
    IF job.stalls < MaxStalls
    THEN [job EXCEPT !.stalls = @ + 1, !.status = "waiting"]
    ELSE [job EXCEPT !.status = "failed"]

\* removeOnComplete trims the record.
Evicted(job) == NewJob("evicted")

\* A job that may still run has an attempt left to run with.
JobOK(job) ==
    /\ job \in Job
    /\ job.status \in {"waiting", "active"} => job.attempts < MaxAttempts

Pending(job) == job.status \in {"waiting", "active"}
Settled(job) == job.status \in {"completed", "failed", "evicted"}
=============================================================================
