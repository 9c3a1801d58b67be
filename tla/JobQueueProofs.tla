--------------------------- MODULE JobQueueProofs ---------------------------
(***************************************************************************)
(* What the calls on a job record preserve, for any limits.                *)
(***************************************************************************)
EXTENDS JobQueue, TLAPS

\* A fresh record is well-formed whatever its status (a queued job can run:
\* defaultJobOptions gives at least one attempt).
LEMMA NewJobOK ==
    ASSUME NEW status \in JobStatus
    PROVE  JobOK(NewJob(status))
BY AttemptsAssumption, StallsAssumption DEF JobOK, NewJob, Job

\* add() leaves a job that is not "none".
LEMMA AddedOK ==
    ASSUME NEW job, JobOK(job)
    PROVE  JobOK(Added(job)) /\ Added(job).status # "none"
<1>1. JobOK(NewJob("waiting"))
  BY NewJobOK DEF JobStatus
<1>2. QED
  BY <1>1 DEF Added, NewJob

\* Taking a waiting job leaves it an attempt to run with.
LEMMA TakenOK ==
    ASSUME NEW job, JobOK(job), job.status = "waiting"
    PROVE  JobOK(Taken(job)) /\ Taken(job).status = "active"
BY DEF JobOK, Job, Taken, JobStatus

\* A handler that returns, and the trimming of its record.
LEMMA DoneOK ==
    ASSUME NEW job
    PROVE  /\ JobOK(Completed(job)) /\ Completed(job).status = "completed"
           /\ JobOK(Evicted(job)) /\ Evicted(job).status = "evicted"
<1>1. JobOK(NewJob("completed")) /\ JobOK(NewJob("evicted"))
  BY NewJobOK DEF JobStatus
<1>2. QED
  BY <1>1 DEF Completed, Evicted, NewJob

\* A handler that throws uses up one attempt and never more than there are: the
\* job waits again only if one is left (isExhausted in dlq.ts counts on it).
LEMMA ThrownOK ==
    ASSUME NEW job, JobOK(job), job.status = "active"
    PROVE  JobOK(Thrown(job)) /\ Thrown(job).status \in {"waiting", "failed"}
<1>1. job.attempts + 1 \in 0..MaxAttempts
  BY AttemptsAssumption DEF JobOK, Job
<1>2. QED
  BY <1>1, AttemptsAssumption DEF JobOK, Job, Thrown, JobStatus

\* A stalled job is put back at most MaxStalls times.
LEMMA StalledOK ==
    ASSUME NEW job, JobOK(job), job.status = "active"
    PROVE  JobOK(Stalled(job)) /\ Stalled(job).status \in {"waiting", "failed"}
<1>1. CASE job.stalls < MaxStalls
  <2>1. job.stalls + 1 \in 0..MaxStalls
    BY <1>1, StallsAssumption DEF JobOK, Job
  <2>2. QED
    BY <1>1, <2>1 DEF JobOK, Job, Stalled, JobStatus
<1>2. CASE ~(job.stalls < MaxStalls)
  BY <1>2 DEF JobOK, Job, Stalled, JobStatus
<1>3. QED
  BY <1>1, <1>2
=============================================================================
