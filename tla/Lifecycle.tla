----------------------------- MODULE Lifecycle -----------------------------
(***************************************************************************)
(* The status of a stored opportunity, from the persist stage that creates *)
(* and touches it to the expiry stage that closes it.                      *)
(*                                                                         *)
(*   persist   one transaction per candidate (stages/dedup.ts), then, if   *)
(*             the source signalled anything but open, an add to           *)
(*             expiry-check: a worker may die between the two, and the     *)
(*             retry runs the transaction again                            *)
(*   target    applyTargeted of stages/expiry.ts: for an unknown signal an *)
(*             update and then an insert, not in one transaction           *)
(*   sweep     applySweep: two updates, each a statement of its own        *)
(*                                                                         *)
(* Time is a counter; closing_at is compared with it.  A record of a       *)
(* posting is its closing date: the expiry jobId holds the opportunity and *)
(* the hash of the record's content, of which the signal is no part.  No   *)
(* connector in the repository reports a signal yet: Signals is what the   *)
(* type of parse allows.  Which rows a candidate matches is DedupPersist's *)
(* subject; here it is any.                                                *)
(***************************************************************************)
EXTENDS JobQueue

CONSTANTS
    Opps,           \* opportunities rows
    Persisters,     \* concurrent runDedup handlers
    Signals,        \* closure signals parse may report
    Dates,          \* closing dates sources publish
    MaxTime,        \* bound on the clock
    Horizon,        \* CLOSING_SOON_HORIZON_MS
    Never,          \* no closing date; no row; no sweep
    Budget          \* bound on interruptions

ASSUME LifecycleAssumption ==
    /\ Signals \subseteq {"open", "closed", "removed", "unknown"}
    /\ Dates \subseteq Nat /\ MaxTime \in Nat /\ Horizon \in Nat /\ Budget \in Nat
    /\ Never \notin Nat

VARIABLES
    now,
    opps,       \* opportunities rows
    persist,    \* each runDedup handler
    job,        \* targeted records of queue expiry-check
    signal,     \* the closureSignal each was added with
    halfway,    \* targeted jobs between the update and the insert
    items,      \* jobs that have filed a closure_ambiguous review item
    sweep,      \* the time the running sweep computed, or Never
    budget

vars == <<now, opps, persist, job, signal, halfway, items, sweep, budget>>

Closings == Dates \union {Never}
Keys == Opps \X Closings

OpenStatuses == {"New", "Active", "Closing soon"}
Statuses == OpenStatuses \union {"Expired", "Closed", "Removed", "Needs review", "Duplicate"}

Rows == [status : Statuses, closing : Closings]

\* The absent row is no row.
ASSUME NeverAssumption == Never \notin Rows

NoWork == [pc |-> "idle"]

Init ==
    /\ now = 0
    /\ opps = [o \in Opps |-> Never]
    /\ persist = [p \in Persisters |-> NoWork]
    /\ job = [k \in Keys |-> NoJob]
    /\ signal = [k \in Keys |-> "open"]
    /\ halfway = {}
    /\ items = {}
    /\ sweep = Never
    /\ budget = Budget

Spend == budget > 0 /\ budget' = budget - 1

Stored == {o \in Opps : opps[o] # Never}

-----------------------------------------------------------------------------
Creating(o) == \E p \in Persisters : persist[p].pc # "idle" /\ persist[p].opp = o

\* A runDedup handler starts on a record of o with this closing date and signal.
\* Two handlers that both create the row are DedupPersist's subject.
BeginPersist(p, o, c, g) ==
    /\ persist[p].pc = "idle"
    /\ o \in Stored \/ ~Creating(o)
    /\ persist' = [persist EXCEPT ![p] =
                      [pc |-> "open", opp |-> o, closing |-> c, signal |-> g]]
    /\ UNCHANGED <<now, opps, job, signal, halfway, items, sweep, budget>>

\* Mutation: canonicalColumns sets the status too, as on insert.
PersistedAnew(w) == [status |-> "New", closing |-> w.closing]

\* The target row after the transaction: inserted as New, or updated in every
\* column but the status, or only touched because a first-party row wins.
Persisted(w) ==
    IF w.opp \in Stored THEN [opps[w.opp] EXCEPT !.closing = w.closing]
                        ELSE [status |-> "New", closing |-> w.closing]

\* The commit.
CommitPersist(p) ==
    LET w == persist[p] IN
    /\ w.pc = "open"
    /\ \E writes \in BOOLEAN :
          /\ w.opp \notin Stored => writes
          /\ opps' = IF writes THEN [opps EXCEPT ![w.opp] = Persisted(w)] ELSE opps
    /\ persist' = [persist EXCEPT ![p].pc = "committed"]
    /\ UNCHANGED <<now, job, signal, halfway, items, sweep, budget>>

\* The transaction of a candidate that united o with another row, the target.
MergeAway(o) ==
    /\ o \in Stored
    /\ opps' = [opps EXCEPT ![o].status = "Duplicate"]
    /\ UNCHANGED <<now, persist, job, signal, halfway, items, sweep, budget>>

\* The hand-over to expiry-check, dropped if the jobId still has a record.
EndPersist(p) ==
    LET w == persist[p]
        k == <<w.opp, w.closing>>
        adds == w.signal # "open" /\ Added(job[k]) # job[k] IN
    /\ w.pc = "committed"
    /\ job' = IF adds THEN [job EXCEPT ![k] = Added(@)] ELSE job
    /\ signal' = IF adds THEN [signal EXCEPT ![k] = w.signal] ELSE signal
    /\ persist' = [persist EXCEPT ![p] = NoWork]
    /\ UNCHANGED <<now, opps, halfway, items, sweep, budget>>

\* The handler dies; its retry starts the transaction again.
PersistRetries(p) ==
    /\ Spend
    /\ persist[p].pc \in {"open", "committed"}
    /\ persist' = [persist EXCEPT ![p].pc = "open"]
    /\ UNCHANGED <<now, opps, job, signal, halfway, items, sweep>>

-----------------------------------------------------------------------------
WithStatus(o, status) == [opps EXCEPT ![o].status = status]

\* Mutation: an attempt that finds the row in review takes the item for filed.
NeedsItemUnlessReviewed(k) == signal[k] = "unknown" /\ opps[k[1]].status # "Needs review"

\* Whether the handler has an insert to make after the update.
NeedsItem(k) == signal[k] = "unknown"

\* An expiry-check handler takes a targeted job and runs its update; for a closed
\* or removed posting that is all, an unknown signal has the insert to go.
ApplySignal(k) ==
    LET o == k[1] IN
    /\ job[k].status = "waiting"
    /\ opps' = WithStatus(o, CASE signal[k] = "closed"  -> "Closed"
                               [] signal[k] = "removed" -> "Removed"
                               [] OTHER -> "Needs review")
    /\ IF NeedsItem(k)
       THEN job' = [job EXCEPT ![k] = Taken(@)] /\ halfway' = halfway \union {k}
       ELSE job' = [job EXCEPT ![k] = Completed(@)] /\ UNCHANGED halfway
    /\ UNCHANGED <<now, persist, signal, items, sweep, budget>>

\* The insert of the review item; an item the attempt before filed stays.
FileItem(k) ==
    /\ k \in halfway
    /\ items' = items \union {k}
    /\ halfway' = halfway \ {k}
    /\ job' = [job EXCEPT ![k] = Completed(@)]
    /\ UNCHANGED <<now, opps, persist, signal, sweep, budget>>

\* The insert fails, before or after it took effect, or its worker dies.
TargetInterrupted(k) ==
    /\ Spend
    /\ k \in halfway
    /\ items' \in {items, items \union {k}}
    /\ halfway' = halfway \ {k}
    /\ job' \in {[job EXCEPT ![k] = Thrown(@)], [job EXCEPT ![k] = Stalled(@)]}
    /\ UNCHANGED <<now, opps, persist, signal, sweep>>

TrimTarget(k) ==
    /\ Spend
    /\ job[k].status = "completed"
    /\ job' = [job EXCEPT ![k] = Evicted(@)]
    /\ items' = items \ {k}   \* the item stays; it belongs to the record that went
    /\ UNCHANGED <<now, opps, persist, signal, halfway, sweep>>

-----------------------------------------------------------------------------
\* Mutation: the two updates filter on the same statuses.
LapsesNewOnly == {"New", "Active"}

\* The statuses the sweep's first update closes.
Lapses == OpenStatuses

\* The statuses the sweep's second update moves to Closing soon.
Soon == {"New", "Active"}

Past(c, t) == c # Never /\ c < t
Near(c, t) == c # Never /\ t <= c /\ c <= t + Horizon

\* The update `set status where status in from and closing_at ...`.
Updated(status, from, Due(_)) ==
    [o \in Opps |-> IF o \in Stored /\ opps[o].status \in from /\ Due(opps[o].closing)
                    THEN [opps[o] EXCEPT !.status = status]
                    ELSE opps[o]]

BeginSweep ==
    /\ sweep = Never
    /\ LET Due(c) == Past(c, now) IN opps' = Updated("Expired", Lapses, Due)
    /\ sweep' = now
    /\ UNCHANGED <<now, persist, job, signal, halfway, items, budget>>

\* The second update still uses the time the handler began with.
EndSweep ==
    /\ sweep # Never
    /\ LET Due(c) == Near(c, sweep) IN opps' = Updated("Closing soon", Soon, Due)
    /\ sweep' = Never
    /\ UNCHANGED <<now, persist, job, signal, halfway, items, budget>>

SweepDies ==
    /\ Spend
    /\ sweep # Never
    /\ sweep' = Never
    /\ UNCHANGED <<now, opps, persist, job, signal, halfway, items>>

Tick ==
    /\ now < MaxTime
    /\ now' = now + 1
    /\ UNCHANGED <<opps, persist, job, signal, halfway, items, sweep, budget>>

PersistStep ==
    \/ \E o \in Opps : MergeAway(o)
    \/ \E p \in Persisters :
        \/ \E o \in Opps, c \in Closings, g \in Signals : BeginPersist(p, o, c, g)
        \/ CommitPersist(p)
        \/ EndPersist(p)
        \/ PersistRetries(p)

TargetStep ==
    \E k \in Keys : ApplySignal(k) \/ FileItem(k) \/ TargetInterrupted(k) \/ TrimTarget(k)

Next ==
    \/ PersistStep
    \/ TargetStep
    \/ BeginSweep \/ EndSweep \/ SweepDies
    \/ Tick

\* The scheduler adds a sweep every hour, and a worker runs what is added.
Spec ==
    /\ Init /\ [][Next]_vars
    /\ WF_vars(BeginSweep) /\ WF_vars(EndSweep)

-----------------------------------------------------------------------------
(***************************************************************************)
(* Properties.                                                             *)
(***************************************************************************)

\* A closure is final: a row the expiry stage or a merge took out of the open
\* statuses is never New, Active or Closing soon again, whatever a persist of the
\* same posting, a late signal or a sweep's second update do to it (expiry.ts,
\* dedup.ts).
ClosureIsFinal ==
    [][\A o \in Stored : opps[o].status \notin OpenStatuses
                            => opps'[o].status \notin OpenStatuses]_vars

\* An ambiguous closure reaches a reviewer: when a targeted job with an unknown
\* signal has completed, its review item is there, although the row's update and
\* the item's insert are separate statements and an attempt may die between
\* them (expiry.ts, applyTargeted; requirement 38.2).
AmbiguousClosureIsFiled ==
    \A k \in Keys : job[k].status = "completed" /\ signal[k] = "unknown" => k \in items

Overdue(o) ==
    o \in Stored /\ opps[o].status \in OpenStatuses /\ Past(opps[o].closing, now)

\* No posting stays open past its date for good: a row whose closing date has
\* passed leaves the open statuses or gets another date (expiry.ts, applySweep).
LapsedRowsExpire == \A o \in Opps : Overdue(o) ~> ~Overdue(o)
=============================================================================
