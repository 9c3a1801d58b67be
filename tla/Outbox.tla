------------------------------- MODULE Outbox -------------------------------
(***************************************************************************)
(* The outbox table and its relay (apps/worker/src/stages/outbox.ts), run  *)
(* by a timer in every worker process.  A relay selects the oldest         *)
(* unpublished rows, then dispatches and marks them one by one; it may die *)
(* between any two of these, and another process's relay may hold the same *)
(* rows.  created_at is the start of the writing transaction, so rows do   *)
(* not become visible in the order they are selected in.                   *)
(*                                                                         *)
(* A batch is kept as a set: the next event is an oldest one of it.        *)
(***************************************************************************)
EXTENDS Naturals, FiniteSetsExt

CONSTANTS
    Events,     \* outbox_events rows
    Relays,     \* worker processes
    BatchSize,  \* rows a relay selects at a time
    None,       \* no event
    Losses      \* bound on transactions rolled back and relays that die

ASSUME OutboxAssumption ==
    /\ BatchSize \in Nat \ {0}
    /\ Losses \in Nat
    /\ None \notin Events

VARIABLES
    begun,      \* transactions in the order they began: created_at of their events
    row,        \* "none", "open" in its transaction, "pending" or "published"
    dispatched, \* events the relays have dispatched
    relay,      \* each relay: its batch, the event it dispatched last
    left

outboxVars == <<begun, row, dispatched, relay, left>>

Idle == [batch |-> {}, sent |-> None]

RowStates == {"none", "open", "pending", "published"}

\* Every variable has its type.
TypeOK ==
    /\ begun \in [Events -> Nat]
    /\ row \in [Events -> RowStates]
    /\ dispatched \in SUBSET Events
    /\ relay \in [Relays -> [batch : SUBSET Events, sent : Events \union {None}]]
    /\ left \in 0..Losses

OutboxInit ==
    /\ begun = [e \in Events |-> 0]
    /\ row = [e \in Events |-> "none"]
    /\ dispatched = {}
    /\ relay = [r \in Relays |-> Idle]
    /\ left = Losses

Written == {e \in Events : row[e] \in {"pending", "published"}}

Loses == left > 0 /\ left' = left - 1

-----------------------------------------------------------------------------
\* runDedup opens the transaction that will write event e: created_at is the
\* time of its start (defaultNow() is now(), the time the transaction began).
BeginTransaction(e) ==
    /\ row[e] = "none"
    /\ begun' = [begun EXCEPT ![e] = 1 + Max({begun[f] : f \in Events})]
    /\ row' = [row EXCEPT ![e] = "open"]
    /\ UNCHANGED <<dispatched, relay, left>>

\* It commits; transactions that began earlier may still be open.
Commit(e) ==
    /\ row[e] = "open"
    /\ row' = [row EXCEPT ![e] = "pending"]
    /\ UNCHANGED <<begun, dispatched, relay, left>>

\* It throws, or its worker dies, and nothing of it is left.
RollBack(e) ==
    /\ Loses
    /\ row[e] = "open"
    /\ row' = [row EXCEPT ![e] = "none"]
    /\ UNCHANGED <<begun, dispatched, relay>>

-----------------------------------------------------------------------------
\* Mutation: the relay remembers how far it got instead of reading the flag.
UnpublishedSince ==
    {e \in Events : /\ row[e] = "pending"
                    /\ \A f \in Events : row[f] = "published" => begun[f] <= begun[e]}

\* Where published_at is null.
Unpublished == {e \in Events : row[e] = "pending"}

\* Order by created_at asc, limit n.
Oldest(S, n) ==
    {T \in SUBSET S :
        /\ Cardinality(T) = IF Cardinality(S) < n THEN Cardinality(S) ELSE n
        /\ \A e \in T, f \in S \ T : begun[e] <= begun[f]}

SelectBatch(r) ==
    /\ relay[r] = Idle
    /\ Unpublished # {}
    /\ \E batch \in Oldest(Unpublished, BatchSize) :
          relay' = [relay EXCEPT ![r].batch = batch]
    /\ UNCHANGED <<begun, row, dispatched, left>>

DispatchNext(r) ==
    /\ relay[r].sent = None
    /\ \E e \in relay[r].batch :
          /\ \A f \in relay[r].batch : begun[e] <= begun[f]
          /\ dispatched' = dispatched \union {e}
          /\ relay' = [relay EXCEPT ![r].sent = e]
    /\ UNCHANGED <<begun, row, left>>

\* One row at a time, and whoever else has published the row meanwhile.
MarkPublished(r) ==
    /\ relay[r].sent # None
    /\ row' = [row EXCEPT ![relay[r].sent] = "published"]
    /\ relay' = [relay EXCEPT ![r].batch = @ \ {relay[r].sent}, ![r].sent = None]
    /\ UNCHANGED <<begun, dispatched, left>>

\* The process dies, or an update fails and the job throws.
LosesBatch(r) ==
    /\ Loses
    /\ relay[r] # Idle
    /\ relay' = [relay EXCEPT ![r] = Idle]
    /\ UNCHANGED <<begun, row, dispatched>>

RelayStep(r) == SelectBatch(r) \/ DispatchNext(r) \/ MarkPublished(r)

OutboxNext ==
    \/ \E e \in Events : BeginTransaction(e) \/ Commit(e) \/ RollBack(e)
    \/ \E r \in Relays : RelayStep(r) \/ LosesBatch(r)

\* Every worker process has a timer that adds a relay job every ten seconds, and
\* runs what is added; a transaction may stay open for good.
OutboxSpec ==
    /\ OutboxInit /\ [][OutboxNext]_outboxVars
    /\ \A r \in Relays : WF_outboxVars(RelayStep(r))

-----------------------------------------------------------------------------
\* The outbox delivers what EventStream promises: every committed event is
\* dispatched at least once, whatever order transactions commit in, whichever
\* relay dies when, and no event of an open transaction is (outbox.ts, "we only
\* mark published AFTER a successful dispatch, so a crash re-delivers").
Promise == INSTANCE EventStream WITH committed <- Written

DeliversAtLeastOnce == Promise!Spec
=============================================================================
