------------------------------ MODULE Explorer ------------------------------
(***************************************************************************)
(* One user's opportunity list: the list query with its keyset pages       *)
(* (apps/api/src/opportunities), the save and dismiss overlay, and the web *)
(* client's cached pages with optimistic updates                           *)
(* (apps/web/src/lib/api/opportunities.ts, explorer.tsx).                  *)
(*                                                                         *)
(* The list is loaded page by page while the ingestion pipeline inserts    *)
(* and touches rows and another device of the user saves and dismisses.    *)
(* A request is answered from the database in one step and received in     *)
(* another.  Ids are numbers in the order of the uuids; times are the      *)
(* milliseconds of the cursor, which is what the worker writes.  Scalar    *)
(* filters (company, location, dates, ...) are the set of rows a table     *)
(* starts with.                                                            *)
(***************************************************************************)
EXTENDS Naturals, Sequences, FiniteSets

CONSTANTS
    Opps,           \* opportunity ids, numbers
    Tables,         \* tables to start from
    Overlays,       \* overlays to start from
    Sorts,          \* sort keys the user may choose
    Filters,        \* state filters the user may choose
    Muts,           \* clicks on save or dismiss
    Limit,          \* page size
    MaxTouches,     \* bound on what happens outside this browser
    None

UserStates == {"none", "saved", "dismissed"}

\* The columns the list reads: no closing date is None.
Columns == [present : BOOLEAN, seen : Nat, closing : Nat \union {None}, updated : Nat,
            review : BOOLEAN]

Cursors == [v : Nat \union {None}, id : Opps]

ASSUME ExplorerAssumption ==
    /\ Opps \subseteq Nat /\ IsFiniteSet(Opps)
    /\ Tables \subseteq [Opps -> Columns] /\ Overlays \subseteq [Opps -> UserStates]
    /\ Limit \in Nat \ {0} /\ MaxTouches \in Nat
    /\ Sorts \subseteq {"newest", "newlyDiscovered", "closingSoon", "recentlyUpdated"}
    /\ Filters \subseteq {"all", "saved", "dismissed", "needsReview"}
    /\ None \notin Nat \union Cursors

VARIABLES
    row,            \* opportunities
    mine,           \* opportunity_user_state of the user
    view,           \* sort and filter of the URL
    cache,          \* the cached pages of the list
    fetch,          \* the list request in flight
    mut,            \* mutations
    raced,          \* since the list was last loaded afresh: another device wrote, a load
                    \* or a mutation of the same row overlapped a mutation, an answer was
                    \* lost, or a rollback took back more than its own mutation
    mingled,        \* mutations that ran together with another
    touches

vars == <<row, mine, view, cache, fetch, mut, raced, mingled, touches>>

\* from: rows that have matched ever since the first page was read.
NoPages == [loaded |-> FALSE, items |-> <<>>, cursor |-> None, pages |-> 0, from |-> {}]

NoFetch == [pc |-> "idle", want |-> 0, fresh |-> FALSE, clean |-> TRUE, acc |-> NoPages,
            page |-> <<>>, next |-> None]

NewMut == [pc |-> "new", opp |-> None, kind |-> None, prev |-> NoPages, result |-> None]

Init ==
    /\ row \in Tables
    /\ mine \in Overlays
    /\ view \in [sort : Sorts, filter : Filters]
    /\ cache = NoPages
    /\ fetch = NoFetch
    /\ mut = [m \in Muts |-> NewMut]
    /\ raced = FALSE
    /\ mingled = {}
    /\ touches = 0

-----------------------------------------------------------------------------
(* OpportunityRepository.list *)

\* buildFilters: the per-user filters read the overlay, needsReview the status.
Matches(o, table, overlay) ==
    /\ table[o].present
    /\ CASE view.filter \in {"saved", "dismissed"} -> overlay[o] = view.filter
         [] view.filter = "needsReview" -> table[o].review
         [] OTHER -> TRUE

Matching == {o \in Opps : Matches(o, row, mine)}

\* cursorValueForRow: the column a sort key orders by.
SortValue(o) ==
    CASE view.sort = "closingSoon" -> row[o].closing
      [] view.sort = "recentlyUpdated" -> row[o].updated
      [] OTHER -> row[o].seen

\* buildOrderBy.
Precedes(o, p) ==
    LET v == SortValue(o)
        w == SortValue(p)
    IN  IF view.sort = "closingSoon"
        THEN \/ v # None /\ w = None
             \/ v = w /\ o < p
             \/ v # None /\ w # None /\ v < w
        ELSE v > w \/ (v = w /\ o > p)

\* Mutation: the tie on the sort column is not broken by the id.
AfterCursorByValue(o, c) == SortValue(o) < c.v

\* buildKeysetCondition.
AfterCursor(o, c) ==
    LET v == SortValue(o) IN
    IF view.sort = "closingSoon"
    THEN IF c.v = None THEN v = None /\ o < c.id
         ELSE v = None \/ v > c.v \/ (v = c.v /\ o > c.id)
    ELSE v < c.v \/ (v = c.v /\ o < c.id)

\* The row of a set that has n others before it.
Nth(S, n) == CHOOSE o \in S : Cardinality({p \in S : Precedes(p, o)}) = n

\* The rows of the query in order, one more than the page holds.
Rows(c) ==
    LET found == {o \in Matching : c # None => AfterCursor(o, c)}
        n == Cardinality(found)
    IN  [i \in 1..(IF n > Limit THEN Limit + 1 ELSE n) |-> Nth(found, i - 1)]

\* list(): page and cursor.
ListPage(c) ==
    LET rows == Rows(c)
        page == IF Len(rows) > Limit THEN SubSeq(rows, 1, Limit) ELSE rows
        last == page[Len(page)]
    IN  [items |-> [i \in DOMAIN page |-> [id |-> page[i], state |-> mine[page[i]]]],
         next |-> IF Len(rows) > Limit THEN [v |-> SortValue(last), id |-> last] ELSE None]

-----------------------------------------------------------------------------
(* The cached list *)

PendingMuts == {m \in Muts : mut[m].pc \notin {"new", "done"}}

Sends(acc, want) ==
    fetch' = [NoFetch EXCEPT !.pc = "sent", !.want = want, !.acc = acc,
                             !.fresh = (acc = NoPages), !.clean = (PendingMuts = {})]

\* The explorer mounts, or the cached list is invalidated or retried: every
\* page it has is loaded again, each with the cursor of the one before.  A
\* request in flight is dropped.
Refetch ==
    /\ cache.loaded \/ fetch.pc = "idle"
    /\ Sends(NoPages, IF cache.loaded THEN cache.pages ELSE 1)
    /\ UNCHANGED <<row, mine, view, cache, mut, raced, mingled, touches>>

\* "Load more".
FetchNextPage ==
    /\ cache.loaded /\ cache.cursor # None
    /\ fetch.pc = "idle"
    /\ Sends(cache, 1)
    /\ UNCHANGED <<row, mine, view, cache, mut, raced, mingled, touches>>

\* The API answers ...
AnswerList ==
    LET page == ListPage(fetch.acc.cursor) IN
    /\ fetch.pc = "sent"
    /\ fetch' = [fetch EXCEPT !.pc = "answered", !.page = page.items, !.next = page.next,
                              !.acc.from = IF fetch.acc.pages = 0 THEN Matching ELSE @]
    /\ UNCHANGED <<row, mine, view, cache, mut, raced, mingled, touches>>

\* ... and its pages are kept, once all that are wanted are there.
ReceiveList ==
    LET acc == [fetch.acc EXCEPT !.loaded = TRUE, !.items = @ \o fetch.page,
                                 !.cursor = fetch.next, !.pages = @ + 1]
    IN  /\ fetch.pc = "answered"
        /\ IF fetch.want > 1 /\ fetch.next # None
           THEN /\ fetch' = [fetch EXCEPT !.pc = "sent", !.want = @ - 1, !.acc = acc]
                /\ UNCHANGED <<cache, raced>>
           ELSE /\ cache' = acc
                /\ raced' = (~fetch.clean \/ (raced /\ ~fetch.fresh))
                /\ fetch' = NoFetch
        /\ UNCHANGED <<row, mine, view, mut, mingled, touches>>

-----------------------------------------------------------------------------
(* Save and dismiss *)

Goal == [save |-> "saved", unsave |-> "none", dismiss |-> "dismissed", undismiss |-> "none"]

\* busy: a mutation of the row is under way.
Busy(o) == \E m \in PendingMuts : mut[m].opp = o

Shown(o) == {cache.items[i].state : i \in {j \in DOMAIN cache.items : cache.items[j].id = o}}

\* A button of the row that shows the opportunity, or the toast of an earlier
\* save or dismiss, which offers to undo it even while the row is busy.
Offered(o, kind) ==
    LET undoes == IF kind = "unsave" THEN "save" ELSE "dismiss"
    IN  \/ /\ ~Busy(o) /\ Shown(o) # {}
           /\ CASE kind = "save" -> "saved" \notin Shown(o)
                [] kind = "unsave" -> "saved" \in Shown(o)
                [] kind = "dismiss" -> "dismissed" \notin Shown(o)
                [] OTHER -> "dismissed" \in Shown(o)
        \/ /\ kind \in {"unsave", "undismiss"}
           /\ \E m \in Muts : /\ mut[m].pc = "done" /\ mut[m].opp = o
                              /\ mut[m].kind = undoes /\ mut[m].result # None

\* patchCaches.
Patched(pages, o, state) ==
    [pages EXCEPT !.items = [i \in DOMAIN @ |-> IF @[i].id = o THEN [@[i] EXCEPT !.state = state]
                                                ELSE @[i]]]

\* Mutation: requests in flight are not cancelled.
CancelsNothing(f) == f

\* cancelQueries.
Cancelled(f) == NoFetch

\* onMutate: cancel, remember, patch.
Click(m, o, kind) ==
    /\ mut[m].pc = "new"
    /\ Offered(o, kind)
    /\ raced' = (raced \/ Busy(o))
    /\ mingled' = IF PendingMuts = {} THEN mingled ELSE mingled \union PendingMuts \union {m}
    /\ fetch' = Cancelled(fetch)
    /\ mut' = [mut EXCEPT ![m] = [pc |-> "sent", opp |-> o, kind |-> kind, prev |-> cache,
                                  result |-> None]]
    /\ cache' = Patched(cache, o, Goal[kind])
    /\ UNCHANGED <<row, mine, view, touches>>

\* clearUserState.
Cleared(o, kind) ==
    IF mine[o] = (IF kind = "unsave" THEN "saved" ELSE "dismissed")
    THEN [mine EXCEPT ![o] = "none"] ELSE mine

\* Rows that still match after a change of the table or of the overlay.
Still(rows) == {o \in rows : Matches(o, row', mine')}

Follows ==
    /\ cache' = [cache EXCEPT !.from = Still(@)]
    /\ fetch' = [fetch EXCEPT !.acc.from = Still(@)]

\* setUserState, or clearUserState.
Write(m) ==
    LET o == mut[m].opp
        kind == mut[m].kind
    IN  /\ mut[m].pc = "sent"
        /\ mine' = IF kind \in {"save", "dismiss"} THEN [mine EXCEPT ![o] = Goal[kind]]
                   ELSE Cleared(o, kind)
        /\ mut' = [mut EXCEPT ![m].pc = IF kind \in {"save", "dismiss"} THEN "answered"
                                        ELSE "reading",
                              ![m].result = Goal[kind]]
        /\ row' = row
        /\ Follows
        /\ UNCHANGED <<view, raced, mingled, touches>>

\* getUserState, for the answer to an undo.
ReadBack(m) ==
    /\ mut[m].pc = "reading"
    /\ mut' = [mut EXCEPT ![m].pc = "answered", ![m].result = mine[mut[m].opp]]
    /\ UNCHANGED <<row, mine, view, cache, fetch, raced, mingled, touches>>

\* onSuccess.
Succeed(m) ==
    /\ mut[m].pc = "answered"
    /\ cache' = Patched(cache, mut[m].opp, mut[m].result)
    /\ mut' = [mut EXCEPT ![m].pc = "done", ![m].prev = NoPages]
    /\ UNCHANGED <<row, mine, view, fetch, raced, mingled, touches>>

\* onError: the request failed, or its answer was lost.
Fail(m) ==
    /\ m \in PendingMuts
    /\ cache' = [mut[m].prev EXCEPT !.from = @ \cap cache.from]
    /\ raced' = (raced \/ mut[m].pc # "sent" \/ m \in mingled)
    /\ mut' = [mut EXCEPT ![m].pc = "done", ![m].result = None, ![m].prev = NoPages]
    /\ UNCHANGED <<row, mine, view, fetch, mingled, touches>>

-----------------------------------------------------------------------------
(* Elsewhere *)

Elsewhere == touches < MaxTouches /\ touches' = touches + 1

\* Another device of the user.
OtherDevice(o, state) ==
    /\ Elsewhere
    /\ row[o].present
    /\ mine' = [mine EXCEPT ![o] = state]
    /\ row' = row
    /\ raced' = TRUE
    /\ cache' = [cache EXCEPT !.from = Still(@)]
    /\ fetch' = [fetch EXCEPT !.acc.from = Still(@), !.clean = FALSE]
    /\ UNCHANGED <<view, mut, mingled>>

\* The pipeline touches a row: last_updated_at moves on, the status may change.
Touch(o, review) ==
    /\ Elsewhere
    /\ row[o].present
    /\ row' = [row EXCEPT ![o].updated = 1 + Cardinality(Opps) + touches, ![o].review = review]
    /\ mine' = mine
    /\ Follows
    /\ UNCHANGED <<view, mut, raced, mingled>>

\* It inserts one; its first_seen_at may be earlier than the latest.
Insert(o) ==
    /\ Elsewhere
    /\ ~row[o].present
    /\ row' = [row EXCEPT ![o].present = TRUE]
    /\ mine' = mine
    /\ Follows
    /\ UNCHANGED <<view, mut, raced, mingled>>

Next ==
    \/ Refetch \/ FetchNextPage \/ AnswerList \/ ReceiveList
    \/ \E m \in Muts :
         \/ \E o \in Opps, kind \in DOMAIN Goal : Click(m, o, kind)
         \/ Write(m) \/ ReadBack(m) \/ Succeed(m) \/ Fail(m)
    \/ \E o \in Opps :
         \/ \E state \in UserStates : OtherDevice(o, state)
         \/ \E review \in BOOLEAN : Touch(o, review)
         \/ Insert(o)

Spec == Init /\ [][Next]_vars

-----------------------------------------------------------------------------
(* Properties *)

Times(o) == Cardinality({i \in DOMAIN cache.items : cache.items[i].id = o})

AtEnd == cache.loaded /\ cache.cursor = None

\* "End of results" by date of discovery: whatever was inserted and touched
\* between the pages, every opportunity that matched all along is listed, and
\* none twice, also when first_seen_at ties (the keyset condition).
NewestComplete ==
    view.sort \in {"newest", "newlyDiscovered"} =>
        /\ AtEnd => \A o \in cache.from : Times(o) = 1
        /\ \A o \in Opps : Times(o) <= 1

\* However the saves and dismissals of several rows and their answers overlap, and
\* whatever page or reload they cancel, a row nothing is under way on shows the user's
\* own mark, also after the rollback of a mutation that ran alone (cancelQueries before
\* the patch, the rollback to a snapshot, and the reconciliation with the answer).
MarksAgree ==
    ~raced => \A i \in DOMAIN cache.items :
        ~Busy(cache.items[i].id) => cache.items[i].state = mine[cache.items[i].id]

\* Requirement 42.2 for "closing soon": the pages list every opportunity that
\* matched all along.
ClosingSoonComplete ==
    view.sort = "closingSoon" /\ AtEnd => \A o \in cache.from : Times(o) = 1

=============================================================================
