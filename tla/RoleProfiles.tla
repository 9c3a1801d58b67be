---------------------------- MODULE RoleProfiles ----------------------------
(***************************************************************************)
(* The role profiles of one user and the idempotency interceptor in front  *)
(* of them (apps/api/src/role-profiles, apps/api/src/common/idempotency).  *)
(*                                                                         *)
(* Every await of RoleProfilesService is a step.  A transaction is split   *)
(* where another one may commit between its statements: the count before   *)
(* the insert of a new profile, and the update of a profile, whose first   *)
(* statement locks the row until the commit.  The process may die between  *)
(* any two steps: open transactions roll back and the idempotency records, *)
(* which live in its memory, are gone.                                     *)
(*                                                                         *)
(* Ids are numbers in the order of creation.  A profile's child tables are *)
(* two of the four, titles and skills, each a set of rows; a request body  *)
(* gives each collection one row.  Names, salary and work rights are       *)
(* columns nothing decides on.                                             *)
(***************************************************************************)
EXTENDS Naturals, FiniteSets, FiniteSetsExt

CONSTANTS
    Profiles,       \* ids of role_profiles rows, numbers
    Bodies,         \* payloads of create and update
    Keys,           \* Idempotency-Key values, of creates
    Requests,
    Existing,       \* profiles at the start
    MaxDeaths,      \* bound on deaths of the process
    None

\* An idempotency record: its fingerprint is the payload it was reserved with, its
\* response is told by the payload of the request that was answered.  None stands for
\* the absence of a record, or of a response.
Record == [state : {"in_flight", "completed"}, body : Bodies, response : Bodies \cup {None}]

ASSUME ProfilesAssumption ==
    /\ Profiles \subseteq Nat /\ IsFiniteSet(Profiles)
    /\ Existing \subseteq Profiles
    /\ MaxDeaths \in Nat
    /\ None \notin Profiles \cup Keys \cup Requests \cup Bodies \cup Record

VARIABLES
    profile,        \* role_profiles rows with their children
    active,         \* user_preferences.active_role_profile_id
    lock,           \* the update holding a profile's row
    req,            \* handlers
    store,          \* InMemoryIdempotencyStore
    deaths,         \* of the process, so far
    overlapped,     \* two mutations ran at once, or one died or failed halfway
    excused,        \* keys whose record was dropped: expired, or lost in a death,
                    \* or released by an error after the commit
    overran         \* keys whose record expired before its request had answered

vars == <<profile, active, lock, req, store, deaths, overlapped, excused, overran>>

\* by: the key a profile was created under.
Row == [state : {"none", "live", "deleted"}, status : {"active", "paused"},
        titles : SUBSET Bodies, skills : SUBSET Bodies, by : Keys \cup {None}]

Ops == {"create", "update", "delete", "activate", "duplicate", "pause", "resume", "wipe"}

Pcs == {"new", "start", "insert", "commit", "deleting", "list", "replace", "reactivate",
        "titles", "skills", "count", "instead", "clear", "status", "detail", "done"}

Request == [pc : Pcs, op : Ops \cup {None}, id : Profiles \cup {None},
            other : Profiles \cup {None}, key : Keys \cup {None},
            body : Bodies \cup {None}, flag : BOOLEAN, titles : SUBSET Bodies,
            skills : SUBSET Bodies, answer : {"none", "error", "ok", "replay"},
            replayed : Bodies \cup {None}]

NewRequest == [pc |-> "new", op |-> None, id |-> None, other |-> None, key |-> None,
               body |-> None, flag |-> FALSE, titles |-> {}, skills |-> {},
               answer |-> "none", replayed |-> None]

NewRow(titles, skills, key) ==
    [state |-> "live", status |-> "active", titles |-> titles, skills |-> skills, by |-> key]

Init ==
    /\ profile = [p \in Profiles |->
                    [NewRow({}, {}, None) EXCEPT !.state = IF p \in Existing THEN "live" ELSE "none"]]
    /\ active = IF Existing = {} THEN None ELSE Min(Existing)
    /\ lock = [p \in Profiles |-> None]
    /\ req = [r \in Requests |-> NewRequest]
    /\ store = [k \in Keys |-> None]
    /\ deaths = 0
    /\ overlapped = FALSE
    /\ excused = {}
    /\ overran = {}

Live == {p \in Profiles : profile[p].state = "live"}
Unlocked(p) == lock[p] = None
Running == {r \in Requests : req[r].pc \notin {"new", "done"}}

-----------------------------------------------------------------------------
(* The interceptor *)

\* Mutation: a record in flight does not stop a second request.
ReservesUnlessCompleted(k) == store[k] # None => store[k].state = "in_flight"

\* reserve(): the slot is free.
Reserves(k) == store[k] = None

\* A record whose response answers this request.
Replays(k, body) == store[k] # None /\ store[k].state = "completed" /\ store[k].body = body

\* A request without a key, or with one that is free, reaches its handler.
Start(r, op, id, other, key, body) ==
    /\ req[r].pc = "new"
    /\ key # None => Reserves(key)
    /\ store' = IF key = None THEN store
                ELSE [store EXCEPT ![key] = [state |-> "in_flight", body |-> body,
                                             response |-> None]]
    /\ req' = [req EXCEPT ![r] = [NewRequest EXCEPT !.pc = "start", !.op = op, !.id = id,
                                    !.other = other, !.key = key, !.body = body]]
    /\ overlapped' = (overlapped \/ Running # {})
    /\ UNCHANGED <<profile, active, lock, deaths, excused, overran>>

\* The captured response is replayed ...
Replay(r, key, body) ==
    /\ req[r].pc = "new"
    /\ ~Reserves(key) /\ Replays(key, body)
    /\ req' = [req EXCEPT ![r] = [NewRequest EXCEPT !.pc = "done", !.answer = "replay",
                                    !.key = key, !.body = body,
                                    !.replayed = store[key].response]]
    /\ UNCHANGED <<profile, active, lock, store, deaths, overlapped, excused, overran>>

\* ... or the request is a conflict, in flight or with another payload.
Conflict(r, key, body) ==
    /\ req[r].pc = "new"
    /\ ~Reserves(key) /\ ~Replays(key, body)
    /\ req' = [req EXCEPT ![r] = [NewRequest EXCEPT !.pc = "done", !.answer = "error"]]
    /\ UNCHANGED <<profile, active, lock, store, deaths, overlapped, excused, overran>>

Over(r, answer) ==
    [req EXCEPT ![r] = [NewRequest EXCEPT !.pc = "done", !.answer = answer]]

\* complete(): the record there is, whoever reserved it, keeps its fingerprint and takes
\* this response.
Completed(k, response) ==
    IF k = None \/ store[k] = None THEN store
    ELSE [store EXCEPT ![k] = [state |-> "completed", body |-> store[k].body,
                               response |-> response]]

\* The handler returns.
Succeeds(r) ==
    /\ req' = Over(r, "ok")
    /\ store' = Completed(req[r].key, req[r].body)
    /\ UNCHANGED <<deaths, overlapped, excused, overran>>

\* The handler throws: release() drops the record there is.
Fails(r) ==
    LET k == req[r].key IN
    /\ req' = Over(r, "error")
    /\ store' = IF k = None THEN store ELSE [store EXCEPT ![k] = None]
    /\ overlapped' = (overlapped \/ req[r].pc \in {"replace", "status", "detail"})
    /\ excused' = IF k # None /\ req[r].pc = "detail" THEN excused \cup {k} ELSE excused
    /\ UNCHANGED <<deaths, overran>>

\* On to the next await of the handler.
Goes(r, request) ==
    req' = [req EXCEPT ![r] = request] /\ UNCHANGED <<store, deaths, overlapped, excused, overran>>

Next1(r, pc) == Goes(r, [req[r] EXCEPT !.pc = pc])

At(r, pc, op) == req[r].pc = pc /\ req[r].op = op

-----------------------------------------------------------------------------
(* RoleProfileRepository *)

Fresh == Min({p \in Profiles : profile[p].state = "none"})

HasRoom == \E p \in Profiles : profile[p].state = "none"

\* createWithChildren counts ...
CreateCounts(r) ==
    /\ At(r, "start", "create") \/ At(r, "count", "duplicate")
    /\ Goes(r, [req[r] EXCEPT !.pc = "insert", !.flag = (Live = {})])
    /\ UNCHANGED <<profile, active, lock>>

\* ... and inserts; the first profile becomes the active one.
CreateInserts(r) ==
    LET p == Fresh IN
    /\ req[r].pc = "insert"
    /\ HasRoom
    /\ profile' = [profile EXCEPT ![p] =
         IF req[r].op = "create" THEN NewRow({req[r].body}, {req[r].body}, req[r].key)
         ELSE NewRow(req[r].titles, req[r].skills, None)]
    /\ active' = IF req[r].flag THEN p ELSE active
    /\ Goes(r, [req[r] EXCEPT !.pc = "detail", !.id = p])
    /\ UNCHANGED lock

\* Mutation: the children are written without updating the profile's row first.
LocksNothing(p, r) == lock

Locks(p, r) == [lock EXCEPT ![p] = r]

\* updateWithChildren finds the profile, updates its row, which stays locked, and
\* deletes the child rows it sees ...
UpdateLocks(r) ==
    LET p == req[r].id IN
    /\ At(r, "start", "update")
    /\ Unlocked(p)
    /\ p \in Live
    /\ lock' = Locks(p, r)
    /\ Goes(r, [req[r] EXCEPT !.pc = "commit", !.titles = profile[p].titles,
                              !.skills = profile[p].skills])
    /\ UNCHANGED <<profile, active>>

\* ... then inserts its own and commits.
UpdateCommits(r) ==
    LET p == req[r].id IN
    /\ req[r].pc = "commit"
    /\ profile' = [profile EXCEPT ![p].titles = (@ \ req[r].titles) \cup {req[r].body},
                                  ![p].skills = (@ \ req[r].skills) \cup {req[r].body}]
    /\ lock' = [lock EXCEPT ![p] = None]
    /\ Next1(r, "detail")
    /\ UNCHANGED active

\* Mutation: the foreign key of the active pointer does nothing on delete.
PointerKept(gone) == active

\* onDelete: 'set null' of active_role_profile_id.
PointerWithout(gone) == IF active \in gone THEN None ELSE active

Deleted(gone) ==
    [p \in Profiles |-> IF p \in gone THEN [profile[p] EXCEPT !.state = "deleted"]
                                      ELSE profile[p]]

\* activateOwned: row and pointer in one transaction.
Activated(p) ==
    /\ profile' = [profile EXCEPT ![p].status = "active"]
    /\ active' = p

\* setStatus of a profile that is there.
StatusSet(p, status) == profile' = [profile EXCEPT ![p].status = status]

-----------------------------------------------------------------------------
(* RoleProfilesService *)

\* Not found: update, activate, resume, or the source of a duplicate.
NotFound(r) ==
    /\ req[r].pc = "start"
    /\ req[r].op \in {"update", "activate", "resume", "duplicate"}
    /\ req[r].id \notin Live
    /\ Fails(r)
    /\ UNCHANGED <<profile, active, lock>>

\* getDetail, the last thing most handlers do.
Detail(r) ==
    /\ req[r].pc = "detail"
    /\ IF req[r].id \in Live THEN Succeeds(r) ELSE Fails(r)
    /\ UNCHANGED <<profile, active, lock>>

Activate(r) ==
    LET p == req[r].id IN
    /\ At(r, "start", "activate")
    /\ p \in Live /\ Unlocked(p)
    /\ Activated(p)
    /\ Next1(r, "detail")
    /\ UNCHANGED lock

Resume(r) ==
    LET p == req[r].id IN
    /\ At(r, "start", "resume")
    /\ p \in Live /\ Unlocked(p)
    /\ StatusSet(p, "active")
    /\ Next1(r, "detail")
    /\ UNCHANGED <<active, lock>>

\* delete: the pointer is read ...
DeleteReads(r) ==
    /\ At(r, "start", "delete")
    /\ Goes(r, [req[r] EXCEPT !.pc = "deleting", !.flag = (active = req[r].id)])
    /\ UNCHANGED <<profile, active, lock>>

\* ... the row deleted, which clears the pointer ...
DeleteDeletes(r) ==
    LET p == req[r].id IN
    /\ req[r].pc = "deleting"
    /\ Unlocked(p)
    /\ IF p \in Live
       THEN /\ profile' = Deleted({p})
            /\ active' = PointerWithout({p})
            /\ IF req[r].flag THEN Next1(r, "list") ELSE Succeeds(r)
       ELSE Fails(r) /\ UNCHANGED <<profile, active>>
    /\ UNCHANGED lock

\* The newest profile that is not paused, or else the newest.
Replacement ==
    LET eligible == {p \in Live : profile[p].status = "active"}
    IN  IF eligible # {} THEN Max(eligible) ELSE Max(Live)

\* ... the others listed, and a replacement chosen ...
DeleteLists(r) ==
    /\ req[r].pc = "list"
    /\ IF Live = {} THEN Succeeds(r)
       ELSE Goes(r, [req[r] EXCEPT !.pc = "replace", !.other = Replacement,
                                   !.flag = (profile[Replacement].status = "active")])
    /\ UNCHANGED <<profile, active, lock>>

\* ... the pointer set, which fails if the replacement is gone ...
DeleteReplaces(r) ==
    /\ req[r].pc = "replace"
    /\ IF req[r].other \in Live
       THEN /\ active' = req[r].other
            /\ IF req[r].flag THEN Succeeds(r) ELSE Next1(r, "reactivate")
       ELSE Fails(r) /\ UNCHANGED active
    /\ UNCHANGED <<profile, lock>>

\* ... and the replacement resumed if it was paused.
DeleteReactivates(r) ==
    LET p == req[r].other IN
    /\ req[r].pc = "reactivate"
    /\ Unlocked(p)
    /\ IF p \in Live THEN StatusSet(p, "active") ELSE UNCHANGED profile
    /\ Succeeds(r)
    /\ UNCHANGED <<active, lock>>

\* duplicate: findHydratedForOwner reads the row, then each child table.
DuplicateFinds(r) ==
    /\ At(r, "start", "duplicate")
    /\ req[r].id \in Live
    /\ Next1(r, "titles")
    /\ UNCHANGED <<profile, active, lock>>

\* The children of a profile that is still there.
Children(p, rows) == IF p \in Live THEN rows ELSE {}

DuplicateReadsTitles(r) ==
    LET p == req[r].id IN
    /\ req[r].pc = "titles"
    /\ Goes(r, [req[r] EXCEPT !.pc = "skills",
                              !.titles = Children(p, profile[p].titles)])
    /\ UNCHANGED <<profile, active, lock>>

DuplicateReadsSkills(r) ==
    LET p == req[r].id IN
    /\ req[r].pc = "skills"
    /\ Goes(r, [req[r] EXCEPT !.pc = "count",
                              !.skills = Children(p, profile[p].skills)])
    /\ UNCHANGED <<profile, active, lock>>

\* The active profile may be paused if it is the only one or another was named.
PauseAllowed(r) ==
    Live \ {req[r].id} = {} \/ req[r].other \notin {None, req[r].id}

\* Mutation: the active profile is paused like any other.
PausesAny(r) == FALSE

PausesActive(r) == active = req[r].id

\* pause: is it the active profile?
PauseReads(r) ==
    /\ At(r, "start", "pause")
    /\ Next1(r, IF PausesActive(r) THEN "instead" ELSE "status")
    /\ UNCHANGED <<profile, active, lock>>

\* The other profiles are listed: none, or one to activate instead.
PauseLists(r) ==
    /\ req[r].pc = "instead"
    /\ ~req[r].flag
    /\ IF ~PauseAllowed(r) THEN Fails(r)
       ELSE IF Live \ {req[r].id} = {} THEN Next1(r, "clear")
       ELSE Goes(r, [req[r] EXCEPT !.flag = TRUE])
    /\ UNCHANGED <<profile, active, lock>>

\* activateOwned of the replacement.
PauseActivates(r) ==
    LET p == req[r].other IN
    /\ req[r].pc = "instead"
    /\ req[r].flag
    /\ Unlocked(p)
    /\ IF p \in Live THEN Activated(p) /\ Next1(r, "status")
                     ELSE Fails(r) /\ UNCHANGED <<profile, active>>
    /\ UNCHANGED lock

\* The only profile: the pointer is cleared.
PauseClears(r) ==
    /\ req[r].pc = "clear"
    /\ active' = None
    /\ Next1(r, "status")
    /\ UNCHANGED <<profile, lock>>

PauseSets(r) ==
    LET p == req[r].id IN
    /\ req[r].pc = "status"
    /\ Unlocked(p)
    /\ IF p \in Live THEN StatusSet(p, "paused") /\ Next1(r, "detail")
                     ELSE Fails(r) /\ UNCHANGED profile
    /\ UNCHANGED <<active, lock>>

\* The role_profiles category of delete-data.
Wipe(r) ==
    /\ At(r, "start", "wipe")
    /\ \A p \in Live : Unlocked(p)
    /\ profile' = Deleted(Live)
    /\ active' = None
    /\ Succeeds(r)
    /\ UNCHANGED lock

-----------------------------------------------------------------------------
(* Faults and time *)

\* prune(), at the next reserve(): a record is dropped ten minutes after it was written,
\* whether its request has answered or not.
Expires(k) ==
    /\ store[k] # None
    /\ store' = [store EXCEPT ![k] = None]
    /\ excused' = excused \cup {k}
    /\ overran' = IF store[k].state = "in_flight" THEN overran \cup {k} ELSE overran
    /\ UNCHANGED <<profile, active, lock, req, deaths, overlapped>>

\* The process dies and comes back.
Dies ==
    /\ deaths < MaxDeaths
    /\ Running # {}
    /\ deaths' = deaths + 1
    /\ req' = [r \in Requests |-> IF r \in Running
                 THEN [NewRequest EXCEPT !.pc = "done", !.answer = "error"] ELSE req[r]]
    /\ lock' = [p \in Profiles |-> None]
    /\ store' = [k \in Keys |-> None]
    /\ excused' = excused \cup {k \in Keys : store[k] # None}
    /\ overlapped' = TRUE
    /\ UNCHANGED <<profile, active, overran>>

Step(r) ==
    \/ CreateCounts(r) \/ CreateInserts(r)
    \/ UpdateLocks(r) \/ UpdateCommits(r)
    \/ NotFound(r) \/ Detail(r) \/ Activate(r) \/ Resume(r)
    \/ DeleteReads(r) \/ DeleteDeletes(r) \/ DeleteLists(r)
    \/ DeleteReplaces(r) \/ DeleteReactivates(r)
    \/ DuplicateFinds(r) \/ DuplicateReadsTitles(r) \/ DuplicateReadsSkills(r)
    \/ PauseReads(r) \/ PauseLists(r) \/ PauseActivates(r) \/ PauseClears(r)
    \/ PauseSets(r)
    \/ Wipe(r)

Arrival(r) ==
    \/ \E k \in Keys, c \in Bodies :
         Start(r, "create", None, None, k, c) \/ Replay(r, k, c) \/ Conflict(r, k, c)
    \/ \E c \in Bodies : Start(r, "create", None, None, None, c)
    \/ Start(r, "wipe", None, None, None, None)
    \/ \E p \in Profiles :
         /\ profile[p].state # "none"
         /\ \/ \E c \in Bodies : Start(r, "update", p, None, None, c)
            \/ \E op \in {"delete", "activate", "duplicate", "resume"} :
                 Start(r, op, p, None, None, None)
            \/ \E q \in Live \cup {None} : Start(r, "pause", p, q, None, None)

Next ==
    \/ \E r \in Requests : Step(r) \/ Arrival(r)
    \/ \E k \in Keys : Expires(k)
    \/ Dies

Spec == Init /\ [][Next]_vars

-----------------------------------------------------------------------------
(* Properties *)

\* Rows, requests and records have their types; a pause that activates another
\* profile has one that is not the one it pauses.
TypeOK ==
    /\ profile \in [Profiles -> Row]
    /\ active \in Profiles \cup {None}
    /\ lock \in [Profiles -> Requests \cup {None}]
    /\ req \in [Requests -> Request]
    /\ \A r \in Requests :
         req[r].pc = "instead" /\ req[r].flag => req[r].other \in Profiles \ {req[r].id}
    /\ store \in [Keys -> Record \cup {None}]
    /\ deaths \in 0..MaxDeaths
    /\ overlapped \in BOOLEAN
    /\ excused \subseteq Keys
    /\ overran \subseteq Keys

\* A key creates one profile: a duplicate sent while the first is running,
\* or after it, is a conflict or a replay (until the record is dropped).
KeyCreatesOnce ==
    \A p, q \in Profiles :
        profile[p].by # None /\ profile[p].by = profile[q].by /\ p # q
            => profile[p].by \in excused

\* A replayed response is a response to the same payload, whatever duplicates, errors,
\* expiries and deaths came before: complete() and release() are called by key and
\* touch the record of the request that calls them.  Only a request that runs for
\* longer than its record is kept may answer the next one's key with its own response.
ReplayIsOwn ==
    \A r \in Requests :
        req[r].answer = "replay" /\ req[r].key \notin overran
            => req[r].replayed = req[r].body

\* Concurrent edits of a profile never mix: each collection is what one
\* request wrote (the row lock taken before the child rows are replaced).
CollectionsWhole ==
    \A p \in Profiles : Cardinality(profile[p].titles) <= 1 /\ Cardinality(profile[p].skills) <= 1

\* However deletions, pauses and activations interleave, the active pointer is
\* never left on a profile that is gone.
ActiveExists == active # None => active \in Live

\* When handlers ran one at a time and to their end, the active profile is
\* not a paused one.
AloneActiveEligible ==
    ~overlapped /\ Running = {} /\ active # None => profile[active].status = "active"


=============================================================================
