-------------------------- MODULE RoleProfilesProofs --------------------------
(***************************************************************************)
(* A key creates one profile and replays its own response, edits of a      *)
(* profile do not mix, the active pointer is never left on a profile that  *)
(* is gone, nor, when handlers run one at a time, on a paused one: for any *)
(* profiles, requests, keys, payloads and deaths.                          *)
(***************************************************************************)
EXTENDS RoleProfiles, FiniteSetTheorems, TLAPS

\* The operation of a handler by the await it is at.
Belongs(op, pc) ==
    /\ op \in Ops
    /\ pc = "insert" => op \in {"create", "duplicate"}
    /\ pc = "commit" => op = "update"
    /\ pc \in {"deleting", "list", "replace", "reactivate"} => op = "delete"
    /\ pc \in {"titles", "skills", "count"} => op = "duplicate"
    /\ pc \in {"instead", "clear", "status"} => op = "pause"

\* A collection of at most one row.
Whole(rows) == \A a, b \in rows : a = b

\* What a running handler has in its hands: only a create has a key, and the others
\* but wipe have a profile.
HandlerOK(q) ==
    /\ Belongs(q.op, q.pc)
    /\ q.op # "create" => q.key = None
    /\ q.op \in {"create", "update"} => q.body \in Bodies
    /\ q.op \notin {"create", "wipe"} => q.id \in Profiles
    /\ q.pc = "detail" => q.id \in Profiles
    /\ q.pc = "start" => ~q.flag
    /\ q.pc \in {"replace", "reactivate"} => q.other \in Profiles
    /\ q.pc = "instead" /\ q.flag => q.other \in Profiles \ {q.id}

Control == \A r \in Running : HandlerOK(req[r])

\* Every profile a handler deals with was inserted, and a collection is one writer's.
Rows ==
    /\ \A r \in Running : req[r].id # None => profile[req[r].id].state # "none"
    /\ \A p \in Profiles : Whole(profile[p].titles) /\ Whole(profile[p].skills)
    /\ \A r \in Requests : Whole(req[r].titles) /\ Whole(req[r].skills)

\* The row an update has locked is its own until it commits: the children are still
\* those it is about to delete.
Locked ==
    \A r \in Requests : req[r].pc = "commit" =>
        LET p == req[r].id IN
        /\ lock[p] = r
        /\ profile[p].titles = req[r].titles /\ profile[p].skills = req[r].skills

\* A handler's key has the handler's own record in flight, and no other handler has
\* the key, unless the record expired before the handler answered ...
Reserved ==
    \A r \in Running : LET k == req[r].key IN
        k # None /\ k \notin overran =>
            /\ store[k] # None /\ store[k].state = "in_flight" /\ store[k].body = req[r].body
            /\ \A s \in Running : req[s].key = k => s = r

\* ... so that the response a record ends with is that of its own request.
Answers ==
    \A k \in Keys : k \notin overran /\ store[k] # None /\ store[k].state = "completed"
        => store[k].response = store[k].body

StoreInv == overran \subseteq excused /\ Reserved /\ Answers

\* The key of a profile stays taken: by a record, and by no handler that has yet to
\* insert.
Taken ==
    \A p \in Profiles : LET k == profile[p].by IN
        k # None /\ k \notin excused =>
            /\ store[k] # None
            /\ \A r \in Running : req[r].key = k => req[r].pc = "detail"

\* Handlers that run alone: the pointer is on a profile that is not paused, but for
\* the moment between pointing to a paused one and resuming it.
Eligible == active # None => profile[active].status = "active"

\* What a handler that runs alone has seen to before its next await.
Fine(r) ==
    LET q == req[r] IN
    /\ q.pc = "replace" => (q.flag <=> profile[q.other].status = "active")
    /\ q.pc = "reactivate" => active = q.other
    /\ q.pc = "status" => active # q.id
    /\ q.pc # "reactivate" => Eligible

Alone ==
    ~overlapped =>
        /\ \A r, s \in Running : r = s
        /\ \A r \in Running : Fine(r)
        /\ Running = {} => Eligible

TypeInv == TypeOK /\ Control

-----------------------------------------------------------------------------
(* The least and the greatest of a set *)

\* A nonempty set of naturals has a least element ...
LEMMA MinIsLeast ==
    ASSUME NEW S \in SUBSET Nat, S # {}
    PROVE  Min(S) \in S /\ \A n \in S : Min(S) <= n
<1> DEFINE Below(m) == {n \in S : n <= m}
           Families == {Below(m) : m \in S}
<1>1. \A m \in S : Below(m) \in FiniteSubsetsOf(Nat)
  <2> SUFFICES ASSUME NEW m \in S PROVE Below(m) \in FiniteSubsetsOf(Nat)
    OBVIOUS
  <2>1. IsFiniteSet(Below(m))
    BY FS_BoundedSetOfNaturals
  <2>2. QED
    BY <2>1 DEF FiniteSubsetsOf
<1>2. Families \subseteq FiniteSubsetsOf(Nat) /\ Families # {}
  BY <1>1
<1>3. PICK T \in Families : \A U \in Families : <<U, T>> \notin StrictSubsetOrdering(Nat)
  BY <1>2, WFMin, FS_StrictSubsetOrderingWellFounded
<1>4. PICK m \in S : T = Below(m)
  BY <1>3
<1>5. \A n \in S : m <= n
  <2> SUFFICES ASSUME NEW n \in S, n < m PROVE FALSE
    OBVIOUS
  <2>1. ASSUME NEW k \in Below(n) PROVE k \in Below(m)
    <3>1. k \in Nat /\ n \in Nat /\ m \in Nat /\ k \in S
      OBVIOUS
    <3>2. QED
      BY <3>1
  <2>2. m \in Below(m) /\ m \notin Below(n)
    OBVIOUS
  <2>3. <<Below(n), Below(m)>> \in StrictSubsetOrdering(Nat)
    BY <2>1, <2>2 DEF StrictSubsetOrdering
  <2>4. QED
    BY <1>3, <1>4, <2>3
<1>6. QED
  BY <1>5 DEF Min

\* ... and a finite one a greatest.
LEMMA MaxIsGreatest ==
    ASSUME NEW S \in SUBSET Nat, S # {}, IsFiniteSet(S)
    PROVE  Max(S) \in S /\ \A n \in S : Max(S) >= n
<1> DEFINE Above(m) == {n \in S : n >= m}
           Families == {Above(m) : m \in S}
<1>1. Families \subseteq FiniteSubsetsOf(Nat) /\ Families # {}
  <2> SUFFICES ASSUME NEW m \in S PROVE Above(m) \in FiniteSubsetsOf(Nat)
    OBVIOUS
  <2>1. IsFiniteSet(Above(m))
    BY FS_Subset
  <2>2. QED
    BY <2>1 DEF FiniteSubsetsOf
<1>2. PICK T \in Families : \A U \in Families : <<U, T>> \notin StrictSubsetOrdering(Nat)
  BY <1>1, WFMin, FS_StrictSubsetOrderingWellFounded
<1>3. PICK m \in S : T = Above(m)
  BY <1>2
<1>4. \A n \in S : m >= n
  <2> SUFFICES ASSUME NEW n \in S, n > m PROVE FALSE
    OBVIOUS
  <2>1. ASSUME NEW k \in Above(n) PROVE k \in Above(m)
    <3>1. k \in Nat /\ n \in Nat /\ m \in Nat /\ k \in S
      OBVIOUS
    <3>2. QED
      BY <3>1
  <2>2. m \in Above(m) /\ m \notin Above(n)
    OBVIOUS
  <2>3. <<Above(n), Above(m)>> \in StrictSubsetOrdering(Nat)
    BY <2>1, <2>2 DEF StrictSubsetOrdering
  <2>4. QED
    BY <1>2, <1>3, <2>3
<1>5. QED
  BY <1>4 DEF Max

\* The id of a new row is that of no row.
LEMMA FreshIsFree ==
    ASSUME TypeOK, HasRoom
    PROVE  Fresh \in Profiles /\ profile[Fresh].state = "none"
BY MinIsLeast, ProfilesAssumption DEF Fresh, HasRoom

\* A profile that replaces the active one is there.
LEMMA ReplacementIsLive ==
    ASSUME TypeOK, Live # {}
    PROVE  Replacement \in Live
<1> DEFINE eligible == {p \in Live : profile[p].status = "active"}
<1>1. Live \subseteq Nat /\ IsFiniteSet(Live)
  BY FS_Subset, ProfilesAssumption DEF Live
<1>2. eligible \subseteq Nat /\ IsFiniteSet(eligible)
  BY <1>1, FS_Subset
<1>3. Max(Live) \in Live
  BY <1>1, MaxIsGreatest
<1>4. eligible # {} => Max(eligible) \in Live
  BY <1>2, MaxIsGreatest
<1>5. QED
  BY <1>3, <1>4 DEF Replacement

-----------------------------------------------------------------------------
(* Types and control *)

LEMMA TypeInit == Init => TypeInv
<1> SUFFICES ASSUME Init PROVE TypeInv
  OBVIOUS
<1>1. active \in Profiles \cup {None}
  BY MinIsLeast, ProfilesAssumption DEF Init
<1>2. profile \in [Profiles -> Row]
  BY DEF Init, NewRow, Row
<1>3. NewRequest \in Request /\ NewRequest.pc = "new"
  BY DEF NewRequest, Request, Pcs
<1>4. req = [r \in Requests |-> NewRequest] /\ Running = {}
  BY <1>3 DEF Init, Running
<1>5. /\ req \in [Requests -> Request]
      /\ \A r \in Requests : req[r].pc # "instead"
  BY <1>3, <1>4
<1>6. lock \in [Profiles -> Requests \cup {None}] /\ store \in [Keys -> Record \cup {None}]
  BY DEF Init
<1>7. /\ deaths \in 0..MaxDeaths /\ overlapped \in BOOLEAN
      /\ excused \subseteq Keys /\ overran \subseteq Keys
  <2>1. deaths = 0 /\ overlapped = FALSE /\ excused = {} /\ overran = {}
    BY DEF Init
  <2>2. deaths \in 0..MaxDeaths
    BY <2>1, ProfilesAssumption
  <2>3. QED
    BY <2>1, <2>2
<1>8. QED
  BY <1>1, <1>2, <1>4, <1>5, <1>6, <1>7 DEF TypeInv, TypeOK, Control

\* What a handler may change of its request.
LEMMA FlagSet ==
    ASSUME NEW q \in Request, NEW pc \in Pcs, NEW flag \in BOOLEAN
    PROVE  [q EXCEPT !.pc = pc, !.flag = flag] \in Request
BY DEF Request

LEMMA RowsRead ==
    ASSUME NEW q \in Request, NEW pc \in Pcs,
           NEW titles \in SUBSET Bodies, NEW skills \in SUBSET Bodies
    PROVE  [q EXCEPT !.pc = pc, !.titles = titles, !.skills = skills] \in Request
BY DEF Request

\* A handler goes on with what it has read and written.
LEMMA GoesOn ==
    ASSUME TypeInv, NEW r \in Requests, NEW q \in Request, HandlerOK(q), Goes(r, q),
           profile' \in [Profiles -> Row], active' \in Profiles \cup {None},
           lock' \in [Profiles -> Requests \cup {None}]
    PROVE  TypeInv'
<1>1. req' = [req EXCEPT ![r] = q] /\ req' \in [Requests -> Request]
  BY DEF TypeInv, TypeOK, Goes
<1>2. \A s \in Requests \ {r} : req'[s] = req[s]
  BY <1>1 DEF TypeInv, TypeOK
<1>3. req'[r] = q
  BY <1>1 DEF TypeInv, TypeOK
<1>4. ASSUME NEW s \in Requests, req'[s].pc = "instead", req'[s].flag
      PROVE  req'[s].other \in Profiles \ {req'[s].id}
  BY <1>2, <1>3, <1>4 DEF TypeInv, TypeOK, HandlerOK
<1>5. Control'
  <2> SUFFICES ASSUME NEW s \in Running' PROVE HandlerOK(req'[s])
    BY DEF Control
  <2>1. CASE s = r
    BY <2>1, <1>3
  <2>2. CASE s # r
    <3>1. s \in Running /\ req'[s] = req[s]
      BY <2>2, <1>2 DEF Running
    <3>2. QED
      BY <3>1 DEF TypeInv, Control
  <2>3. QED
    BY <2>1, <2>2
<1>6. QED
  BY <1>1, <1>4, <1>5 DEF TypeInv, TypeOK, Goes

\* A handler ends, and the record of its key is completed or released.
LEMMA Ends ==
    ASSUME TypeInv, NEW r \in Running, Succeeds(r) \/ Fails(r),
           profile' \in [Profiles -> Row], active' \in Profiles \cup {None},
           lock' \in [Profiles -> Requests \cup {None}]
    PROVE  TypeInv'
<1> DEFINE q(a) == [NewRequest EXCEPT !.pc = "done", !.answer = a]
<1>1. \A a \in {"ok", "error"} : q(a) \in Request /\ q(a).pc = "done"
  BY DEF NewRequest, Request, Pcs
<1>2. PICK a \in {"ok", "error"} : req' = [req EXCEPT ![r] = q(a)]
  BY DEF Succeeds, Fails, Over
<1>3. /\ req \in [Requests -> Request] /\ r \in Requests
      /\ store \in [Keys -> Record \cup {None}] /\ excused \subseteq Keys
      /\ req[r].key \in Keys \cup {None} /\ req[r].body \in Bodies \cup {None}
      /\ overlapped \in BOOLEAN
  BY DEF TypeInv, TypeOK, Running, Request
<1> HIDE DEF q
<1>4. req' \in [Requests -> Request] /\ req'[r].pc = "done"
  BY <1>1, <1>2, <1>3
<1>5. \A s \in Requests \ {r} : req'[s] = req[s]
  BY <1>2, <1>3
<1>6. store' \in [Keys -> Record \cup {None}]
  <2>1. \A k \in Keys : store[k] # None =>
          [state |-> "completed", body |-> store[k].body, response |-> req[r].body] \in Record
    BY <1>3 DEF Record
  <2>2. CASE Succeeds(r)
    BY <2>1, <2>2, <1>3, ProfilesAssumption DEF Succeeds, Completed
  <2>3. CASE Fails(r)
    BY <2>3, <1>3 DEF Fails
  <2>4. QED
    BY <2>2, <2>3
<1>7. /\ excused' \subseteq Keys /\ overlapped' \in BOOLEAN
      /\ deaths' = deaths /\ overran' = overran
  BY <1>3 DEF Succeeds, Fails
<1>8. Control'
  BY <1>4, <1>5 DEF TypeInv, Control, Running
<1>9. QED
  BY <1>4, <1>5, <1>6, <1>7, <1>8 DEF TypeInv, TypeOK

\* The pieces a handler's actions are made of.
LEMMA Handling ==
    ASSUME TypeInv, NEW r \in Running
    PROVE  /\ r \in Requests /\ req[r] \in Request /\ HandlerOK(req[r])
           /\ profile \in [Profiles -> Row] /\ active \in Profiles \cup {None}
           /\ lock \in [Profiles -> Requests \cup {None}]
BY DEF TypeInv, TypeOK, Control, Running

\* At another await, with nothing else in its hands.
LEMMA MovesOn ==
    ASSUME TypeInv, NEW r \in Running, NEW pc \in Pcs \ {"new", "start", "done"},
           Belongs(req[r].op, pc), Next1(r, pc),
           pc = "detail" => req[r].id \in Profiles,
           pc \in {"replace", "reactivate"} => req[r].other \in Profiles,
           pc = "instead" => ~req[r].flag,
           profile' \in [Profiles -> Row], active' \in Profiles \cup {None},
           lock' \in [Profiles -> Requests \cup {None}]
    PROVE  TypeInv'
<1> DEFINE q == [req[r] EXCEPT !.pc = pc]
<1>1. q \in Request /\ HandlerOK(q)
  BY Handling DEF Request, HandlerOK
<1>2. Goes(r, q)
  BY DEF Next1
<1> HIDE DEF q
<1>3. QED
  BY <1>1, <1>2, GoesOn, Handling

LEMMA TypeCreate ==
    ASSUME TypeInv, NEW r \in Running, CreateCounts(r) \/ CreateInserts(r)
    PROVE  TypeInv'
<1>1. CASE CreateCounts(r)
  <2> DEFINE q == [req[r] EXCEPT !.pc = "insert", !.flag = (Live = {})]
  <2>1. req[r].op \in {"create", "duplicate"}
    BY <1>1 DEF CreateCounts, At
  <2>2. q \in Request
    BY FlagSet, Handling DEF Pcs
  <2>3. HandlerOK(q)
    BY <2>1, Handling DEF Request, HandlerOK, Belongs
  <2>4. Goes(r, q) /\ UNCHANGED <<profile, active, lock>>
    BY <1>1 DEF CreateCounts
  <2> HIDE DEF q
  <2>5. QED
    BY <2>2, <2>3, <2>4, GoesOn, Handling
<1>2. CASE CreateInserts(r)
  <2> DEFINE q == [req[r] EXCEPT !.pc = "detail", !.id = Fresh]
             row == IF req[r].op = "create"
                    THEN NewRow({req[r].body}, {req[r].body}, req[r].key)
                    ELSE NewRow(req[r].titles, req[r].skills, None)
  <2>1. Fresh \in Profiles
    BY <1>2, FreshIsFree DEF TypeInv, CreateInserts
  <2>2. q \in Request /\ HandlerOK(q)
    <3>1. q \in Request
      BY <2>1, Handling DEF Pcs, Request
    <3>2. req[r].pc = "insert"
      BY <1>2 DEF CreateInserts
    <3>3. HandlerOK(q)
      BY <2>1, <3>2, Handling DEF Request, HandlerOK, Belongs
    <3>4. QED
      BY <3>1, <3>3
  <2>3. row \in Row
    BY <1>2, Handling DEF CreateInserts, NewRow, Row, Request, HandlerOK, Belongs
  <2>4. Goes(r, q) /\ UNCHANGED lock /\ profile' = [profile EXCEPT ![Fresh] = row]
    BY <1>2 DEF CreateInserts
  <2>5. active' \in {Fresh, active}
    BY <1>2 DEF CreateInserts
  <2> HIDE DEF q, row
  <2>6. QED
    BY <2>1, <2>2, <2>3, <2>4, <2>5, GoesOn, Handling
<1>3. QED
  BY <1>1, <1>2

LEMMA TypeUpdate ==
    ASSUME TypeInv, NEW r \in Running, UpdateLocks(r) \/ UpdateCommits(r)
    PROVE  TypeInv'
<1> DEFINE p == req[r].id
<1>1. CASE UpdateLocks(r)
  <2> DEFINE q == [req[r] EXCEPT !.pc = "commit", !.titles = profile[p].titles,
                                 !.skills = profile[p].skills]
  <2>1. profile[p] \in Row /\ p \in Profiles
    BY <1>1, Handling DEF UpdateLocks, Live
  <2>2. q \in Request /\ HandlerOK(q)
    <3>1. profile[p].titles \in SUBSET Bodies /\ profile[p].skills \in SUBSET Bodies
      BY <2>1 DEF Row
    <3>2. q \in Request
      BY <3>1, RowsRead, Handling DEF Pcs
    <3>3. req[r].op = "update"
      BY <1>1 DEF UpdateLocks, At
    <3>4. HandlerOK(q)
      BY <3>3, Handling DEF Request, HandlerOK, Belongs
    <3>5. QED
      BY <3>2, <3>4
  <2>3. Goes(r, q) /\ UNCHANGED <<profile, active>> /\ lock' = [lock EXCEPT ![p] = r]
    BY <1>1 DEF UpdateLocks, Locks
  <2> HIDE DEF q
  <2>4. QED
    BY <2>1, <2>2, <2>3, GoesOn, Handling
<1>2. CASE UpdateCommits(r)
  <2> DEFINE row == [profile[p] EXCEPT !.titles = (@ \ req[r].titles) \cup {req[r].body},
                                       !.skills = (@ \ req[r].skills) \cup {req[r].body}]
  <2>1. req[r].op = "update" /\ p \in Profiles /\ req[r].body \in Bodies /\ profile[p] \in Row
    BY <1>2, Handling DEF UpdateCommits, HandlerOK, Belongs
  <2>2. row \in Row
    BY <2>1 DEF Row
  <2>3. profile' = [profile EXCEPT ![p] = row]
    BY <1>2, <2>1, Handling DEF UpdateCommits, Row
  <2>4. Next1(r, "detail") /\ UNCHANGED active /\ lock' = [lock EXCEPT ![p] = None]
    BY <1>2 DEF UpdateCommits
  <2> HIDE DEF row
  <2>5. profile' \in [Profiles -> Row] /\ lock' \in [Profiles -> Requests \cup {None}]
    BY <2>1, <2>2, <2>3, <2>4, Handling
  <2>6. QED
    BY <2>1, <2>4, <2>5, MovesOn, Handling DEF Belongs, Pcs, Ops
<1>3. QED
  BY <1>1, <1>2

\* A profile's status may be set.
LEMMA StatusRow ==
    ASSUME TypeInv, NEW p \in Profiles, NEW status \in {"active", "paused"},
           StatusSet(p, status)
    PROVE  profile' \in [Profiles -> Row]
BY DEF StatusSet, TypeInv, TypeOK, Row

LEMMA TypeSimple ==
    ASSUME TypeInv, NEW r \in Running, NotFound(r) \/ Detail(r) \/ Activate(r) \/ Resume(r)
    PROVE  TypeInv'
<1>1. CASE NotFound(r)
  BY <1>1, Ends, Handling DEF NotFound
<1>2. CASE Detail(r)
  BY <1>2, Ends, Handling DEF Detail
<1>3. CASE Activate(r)
  <2>1. req[r].id \in Profiles /\ req[r].op = "activate"
    BY <1>3, Handling DEF Activate, At, HandlerOK
  <2>2. StatusSet(req[r].id, "active") /\ active' \in Profiles
    BY <1>3, <2>1 DEF Activate, Activated, StatusSet
  <2>3. Next1(r, "detail") /\ UNCHANGED lock
    BY <1>3 DEF Activate
  <2>4. QED
    BY <2>1, <2>2, <2>3, StatusRow, MovesOn, Handling DEF Belongs, Pcs, Ops
<1>4. CASE Resume(r)
  <2>1. req[r].id \in Profiles /\ req[r].op = "resume"
    BY <1>4, Handling DEF Resume, At, HandlerOK
  <2>2. QED
    BY <1>4, <2>1, StatusRow, MovesOn, Handling DEF Resume, Belongs, Pcs, Ops
<1>5. QED
  BY <1>1, <1>2, <1>3, <1>4

\* Deleting and clearing keep the types.
LEMMA GoneRows ==
    ASSUME TypeInv, NEW gone \in SUBSET Profiles
    PROVE  Deleted(gone) \in [Profiles -> Row] /\ PointerWithout(gone) \in Profiles \cup {None}
<1>1. \A p \in Profiles : profile[p] \in Row
  BY DEF TypeInv, TypeOK
<1>2. \A p \in Profiles : [profile[p] EXCEPT !.state = "deleted"] \in Row
  <2> SUFFICES ASSUME NEW row \in Row PROVE [row EXCEPT !.state = "deleted"] \in Row
    BY <1>1
  <2>1. QED
    BY DEF Row
<1>3. Deleted(gone) \in [Profiles -> Row]
  BY <1>1, <1>2 DEF Deleted
<1>4. QED
  BY <1>3 DEF PointerWithout, TypeInv, TypeOK

LEMMA TypeDelete ==
    ASSUME TypeInv, NEW r \in Running, DeleteReads(r) \/ DeleteDeletes(r) \/ DeleteLists(r)
    PROVE  TypeInv'
<1>1. CASE DeleteReads(r)
  <2> DEFINE q == [req[r] EXCEPT !.pc = "deleting", !.flag = (active = req[r].id)]
  <2>1. req[r].op = "delete"
    BY <1>1 DEF DeleteReads, At
  <2>2. q \in Request
    BY FlagSet, Handling DEF Pcs
  <2>3. HandlerOK(q)
    BY <2>1, Handling DEF Request, HandlerOK, Belongs
  <2>4. Goes(r, q) /\ UNCHANGED <<profile, active, lock>>
    BY <1>1 DEF DeleteReads
  <2> HIDE DEF q
  <2>5. QED
    BY <2>2, <2>3, <2>4, GoesOn, Handling
<1>2. CASE DeleteDeletes(r)
  <2>1. req[r].op = "delete" /\ req[r].id \in Profiles
    BY <1>2, Handling DEF DeleteDeletes, HandlerOK, Belongs
  <2>2. UNCHANGED lock
    BY <1>2 DEF DeleteDeletes
  <2>3. profile' \in [Profiles -> Row] /\ active' \in Profiles \cup {None}
    <3>1. \/ profile' = Deleted({req[r].id}) /\ active' = PointerWithout({req[r].id})
          \/ UNCHANGED <<profile, active>>
      BY <1>2 DEF DeleteDeletes
    <3>2. QED
      BY <3>1, <2>1, GoneRows, Handling
  <2>4. Next1(r, "list") \/ Succeeds(r) \/ Fails(r)
    BY <1>2 DEF DeleteDeletes
  <2>5. CASE Next1(r, "list")
    BY <2>1, <2>2, <2>3, <2>5, MovesOn, Handling DEF Belongs, Pcs, Ops
  <2>6. CASE Succeeds(r) \/ Fails(r)
    BY <2>2, <2>3, <2>6, Ends, Handling
  <2>7. QED
    BY <2>4, <2>5, <2>6
<1>3. CASE DeleteLists(r)
  <2> DEFINE flag == profile[Replacement].status = "active"
             q == [req[r] EXCEPT !.pc = "replace", !.other = Replacement, !.flag = flag]
  <2>1. req[r].op = "delete" /\ req[r].id \in Profiles
    BY <1>3, Handling DEF DeleteLists, HandlerOK, Belongs
  <2>2. UNCHANGED <<profile, active, lock>>
    BY <1>3 DEF DeleteLists
  <2>3. CASE Live = {}
    BY <1>3, <2>2, <2>3, Ends, Handling DEF DeleteLists
  <2>4. CASE Live # {}
    <3>1. Replacement \in Profiles
      BY <2>4, ReplacementIsLive DEF TypeInv, Live
    <3>2. ASSUME NEW f \in BOOLEAN
          PROVE  [req[r] EXCEPT !.pc = "replace", !.other = Replacement, !.flag = f] \in Request
      <4>1. "replace" \in Pcs
        BY DEF Pcs
      <4>2. QED
        BY <3>1, <4>1, Handling DEF Request
    <3>3. flag \in BOOLEAN
      OBVIOUS
    <3>4. q \in Request
      BY <3>2, <3>3
    <3>5. HandlerOK(q)
      BY <2>1, <3>1, Handling DEF Request, HandlerOK, Belongs
    <3>6. Goes(r, q)
      BY <1>3, <2>4 DEF DeleteLists
    <3> HIDE DEF q
    <3>7. QED
      BY <2>2, <3>4, <3>5, <3>6, GoesOn, Handling
  <2>5. QED
    BY <2>3, <2>4
<1>4. QED
  BY <1>1, <1>2, <1>3

LEMMA TypeDeleteEnds ==
    ASSUME TypeInv, NEW r \in Running, DeleteReplaces(r) \/ DeleteReactivates(r)
    PROVE  TypeInv'
<1>1. CASE DeleteReplaces(r)
  <2>1. req[r].op = "delete" /\ req[r].id \in Profiles /\ req[r].other \in Profiles
    BY <1>1, Handling DEF DeleteReplaces, HandlerOK, Belongs
  <2>2. UNCHANGED <<profile, lock>> /\ active' \in {req[r].other, active}
    BY <1>1 DEF DeleteReplaces
  <2>3. Next1(r, "reactivate") \/ Succeeds(r) \/ Fails(r)
    BY <1>1 DEF DeleteReplaces
  <2>4. CASE Next1(r, "reactivate")
    BY <2>1, <2>2, <2>4, MovesOn, Handling DEF Belongs, Pcs, Ops
  <2>5. CASE Succeeds(r) \/ Fails(r)
    BY <2>1, <2>2, <2>5, Ends, Handling
  <2>6. QED
    BY <2>3, <2>4, <2>5
<1>2. CASE DeleteReactivates(r)
  <2>1. req[r].other \in Profiles
    BY <1>2, Handling DEF DeleteReactivates, HandlerOK
  <2>2. StatusSet(req[r].other, "active") \/ UNCHANGED profile
    BY <1>2 DEF DeleteReactivates
  <2>3. Succeeds(r) /\ UNCHANGED <<active, lock>>
    BY <1>2 DEF DeleteReactivates
  <2>4. profile' \in [Profiles -> Row]
    BY <2>1, <2>2, StatusRow, Handling
  <2>5. QED
    BY <2>3, <2>4, Ends, Handling
<1>3. QED
  BY <1>1, <1>2

LEMMA TypeDuplicate ==
    ASSUME TypeInv, NEW r \in Running,
           DuplicateFinds(r) \/ DuplicateReadsTitles(r) \/ DuplicateReadsSkills(r)
    PROVE  TypeInv'
<1> DEFINE p == req[r].id
<1>1. CASE DuplicateFinds(r)
  <2>1. req[r].op = "duplicate"
    BY <1>1 DEF DuplicateFinds, At
  <2>2. QED
    BY <1>1, <2>1, MovesOn, Handling DEF DuplicateFinds, Belongs, Pcs, Ops
<1>2. CASE DuplicateReadsTitles(r)
  <2> DEFINE rows == Children(p, profile[p].titles)
             q == [req[r] EXCEPT !.pc = "skills", !.titles = rows]
  <2>1. req[r].op = "duplicate" /\ p \in Profiles
    BY <1>2, Handling DEF DuplicateReadsTitles, HandlerOK, Belongs
  <2>2. rows \in SUBSET Bodies
    BY <2>1, Handling DEF Children, Row
  <2>3. Goes(r, q) /\ UNCHANGED <<profile, active, lock>>
    BY <1>2 DEF DuplicateReadsTitles
  <2> HIDE DEF rows
  <2>4. q \in Request
    BY <2>2, Handling DEF Request, Pcs
  <2>5. HandlerOK(q)
    BY <2>1, Handling DEF Request, HandlerOK, Belongs
  <2> HIDE DEF q
  <2>6. QED
    BY <2>3, <2>4, <2>5, GoesOn, Handling
<1>3. CASE DuplicateReadsSkills(r)
  <2> DEFINE rows == Children(p, profile[p].skills)
             q == [req[r] EXCEPT !.pc = "count", !.skills = rows]
  <2>1. req[r].op = "duplicate" /\ p \in Profiles
    BY <1>3, Handling DEF DuplicateReadsSkills, HandlerOK, Belongs
  <2>2. rows \in SUBSET Bodies
    BY <2>1, Handling DEF Children, Row
  <2>3. Goes(r, q) /\ UNCHANGED <<profile, active, lock>>
    BY <1>3 DEF DuplicateReadsSkills
  <2> HIDE DEF rows
  <2>4. q \in Request
    BY <2>2, Handling DEF Request, Pcs
  <2>5. HandlerOK(q)
    BY <2>1, Handling DEF Request, HandlerOK, Belongs
  <2> HIDE DEF q
  <2>6. QED
    BY <2>3, <2>4, <2>5, GoesOn, Handling
<1>4. QED
  BY <1>1, <1>2, <1>3

LEMMA TypePause ==
    ASSUME TypeInv, NEW r \in Running, PauseReads(r) \/ PauseLists(r) \/ PauseActivates(r)
    PROVE  TypeInv'
<1>1. CASE PauseReads(r)
  <2>1. req[r].op = "pause" /\ ~req[r].flag
    BY <1>1, Handling DEF PauseReads, At, HandlerOK
  <2>2. PICK pc \in {"instead", "status"} : Next1(r, pc)
    BY <1>1 DEF PauseReads
  <2>3. UNCHANGED <<profile, active, lock>>
    BY <1>1 DEF PauseReads
  <2>4. QED
    BY <2>1, <2>2, <2>3, MovesOn, Handling DEF Belongs, Pcs, Ops
<1>2. CASE PauseLists(r)
  <2> DEFINE q == [req[r] EXCEPT !.flag = TRUE]
  <2>1. req[r].pc = "instead" /\ req[r].op = "pause" /\ req[r].id \in Profiles
    BY <1>2, Handling DEF PauseLists, HandlerOK, Belongs
  <2>2. UNCHANGED <<profile, active, lock>>
    BY <1>2 DEF PauseLists
  <2>3. CASE Fails(r)
    BY <2>2, <2>3, Ends, Handling
  <2>4. CASE Next1(r, "clear")
    BY <2>1, <2>2, <2>4, MovesOn, Handling DEF Belongs, Pcs, Ops
  <2>5. CASE PauseAllowed(r) /\ Live \ {req[r].id} # {} /\ Goes(r, q)
    <3>1. req[r].other \in Profiles \ {req[r].id}
      BY <2>5, Handling DEF PauseAllowed, Request
    <3>2. q \in Request
      BY Handling DEF Request
    <3>3. HandlerOK(q)
      BY <2>1, <3>1, Handling DEF Request, HandlerOK, Belongs
    <3> HIDE DEF q
    <3>4. QED
      BY <2>2, <2>5, <3>2, <3>3, GoesOn, Handling
  <2>6. QED
    BY <1>2, <2>3, <2>4, <2>5 DEF PauseLists
<1>3. CASE PauseActivates(r)
  <2>1. req[r].op = "pause" /\ req[r].other \in Profiles
    BY <1>3, Handling DEF PauseActivates, HandlerOK, Belongs
  <2>2. UNCHANGED lock
    BY <1>3 DEF PauseActivates
  <2>3. CASE Activated(req[r].other) /\ Next1(r, "status")
    <3>1. StatusSet(req[r].other, "active") /\ active' \in Profiles
      BY <2>1, <2>3 DEF Activated, StatusSet
    <3>2. QED
      BY <2>1, <2>2, <2>3, <3>1, StatusRow, MovesOn, Handling DEF Belongs, Pcs, Ops
  <2>4. CASE Fails(r) /\ UNCHANGED <<profile, active>>
    BY <2>2, <2>4, Ends, Handling
  <2>5. QED
    BY <1>3, <2>3, <2>4 DEF PauseActivates
<1>4. QED
  BY <1>1, <1>2, <1>3

LEMMA TypePauseEnds ==
    ASSUME TypeInv, NEW r \in Running, PauseClears(r) \/ PauseSets(r) \/ Wipe(r)
    PROVE  TypeInv'
<1>1. CASE PauseClears(r)
  <2>1. req[r].op = "pause"
    BY <1>1, Handling DEF PauseClears, HandlerOK, Belongs
  <2>2. QED
    BY <1>1, <2>1, MovesOn, Handling DEF PauseClears, Belongs, Pcs, Ops
<1>2. CASE PauseSets(r)
  <2>1. req[r].op = "pause" /\ req[r].id \in Profiles
    BY <1>2, Handling DEF PauseSets, HandlerOK, Belongs
  <2>2. UNCHANGED <<active, lock>>
    BY <1>2 DEF PauseSets
  <2>3. CASE StatusSet(req[r].id, "paused") /\ Next1(r, "detail")
    BY <2>1, <2>2, <2>3, StatusRow, MovesOn, Handling DEF Belongs, Pcs, Ops
  <2>4. CASE Fails(r) /\ UNCHANGED profile
    BY <2>2, <2>4, Ends, Handling
  <2>5. QED
    BY <1>2, <2>3, <2>4 DEF PauseSets
<1>3. CASE Wipe(r)
  <2>1. profile' \in [Profiles -> Row] /\ active' = None
    BY <1>3, GoneRows DEF Wipe, Live
  <2>2. QED
    BY <1>3, <2>1, Ends, Handling DEF Wipe
<1>4. QED
  BY <1>1, <1>2, <1>3

\* Only a running handler takes a step.
LEMMA StepRuns ==
    ASSUME NEW r \in Requests, Step(r)
    PROVE  r \in Running
BY DEF Step, Running, At, CreateCounts, CreateInserts, UpdateLocks, UpdateCommits, NotFound,
       Detail, Activate, Resume, DeleteReads, DeleteDeletes, DeleteLists, DeleteReplaces,
       DeleteReactivates, DuplicateFinds, DuplicateReadsTitles, DuplicateReadsSkills,
       PauseReads, PauseLists, PauseActivates, PauseClears, PauseSets, Wipe

LEMMA TypeHandler ==
    ASSUME TypeInv, NEW r \in Requests, Step(r)
    PROVE  TypeInv'
BY StepRuns, TypeCreate, TypeUpdate, TypeSimple, TypeDelete, TypeDeleteEnds, TypeDuplicate,
   TypePause, TypePauseEnds DEF Step

\* What a request is when it starts: only a create has a key, and the routes of the
\* others name a profile that was inserted.
Started(op, id, other, key, body) ==
    [NewRequest EXCEPT !.pc = "start", !.op = op, !.id = id, !.other = other, !.key = key,
                       !.body = body]

Routed(op, id, key, body) ==
    /\ op # "create" => key = None
    /\ op \in {"create", "update"} => body \in Bodies
    /\ op \notin {"create", "wipe"} => id \in Profiles
    /\ id # None => profile[id].state # "none"

Starts(r) ==
    \E op \in Ops, id, other \in Profiles \cup {None}, key \in Keys \cup {None},
       body \in Bodies \cup {None} :
        Start(r, op, id, other, key, body) /\ Routed(op, id, key, body)

LEMMA StartedFits ==
    ASSUME NEW op \in Ops, NEW id \in Profiles \cup {None}, NEW other \in Profiles \cup {None},
           NEW key \in Keys \cup {None}, NEW body \in Bodies \cup {None},
           Routed(op, id, key, body)
    PROVE  /\ Started(op, id, other, key, body) \in Request
           /\ HandlerOK(Started(op, id, other, key, body))
BY DEF Started, NewRequest, Request, Pcs, HandlerOK, Belongs, Routed

\* A handler starts with what its route gives it.
LEMMA ArrivalKinds ==
    ASSUME NEW r \in Requests, Arrival(r)
    PROVE  \/ Starts(r)
           \/ \E k \in Keys, c \in Bodies : Replay(r, k, c) \/ Conflict(r, k, c)
<1>1. ASSUME NEW k \in Keys \cup {None}, NEW c \in Bodies, Start(r, "create", None, None, k, c)
      PROVE  Starts(r)
  BY <1>1 DEF Starts, Routed, Ops
<1>2. ASSUME Start(r, "wipe", None, None, None, None)
      PROVE  Starts(r)
  BY <1>2 DEF Starts, Routed, Ops
<1>3. ASSUME NEW p \in Profiles, profile[p].state # "none", NEW c \in Bodies,
             Start(r, "update", p, None, None, c)
      PROVE  Starts(r)
  BY <1>3, ProfilesAssumption DEF Starts, Routed, Ops
<1>4. ASSUME NEW p \in Profiles, profile[p].state # "none",
             NEW op \in {"delete", "activate", "duplicate", "resume"},
             Start(r, op, p, None, None, None)
      PROVE  Starts(r)
  BY <1>4, ProfilesAssumption DEF Starts, Routed, Ops
<1>5. ASSUME NEW p \in Profiles, profile[p].state # "none", NEW q \in Live \cup {None},
             Start(r, "pause", p, q, None, None)
      PROVE  Starts(r)
  BY <1>5, ProfilesAssumption DEF Starts, Routed, Ops, Live
<1>6. QED
  BY <1>1, <1>2, <1>3, <1>4, <1>5 DEF Arrival

LEMMA TypeArrival ==
    ASSUME TypeInv, NEW r \in Requests, Arrival(r)
    PROVE  TypeInv'
<1>1. CASE Starts(r)
  <2>1. PICK op \in Ops, id, other \in Profiles \cup {None}, key \in Keys \cup {None},
             body \in Bodies \cup {None} :
               Start(r, op, id, other, key, body) /\ Routed(op, id, key, body)
    BY <1>1 DEF Starts
  <2> DEFINE q == Started(op, id, other, key, body)
  <2>2. q \in Request /\ HandlerOK(q)
    BY <2>1, StartedFits, Zenon
  <2>3. q.pc = "start"
    BY DEF Started, NewRequest
  <2>4. /\ req' = [req EXCEPT ![r] = q]
        /\ UNCHANGED <<profile, active, lock, deaths, excused, overran>>
        /\ overlapped' = (overlapped \/ Running # {})
        /\ store' = IF key = None THEN store
                    ELSE [store EXCEPT ![key] = [state |-> "in_flight", body |-> body,
                                                 response |-> None]]
    BY <2>1 DEF Start, Started
  <2> HIDE DEF q
  <2>5. req' \in [Requests -> Request] /\ req'[r] = q /\ \A s \in Requests \ {r} : req'[s] = req[s]
    BY <2>2, <2>4 DEF TypeInv, TypeOK
  <2>6. \A s \in Requests :
           req'[s].pc = "instead" /\ req'[s].flag => req'[s].other \in Profiles \ {req'[s].id}
    BY <2>3, <2>5 DEF TypeInv, TypeOK
  <2>7. store' \in [Keys -> Record \cup {None}]
    BY <2>1, <2>4 DEF TypeInv, TypeOK, Record, Routed
  <2>8. overlapped' \in BOOLEAN
    BY <2>4 DEF TypeInv, TypeOK
  <2>9. Control'
    BY <2>2, <2>5 DEF TypeInv, Control, Running
  <2>10. QED
    BY <2>4, <2>5, <2>6, <2>7, <2>8, <2>9 DEF TypeInv, TypeOK
<1>2. ASSUME NEW k \in Keys, NEW c \in Bodies, Replay(r, k, c) \/ Conflict(r, k, c)
      PROVE  TypeInv'
  <2>1. PICK q \in Request : q.pc = "done" /\ req' = [req EXCEPT ![r] = q]
    <3>1. CASE Replay(r, k, c)
      <4> DEFINE q == [NewRequest EXCEPT !.pc = "done", !.answer = "replay", !.key = k,
                                         !.body = c, !.replayed = store[k].response]
      <4>1. store[k] \in Record
        BY <3>1 DEF Replay, Reserves, TypeInv, TypeOK
      <4>2. q \in Request /\ q.pc = "done"
        BY <4>1 DEF NewRequest, Request, Pcs, Record
      <4>3. req' = [req EXCEPT ![r] = q]
        BY <3>1 DEF Replay
      <4> HIDE DEF q
      <4>4. QED
        BY <4>2, <4>3
    <3>2. CASE Conflict(r, k, c)
      <4> DEFINE q == [NewRequest EXCEPT !.pc = "done", !.answer = "error"]
      <4>1. q \in Request /\ q.pc = "done"
        BY DEF NewRequest, Request, Pcs
      <4>2. req' = [req EXCEPT ![r] = q]
        BY <3>2 DEF Conflict
      <4> HIDE DEF q
      <4>3. QED
        BY <4>1, <4>2
    <3>3. QED
      BY <1>2, <3>1, <3>2
  <2>2. UNCHANGED <<profile, active, lock, store, deaths, overlapped, excused, overran>>
    BY <1>2 DEF Replay, Conflict
  <2>3. req' \in [Requests -> Request] /\ req'[r] = q /\ \A s \in Requests \ {r} : req'[s] = req[s]
    BY <2>1 DEF TypeInv, TypeOK
  <2>4. \A s \in Requests :
           req'[s].pc = "instead" /\ req'[s].flag => req'[s].other \in Profiles \ {req'[s].id}
    BY <2>1, <2>3 DEF TypeInv, TypeOK
  <2>5. Control'
    BY <2>1, <2>3 DEF TypeInv, Control, Running
  <2>6. QED
    BY <2>2, <2>3, <2>4, <2>5 DEF TypeInv, TypeOK
<1>3. QED
  BY <1>1, <1>2, ArrivalKinds

\* After a death no handler runs.
LEMMA TypeDies ==
    ASSUME TypeInv, Dies
    PROVE  TypeInv' /\ Running' = {}
<1> DEFINE q == [NewRequest EXCEPT !.pc = "done", !.answer = "error"]
<1>1. q \in Request /\ q.pc = "done"
  BY DEF NewRequest, Request, Pcs
<1>2. req' = [r \in Requests |-> IF r \in Running THEN q ELSE req[r]]
  BY DEF Dies
<1> HIDE DEF q
<1>3. req' \in [Requests -> Request] /\ Running' = {}
  BY <1>1, <1>2 DEF TypeInv, TypeOK, Running
<1>4. \A r \in Requests :
         req'[r].pc = "instead" /\ req'[r].flag => req'[r].other \in Profiles \ {req'[r].id}
  BY <1>1, <1>2 DEF TypeInv, TypeOK
<1>5. /\ lock' \in [Profiles -> Requests \cup {None}] /\ store' \in [Keys -> Record \cup {None}]
      /\ UNCHANGED <<profile, active>>
  BY DEF Dies
<1>6. deaths' \in 0..MaxDeaths
  BY ProfilesAssumption DEF Dies, TypeInv, TypeOK
<1>7. overlapped' \in BOOLEAN /\ excused' \subseteq Keys /\ overran' \subseteq Keys
  BY DEF Dies, TypeInv, TypeOK
<1>8. QED
  BY <1>3, <1>4, <1>5, <1>6, <1>7 DEF TypeInv, TypeOK, Control

LEMMA TypeExpires ==
    ASSUME TypeInv, NEW k \in Keys, Expires(k)
    PROVE  TypeInv'
<1>1. /\ store' \in [Keys -> Record \cup {None}]
      /\ excused' \subseteq Keys /\ overran' \subseteq Keys
  BY DEF Expires, TypeInv, TypeOK
<1>2. UNCHANGED <<profile, active, lock, req, deaths, overlapped>> /\ Running' = Running
  BY DEF Expires, Running
<1>3. QED
  BY <1>1, <1>2 DEF TypeInv, TypeOK, Control

LEMMA TypeStutters ==
    ASSUME TypeInv, UNCHANGED vars
    PROVE  TypeInv'
BY DEF vars, TypeInv, TypeOK, Control, Running

LEMMA TypeStep == TypeInv /\ [Next]_vars => TypeInv'
BY TypeHandler, TypeArrival, TypeExpires, TypeDies, TypeStutters DEF Next

\* Rows, handlers and records keep their types, and a handler holds what its operation
\* gives it: in particular a pause never activates the profile it is to pause
\* (RoleProfilesService.pause).
THEOREM TypesHold == Spec => []TypeOK
<1>1. TypeInv => TypeOK
  BY DEF TypeInv
<1>2. QED
  BY TypeInit, TypeStep, <1>1, PTL DEF Spec

-----------------------------------------------------------------------------
(* What a step of a handler changes *)

\* The same request at another await: what it may have read, and where it may be.
Carries(r, q) ==
    LET w == req[r] IN
    /\ q.op = w.op /\ q.key = w.key /\ q.body = w.body
    /\ q.answer = w.answer /\ q.replayed = w.replayed
    /\ q.id = w.id \/ CreateInserts(r)
    /\ q.titles \in {w.titles, {}} \cup {profile[p].titles : p \in Profiles}
    /\ q.skills \in {w.skills, {}} \cup {profile[p].skills : p \in Profiles}
    /\ q.pc \notin {"new", "done"} /\ w.pc # "detail"
    /\ q.pc = "commit" => UpdateLocks(r)

\* A step takes the handler to another await, or ends it.
LEMMA StepKinds ==
    ASSUME TypeInv, NEW r \in Requests, Step(r)
    PROVE  \/ \E q \in Request : Goes(r, q) /\ Carries(r, q)
           \/ Succeeds(r) \/ Fails(r)
<1> DEFINE Continues == \E q \in Request : Goes(r, q) /\ Carries(r, q)
<1>1. req[r] \in Request /\ HandlerOK(req[r])
  BY StepRuns, Handling
<1>2. ASSUME NEW pc \in Pcs \ {"new", "commit", "done"}, Next1(r, pc), req[r].pc # "detail" PROVE Continues
  <2> DEFINE q == [req[r] EXCEPT !.pc = pc]
  <2>1. q \in Request /\ Carries(r, q)
    BY <1>1, <1>2 DEF Request, Carries
  <2>2. Goes(r, q)
    BY <1>2 DEF Next1
  <2> HIDE DEF q
  <2>3. QED
    BY <2>1, <2>2
<1>3. ASSUME CreateCounts(r) PROVE Continues
  <2> DEFINE q == [req[r] EXCEPT !.pc = "insert", !.flag = (Live = {})]
  <2>1. q \in Request
    BY <1>1, FlagSet DEF Pcs
  <2>2. Carries(r, q)
    BY <1>1, <1>3 DEF Request, Carries, CreateCounts, At
  <2>3. Goes(r, q)
    BY <1>3 DEF CreateCounts
  <2> HIDE DEF q
  <2>4. QED
    BY <2>1, <2>2, <2>3
<1>4. ASSUME CreateInserts(r) PROVE Continues
  <2> DEFINE q == [req[r] EXCEPT !.pc = "detail", !.id = Fresh]
  <2>1. q \in Request
    BY <1>1, <1>4, FreshIsFree DEF TypeInv, CreateInserts, Request, Pcs
  <2>2. Carries(r, q)
    BY <1>1, <1>4 DEF Request, Carries, CreateInserts
  <2>3. Goes(r, q)
    BY <1>4 DEF CreateInserts
  <2> HIDE DEF q
  <2>4. QED
    BY <2>1, <2>2, <2>3
<1>5. ASSUME UpdateLocks(r) PROVE Continues
  <2> DEFINE p == req[r].id
             q == [req[r] EXCEPT !.pc = "commit", !.titles = profile[p].titles,
                                 !.skills = profile[p].skills]
  <2>1. profile[p] \in Row
    BY <1>5 DEF UpdateLocks, Live, TypeInv, TypeOK
  <2>2. profile[p].titles \in SUBSET Bodies /\ profile[p].skills \in SUBSET Bodies
    BY <2>1 DEF Row
  <2>3. q \in Request
    BY <1>1, <2>2, RowsRead DEF Pcs
  <2>4. p \in Profiles
    BY <1>5 DEF UpdateLocks, Live
  <2>5. /\ q.titles = profile[p].titles /\ q.skills = profile[p].skills /\ q.pc = "commit"
        /\ q.op = req[r].op /\ q.key = req[r].key /\ q.body = req[r].body /\ q.id = req[r].id
        /\ q.answer = req[r].answer /\ q.replayed = req[r].replayed
    BY <1>1 DEF Request
  <2>6. Carries(r, q)
    BY <1>5, <2>4, <2>5 DEF Carries, UpdateLocks, At
  <2>7. Goes(r, q)
    BY <1>5 DEF UpdateLocks
  <2> HIDE DEF q
  <2>8. QED
    BY <2>3, <2>6, <2>7
<1>6. ASSUME DeleteReads(r) PROVE Continues
  <2> DEFINE q == [req[r] EXCEPT !.pc = "deleting", !.flag = (active = req[r].id)]
  <2>1. q \in Request
    BY <1>1, FlagSet DEF Pcs
  <2>2. Carries(r, q)
    BY <1>1, <1>6 DEF Request, Carries, DeleteReads, At
  <2>3. Goes(r, q)
    BY <1>6 DEF DeleteReads
  <2> HIDE DEF q
  <2>4. QED
    BY <2>1, <2>2, <2>3
<1>7. ASSUME DeleteLists(r), Live # {} PROVE Continues
  <2> DEFINE flag == profile[Replacement].status = "active"
             q == [req[r] EXCEPT !.pc = "replace", !.other = Replacement, !.flag = flag]
  <2>1. Replacement \in Profiles
    BY <1>7, ReplacementIsLive DEF TypeInv, Live
  <2>2. \A f \in BOOLEAN :
          [req[r] EXCEPT !.pc = "replace", !.other = Replacement, !.flag = f] \in Request
    BY <1>1, <2>1 DEF Request, Pcs
  <2>3. flag \in BOOLEAN
    OBVIOUS
  <2>4. q \in Request
    BY <2>2, <2>3
  <2>5. Carries(r, q)
    BY <1>1, <1>7 DEF Request, Carries, DeleteLists
  <2>6. Goes(r, q)
    BY <1>7 DEF DeleteLists
  <2> HIDE DEF q
  <2>7. QED
    BY <2>4, <2>5, <2>6
<1>8. ASSUME DuplicateReadsTitles(r) PROVE Continues
  <2> DEFINE p == req[r].id
             rows == Children(p, profile[p].titles)
             q == [req[r] EXCEPT !.pc = "skills", !.titles = rows]
  <2>1. rows \in {{}} \cup {profile[x].titles : x \in Profiles} /\ rows \in SUBSET Bodies
    BY DEF Children, Live, TypeInv, TypeOK, Row
  <2>2. Goes(r, q) /\ req[r].pc = "titles"
    BY <1>8 DEF DuplicateReadsTitles
  <2> HIDE DEF rows
  <2>3. q \in Request
    BY <1>1, <2>1 DEF Request, Pcs
  <2>4. Carries(r, q)
    BY <1>1, <2>1, <2>2 DEF Request, Carries
  <2> HIDE DEF q
  <2>5. QED
    BY <2>2, <2>3, <2>4
<1>9. ASSUME DuplicateReadsSkills(r) PROVE Continues
  <2> DEFINE p == req[r].id
             rows == Children(p, profile[p].skills)
             q == [req[r] EXCEPT !.pc = "count", !.skills = rows]
  <2>1. rows \in {{}} \cup {profile[x].skills : x \in Profiles} /\ rows \in SUBSET Bodies
    BY DEF Children, Live, TypeInv, TypeOK, Row
  <2>2. Goes(r, q) /\ req[r].pc = "skills"
    BY <1>9 DEF DuplicateReadsSkills
  <2> HIDE DEF rows
  <2>3. q \in Request
    BY <1>1, <2>1 DEF Request, Pcs
  <2>4. Carries(r, q)
    BY <1>1, <2>1, <2>2 DEF Request, Carries
  <2> HIDE DEF q
  <2>5. QED
    BY <2>2, <2>3, <2>4
<1>10. ASSUME PauseLists(r) PROVE Continues \/ Fails(r)
  <2> DEFINE q == [req[r] EXCEPT !.flag = TRUE]
  <2>1. q \in Request
    BY <1>1 DEF Request
  <2>2. Carries(r, q)
    BY <1>1, <1>10 DEF Request, Carries, PauseLists
  <2>3. Fails(r) \/ Next1(r, "clear") \/ Goes(r, q)
    BY <1>10 DEF PauseLists
  <2> HIDE DEF q
  <2>4. req[r].pc # "detail"
    BY <1>10 DEF PauseLists
  <2>5. QED
    BY <1>2, <2>1, <2>2, <2>3, <2>4 DEF Pcs
<1>11. \/ Succeeds(r) \/ Fails(r) \/ Continues
       \/ \E pc \in Pcs \ {"new", "commit", "done"} : Next1(r, pc) /\ req[r].pc # "detail"
  <2>1. CASE UpdateCommits(r) \/ Activate(r) \/ Resume(r) \/ NotFound(r) \/ Detail(r)
    BY <2>1 DEF UpdateCommits, Activate, Resume, NotFound, Detail, At, Pcs
  <2>2. CASE DeleteDeletes(r) \/ DeleteReplaces(r) \/ DeleteReactivates(r)
    BY <2>2 DEF DeleteDeletes, DeleteReplaces, DeleteReactivates, Pcs
  <2>3. CASE DuplicateFinds(r) \/ PauseReads(r) \/ PauseActivates(r)
    BY <2>3 DEF DuplicateFinds, PauseReads, PauseActivates, At, Pcs
  <2>4. CASE PauseClears(r) \/ PauseSets(r) \/ Wipe(r)
    BY <2>4 DEF PauseClears, PauseSets, Wipe, Pcs
  <2>5. CASE DeleteLists(r) /\ Live = {}
    BY <2>5 DEF DeleteLists
  <2>6. QED
    BY <1>3, <1>4, <1>5, <1>6, <1>7, <1>8, <1>9, <1>10, <2>1, <2>2, <2>3, <2>4, <2>5 DEF Step
<1>12. QED
  BY <1>2, <1>11

\* What is left of a handler that ended.
LEMMA Ended ==
    ASSUME TypeInv, NEW r \in Requests, Succeeds(r) \/ Fails(r)
    PROVE  /\ req'[r].pc = "done" /\ req'[r].answer \in {"ok", "error"} /\ req'[r].key = None
           /\ req'[r].titles = {} /\ req'[r].skills = {}
           /\ \A s \in Requests \ {r} : req'[s] = req[s]
           /\ Running' = Running \ {r}
<1> DEFINE q(a) == [NewRequest EXCEPT !.pc = "done", !.answer = a]
<1>1. \A a \in {"ok", "error"} :
         /\ q(a).pc = "done" /\ q(a).answer \in {"ok", "error"} /\ q(a).key = None
         /\ q(a).titles = {} /\ q(a).skills = {}
  BY DEF NewRequest
<1>2. PICK a \in {"ok", "error"} : req' = [req EXCEPT ![r] = q(a)]
  BY DEF Succeeds, Fails, Over
<1> HIDE DEF q
<1>3. req'[r] = q(a) /\ \A s \in Requests \ {r} : req'[s] = req[s]
  BY <1>2 DEF TypeInv, TypeOK
<1>4. Running' = Running \ {r}
  BY <1>1, <1>3 DEF Running
<1>5. QED
  BY <1>1, <1>3, <1>4

\* What another await leaves alone.
LEMMA GoneOn ==
    ASSUME TypeInv, NEW r \in Running, NEW q, Goes(r, q), q.pc \notin {"new", "done"}
    PROVE  /\ req'[r] = q /\ \A s \in Requests \ {r} : req'[s] = req[s]
           /\ Running' = Running
           /\ UNCHANGED <<store, deaths, overlapped, excused, overran>>
<1>1. req'[r] = q /\ \A s \in Requests \ {r} : req'[s] = req[s]
  BY DEF Goes, TypeInv, TypeOK, Running
<1>2. Running' = Running
  BY <1>1 DEF Running
<1>3. QED
  BY <1>1, <1>2 DEF Goes

\* A handler that starts: at its first await, with its key's record in flight.
Begun(r, key) ==
    /\ req[r].pc = "new" /\ req'[r].pc = "start" /\ req'[r].key = key
    /\ req'[r].titles = {} /\ req'[r].skills = {} /\ req'[r].answer = "none"
    /\ req'[r].id # None => profile[req'[r].id].state # "none"
    /\ \A s \in Requests \ {r} : req'[s] = req[s]
    /\ Running' = Running \cup {r}
    /\ key # None =>
         /\ store[key] = None /\ store'[key] # None
         /\ store'[key].state = "in_flight" /\ store'[key].body = req'[r].body
    /\ \A k \in Keys \ {key} : store'[k] = store[k]
    /\ overlapped' = (overlapped \/ Running # {})
    /\ UNCHANGED <<profile, active, lock, deaths, excused, overran>>

LEMMA Begins ==
    ASSUME TypeInv, NEW r \in Requests, Starts(r)
    PROVE  \E key \in Keys \cup {None} : Begun(r, key)
<1>1. PICK op \in Ops, id, other \in Profiles \cup {None}, key \in Keys \cup {None},
           body \in Bodies \cup {None} :
             Start(r, op, id, other, key, body) /\ Routed(op, id, key, body)
  BY DEF Starts
<1> DEFINE q == Started(op, id, other, key, body)
           record == [state |-> "in_flight", body |-> body, response |-> None]
<1>2. /\ req' = [req EXCEPT ![r] = q] /\ req[r].pc = "new"
      /\ UNCHANGED <<profile, active, lock, deaths, excused, overran>>
      /\ overlapped' = (overlapped \/ Running # {})
      /\ store' = IF key = None THEN store ELSE [store EXCEPT ![key] = record]
      /\ key # None => store[key] = None
  BY <1>1 DEF Start, Started, Reserves
<1>3. /\ q.pc = "start" /\ q.key = key /\ q.titles = {} /\ q.skills = {} /\ q.answer = "none"
      /\ q.id = id /\ q.body = body
  BY DEF Started, NewRequest
<1>4. key # None => record # None /\ record.state = "in_flight" /\ record.body = body
  BY <1>1, ProfilesAssumption DEF Routed, Record
<1> HIDE DEF q, record
<1>5. req'[r] = q /\ \A s \in Requests \ {r} : req'[s] = req[s]
  BY <1>2 DEF TypeInv, TypeOK
<1>6. id # None => profile[id].state # "none"
  BY <1>1 DEF Routed
<1>7. Running' = Running \cup {r}
  BY <1>3, <1>5 DEF Running
<1>8. /\ key # None => store'[key] = record
      /\ \A k \in Keys \ {key} : store'[k] = store[k]
  BY <1>2 DEF TypeInv, TypeOK
<1>9. Begun(r, key)
  BY <1>2, <1>3, <1>4, <1>5, <1>6, <1>7, <1>8 DEF Begun
<1>10. QED
  BY <1>9

\* A request that is answered from the store or refused runs no handler.
Refused(r) ==
    /\ req[r].pc = "new" /\ req'[r].pc = "done"
    /\ req'[r].titles = {} /\ req'[r].skills = {}
    /\ req'[r].answer = "replay" => \E k \in Keys :
         /\ store[k] # None /\ store[k].state = "completed"
         /\ req'[r].key = k /\ req'[r].body = store[k].body
         /\ req'[r].replayed = store[k].response
    /\ \A s \in Requests \ {r} : req'[s] = req[s]
    /\ Running' = Running
    /\ UNCHANGED <<profile, active, lock, store, deaths, overlapped, excused, overran>>

LEMMA Refuses ==
    ASSUME TypeInv, NEW r \in Requests, NEW k \in Keys, NEW c \in Bodies,
           Replay(r, k, c) \/ Conflict(r, k, c)
    PROVE  Refused(r)
<1> DEFINE Answered(q) ==
             /\ store[k] # None /\ store[k].state = "completed"
             /\ q.key = k /\ q.body = store[k].body /\ q.replayed = store[k].response
<1>1. PICK q : /\ req' = [req EXCEPT ![r] = q]
               /\ q.pc = "done" /\ q.titles = {} /\ q.skills = {}
               /\ q.answer = "replay" => Answered(q)
  <2>1. CASE Replay(r, k, c)
    <3> DEFINE q == [NewRequest EXCEPT !.pc = "done", !.answer = "replay", !.key = k,
                                       !.body = c, !.replayed = store[k].response]
    <3>1. q.pc = "done" /\ q.titles = {} /\ q.skills = {}
      BY DEF NewRequest
    <3>2. Answered(q)
      BY <2>1 DEF NewRequest, Replay, Replays
    <3>3. req' = [req EXCEPT ![r] = q]
      BY <2>1 DEF Replay
    <3> HIDE DEF q
    <3>4. QED
      BY <3>1, <3>2, <3>3
  <2>2. CASE Conflict(r, k, c)
    <3> DEFINE q == [NewRequest EXCEPT !.pc = "done", !.answer = "error"]
    <3>1. q.pc = "done" /\ q.titles = {} /\ q.skills = {} /\ q.answer = "error"
      BY DEF NewRequest
    <3>2. req' = [req EXCEPT ![r] = q]
      BY <2>2 DEF Conflict
    <3> HIDE DEF q
    <3>3. QED
      BY <3>1, <3>2
  <2>3. QED
    BY <2>1, <2>2
<1>2. req'[r] = q /\ \A s \in Requests \ {r} : req'[s] = req[s]
  BY <1>1 DEF TypeInv, TypeOK
<1>3. /\ req[r].pc = "new"
      /\ UNCHANGED <<profile, active, lock, store, deaths, overlapped, excused, overran>>
  BY DEF Replay, Conflict
<1>4. Running' = Running
  BY <1>1, <1>2, <1>3 DEF Running
<1>5. QED
  BY <1>1, <1>2, <1>3, <1>4 DEF Refused

-----------------------------------------------------------------------------
(* The idempotency store *)

\* The record of a handler's key when the handler ends: completed with its response, or
\* released.  No other record is touched.
LEMMA StoreEnds ==
    ASSUME TypeInv, NEW r \in Requests, Succeeds(r) \/ Fails(r)
    PROVE  /\ \A k \in Keys : k # req[r].key => store'[k] = store[k]
           /\ \A k \in Keys : Succeeds(r) /\ store[k] # None => store'[k] # None
           /\ \A k \in Keys : k = req[r].key /\ store'[k] # None =>
                /\ store'[k].state = "completed" /\ store[k] # None
                /\ store'[k].body = store[k].body /\ store'[k].response = req[r].body
           /\ excused \subseteq excused' /\ overran' = overran
           /\ Fails(r) /\ req[r].pc = "detail" /\ req[r].key # None => req[r].key \in excused'
<1>1. store \in [Keys -> Record \cup {None}] /\ None \notin Keys
  BY ProfilesAssumption DEF TypeInv, TypeOK
<1>2. CASE Succeeds(r)
  <2> DEFINE record(k) == [state |-> "completed", body |-> store[k].body,
                           response |-> req[r].body]
  <2>1. \A k \in Keys : store[k] # None => record(k) # None
    <3>1. \A k \in Keys : store[k] # None => record(k) \in Record
      BY <1>1 DEF Record, TypeInv, TypeOK, Request
    <3>2. QED
      BY <3>1, ProfilesAssumption
  <2>2. \A k \in Keys : /\ record(k).state = "completed" /\ record(k).body = store[k].body
                        /\ record(k).response = req[r].body
    OBVIOUS
  <2>3. store' = IF req[r].key = None \/ store[req[r].key] = None THEN store
                 ELSE [store EXCEPT ![req[r].key] = record(req[r].key)]
    BY <1>2 DEF Succeeds, Completed
  <2> HIDE DEF record
  <2>4. \A k \in Keys : k # req[r].key => store'[k] = store[k]
    BY <1>1, <2>3
  <2>5. \A k \in Keys : k = req[r].key => store'[k] = IF store[k] = None THEN None ELSE record(k)
    BY <1>1, <2>3
  <2>6. UNCHANGED <<excused, overran>> /\ ~(Fails(r) /\ req[r].pc = "detail" /\ req[r].key # None)
    <3>1. req'[r].answer = "ok"
      BY <1>2 DEF Succeeds, Over, NewRequest, TypeInv, TypeOK
    <3>2. Fails(r) => req'[r].answer = "error"
      BY DEF Fails, Over, NewRequest, TypeInv, TypeOK
    <3>3. QED
      BY <1>2, <3>1, <3>2 DEF Succeeds
  <2>7. QED
    BY <2>1, <2>2, <2>4, <2>5, <2>6
<1>3. CASE Fails(r)
  <2>1. /\ \A k \in Keys : k # req[r].key => store'[k] = store[k]
        /\ \A k \in Keys : k = req[r].key => store'[k] = None
    BY <1>1, <1>3 DEF Fails
  <2>2. ~Succeeds(r)
    <3>1. req'[r].answer = "error"
      BY <1>3 DEF Fails, Over, NewRequest, TypeInv, TypeOK
    <3>2. Succeeds(r) => req'[r].answer = "ok"
      BY DEF Succeeds, Over, NewRequest, TypeInv, TypeOK
    <3>3. QED
      BY <3>1, <3>2
  <2>3. /\ excused \subseteq excused' /\ overran' = overran
        /\ req[r].pc = "detail" /\ req[r].key # None => req[r].key \in excused'
    BY <1>3 DEF Fails
  <2>4. QED
    BY <2>1, <2>2, <2>3
<1>4. QED
  BY <1>2, <1>3

LEMMA StoreInit == Init => StoreInv
<1> SUFFICES ASSUME Init PROVE StoreInv
  OBVIOUS
<1>1. Running = {} /\ overran = {} /\ \A k \in Keys : store[k] = None
  BY DEF Init, NewRequest, Running
<1>2. QED
  BY <1>1 DEF StoreInv, Reserved, Answers

\* A handler that ends completes its own record, unless that had expired.
LEMMA StoreEndsOwn ==
    ASSUME TypeInv, StoreInv, NEW r \in Running, Succeeds(r) \/ Fails(r)
    PROVE  StoreInv'
<1>1. /\ \A s \in Requests \ {r} : req'[s] = req[s]
      /\ Running' = Running \ {r} /\ r \in Requests
  BY Ended DEF Running
<1>2. /\ \A k \in Keys : k # req[r].key => store'[k] = store[k]
      /\ \A k \in Keys : k = req[r].key /\ store'[k] # None =>
           /\ store'[k].state = "completed" /\ store[k] # None
           /\ store'[k].body = store[k].body /\ store'[k].response = req[r].body
      /\ excused \subseteq excused' /\ overran' = overran
  BY <1>1, StoreEnds
<1>3. \A s \in Running : s \in Requests /\ req[s].key \in Keys \cup {None}
  BY DEF Running, TypeInv, TypeOK, Request
<1>4. Reserved'
  <2> SUFFICES ASSUME NEW s \in Running', req'[s].key # None, req'[s].key \notin overran'
               PROVE  LET k == req'[s].key IN
                      /\ store'[k] # None /\ store'[k].state = "in_flight"
                      /\ store'[k].body = req'[s].body
                      /\ \A t \in Running' : req'[t].key = k => t = s
    BY DEF Reserved
  <2> DEFINE k == req[s].key
  <2>1. s \in Running /\ s # r /\ req'[s] = req[s] /\ k \in Keys /\ k \notin overran
    BY <1>1, <1>2, <1>3
  <2>2. /\ store[k] # None /\ store[k].state = "in_flight" /\ store[k].body = req[s].body
        /\ \A t \in Running : req[t].key = k => t = s
    BY <2>1 DEF StoreInv, Reserved
  <2>3. store'[k] = store[k]
    BY <1>2, <2>1, <2>2
  <2>4. QED
    BY <1>1, <1>3, <2>1, <2>2, <2>3
<1>5. Answers'
  <2> SUFFICES ASSUME NEW k \in Keys, k \notin overran', store'[k] # None,
                      store'[k].state = "completed"
               PROVE  store'[k].response = store'[k].body
    BY DEF Answers
  <2>1. CASE k # req[r].key
    BY <1>2, <2>1 DEF StoreInv, Answers
  <2>2. CASE k = req[r].key
    <3>1. store[k].body = req[r].body
      BY <1>2, <2>2, ProfilesAssumption DEF StoreInv, Reserved
    <3>2. QED
      BY <1>2, <2>2, <3>1
  <2>3. QED
    BY <2>1, <2>2
<1>6. QED
  BY <1>2, <1>4, <1>5 DEF StoreInv

\* A handler that starts finds its key free, and so held by no other.
LEMMA StoreBegins ==
    ASSUME TypeInv, StoreInv, NEW r \in Requests, NEW key \in Keys \cup {None}, Begun(r, key)
    PROVE  StoreInv'
<1>1. /\ req'[r].key = key /\ r \notin Running /\ Running' = Running \cup {r}
      /\ \A s \in Requests \ {r} : req'[s] = req[s]
      /\ key # None =>
           /\ store[key] = None /\ store'[key] # None
           /\ store'[key].state = "in_flight" /\ store'[key].body = req'[r].body
      /\ \A k \in Keys \ {key} : store'[k] = store[k]
      /\ UNCHANGED <<excused, overran>>
  BY DEF Begun, Running
<1>2. \A s \in Running : s \in Requests /\ req'[s] = req[s] /\ req[s].key \in Keys \cup {None}
  BY <1>1 DEF Running, TypeInv, TypeOK, Request
<1>3. \A s \in Running : req[s].key # None /\ req[s].key \notin overran =>
         /\ req[s].key # key /\ store'[req[s].key] = store[req[s].key]
         /\ store[req[s].key] # None /\ store[req[s].key].state = "in_flight"
         /\ store[req[s].key].body = req[s].body
         /\ \A t \in Running : req[t].key = req[s].key => t = s
  BY <1>1, <1>2 DEF StoreInv, Reserved
<1>4. Reserved'
  <2> SUFFICES ASSUME NEW s \in Running', req'[s].key # None, req'[s].key \notin overran
               PROVE  LET k == req'[s].key IN
                      /\ store'[k] # None /\ store'[k].state = "in_flight"
                      /\ store'[k].body = req'[s].body
                      /\ \A t \in Running' : req'[t].key = k => t = s
    BY <1>1 DEF Reserved
  <2>1. CASE s = r
    BY <1>1, <1>2, <1>3, <2>1
  <2>2. CASE s \in Running
    BY <1>1, <1>2, <1>3, <2>2
  <2>3. QED
    BY <1>1, <2>1, <2>2
<1>5. Answers'
  <2>1. \A k \in Keys : store'[k] # None /\ store'[k].state = "completed" => k # key
    BY <1>1, ProfilesAssumption
  <2>2. QED
    BY <1>1, <2>1 DEF StoreInv, Answers
<1>6. QED
  BY <1>1, <1>4, <1>5 DEF StoreInv

LEMMA StoreStep == TypeInv /\ StoreInv /\ [Next]_vars => StoreInv'
<1> SUFFICES ASSUME TypeInv, StoreInv, [Next]_vars PROVE StoreInv'
  OBVIOUS
<1>1. ASSUME NEW r \in Requests, Step(r) PROVE StoreInv'
  <2>1. r \in Running
    BY <1>1, StepRuns
  <2>2. ASSUME NEW q \in Request, Goes(r, q), Carries(r, q) PROVE StoreInv'
    <3>1. /\ req'[r] = q /\ \A s \in Requests \ {r} : req'[s] = req[s]
          /\ Running' = Running /\ Running \subseteq Requests
          /\ UNCHANGED <<store, excused, overran>>
      BY <2>1, <2>2, GoneOn DEF Carries, Running
    <3>2. \A s \in Running : req'[s].key = req[s].key /\ req'[s].body = req[s].body
      BY <2>2, <3>1 DEF Carries
    <3>3. Reserved'
      BY <3>1, <3>2 DEF StoreInv, Reserved
    <3>4. QED
      BY <3>1, <3>3 DEF StoreInv, Answers
  <2>3. QED
    BY <1>1, <2>1, <2>2, StepKinds, StoreEndsOwn
<1>2. ASSUME NEW r \in Requests, Arrival(r) PROVE StoreInv'
  <2>1. CASE Starts(r)
    BY <2>1, Begins, StoreBegins
  <2>2. ASSUME Refused(r) PROVE StoreInv'
    <3>1. /\ Running' = Running /\ UNCHANGED <<store, excused, overran>>
          /\ \A s \in Running : req'[s] = req[s]
      BY <2>2 DEF Refused, Running
    <3>2. QED
      BY <3>1 DEF StoreInv, Reserved, Answers
  <2>3. QED
    BY <1>2, <2>1, <2>2, ArrivalKinds, Refuses
<1>3. ASSUME NEW k \in Keys, Expires(k) PROVE StoreInv'
  <2>1. /\ UNCHANGED req /\ Running' = Running
        /\ overran' = IF store[k].state = "in_flight" THEN overran \cup {k} ELSE overran
        /\ excused' = excused \cup {k} /\ store'[k] = None
        /\ \A x \in Keys \ {k} : store'[x] = store[x]
    BY <1>3 DEF Expires, Running, TypeInv, TypeOK
  <2>2. \A s \in Running : req[s].key \in Keys \cup {None}
    BY DEF Running, TypeInv, TypeOK, Request
  <2>3. \A s \in Running : req[s].key # None /\ req[s].key \notin overran' =>
           req[s].key # k /\ req[s].key \notin overran
    BY <2>1 DEF StoreInv, Reserved
  <2>4. Reserved'
    BY <2>1, <2>2, <2>3 DEF StoreInv, Reserved
  <2>5. Answers'
    BY <2>1 DEF StoreInv, Answers
  <2>6. QED
    BY <2>1, <2>4, <2>5 DEF StoreInv
<1>4. CASE Dies
  <2>1. /\ Running' = {} /\ overran' = overran /\ excused \subseteq excused'
        /\ \A k \in Keys : store'[k] = None
    BY <1>4, TypeDies DEF Dies
  <2>2. QED
    BY <2>1 DEF StoreInv, Reserved, Answers
<1>5. CASE UNCHANGED vars
  BY <1>5 DEF vars, StoreInv, Reserved, Answers, Running
<1>6. QED
  BY <1>1, <1>2, <1>3, <1>4, <1>5 DEF Next

-----------------------------------------------------------------------------
(* Replays *)

LEMMA ReplayStep == TypeInv /\ StoreInv /\ ReplayIsOwn /\ [Next]_vars => ReplayIsOwn'
<1> SUFFICES ASSUME TypeInv, StoreInv, ReplayIsOwn, [Next]_vars PROVE ReplayIsOwn'
  OBVIOUS
<1>1. ASSUME NEW r \in Requests, Step(r) PROVE ReplayIsOwn'
  <2>1. r \in Running
    BY <1>1, StepRuns
  <2>2. CASE Succeeds(r) \/ Fails(r)
    BY <2>2, Ended, StoreEnds DEF ReplayIsOwn
  <2>3. ASSUME NEW q \in Request, Goes(r, q), Carries(r, q) PROVE ReplayIsOwn'
    <3>1. /\ req'[r] = q /\ \A s \in Requests \ {r} : req'[s] = req[s]
          /\ UNCHANGED overran
      BY <2>1, <2>3, GoneOn DEF Carries
    <3>2. QED
      BY <2>3, <3>1 DEF ReplayIsOwn, Carries
  <2>4. QED
    BY <1>1, <2>2, <2>3, StepKinds
<1>2. ASSUME NEW r \in Requests, Arrival(r) PROVE ReplayIsOwn'
  <2>1. CASE Starts(r)
    BY <2>1, Begins DEF Begun, ReplayIsOwn
  <2>2. ASSUME Refused(r) PROVE ReplayIsOwn'
    <3>1. UNCHANGED overran /\ \A s \in Requests \ {r} : req'[s] = req[s]
      BY <2>2 DEF Refused
    <3>2. req'[r].answer = "replay" /\ req'[r].key \notin overran
            => req'[r].replayed = req'[r].body
      BY <2>2 DEF Refused, StoreInv, Answers
    <3>3. QED
      BY <3>1, <3>2 DEF ReplayIsOwn
  <2>3. QED
    BY <1>2, <2>1, <2>2, ArrivalKinds, Refuses
<1>3. CASE Dies
  <2>1. UNCHANGED overran /\ \A r \in Requests : req'[r].answer = "error" \/ req'[r] = req[r]
    BY <1>3 DEF Dies, NewRequest
  <2>2. QED
    BY <2>1 DEF ReplayIsOwn
<1>4. CASE UNCHANGED req /\ overran \subseteq overran'
  BY <1>4 DEF ReplayIsOwn
<1>5. QED
  BY <1>1, <1>2, <1>3, <1>4 DEF Next, vars, Expires

\* A response taken from the idempotency store answers the payload it is replayed for,
\* unless a request of its key outran its record: complete() and release() act on the
\* key's record, which is that of their own request, and the fingerprints are compared.
THEOREM ReplayIsOwnAlways == Spec => []ReplayIsOwn
<1>1. Init => ReplayIsOwn
  BY DEF Init, ReplayIsOwn, NewRequest
<1>2. QED
  BY TypeInit, TypeStep, StoreInit, StoreStep, <1>1, ReplayStep, PTL DEF Spec

-----------------------------------------------------------------------------
(* The active pointer *)

\* Which profiles are there after a write.
LEMMA LiveKept ==
    ASSUME TypeInv, NEW p \in Profiles, NEW status, StatusSet(p, status)
    PROVE  Live' = Live
<1>1. \A x \in Profiles : profile'[x].state = profile[x].state
  BY DEF StatusSet, TypeInv, TypeOK, Row
<1>2. QED
  BY <1>1 DEF Live

LEMMA LiveLess ==
    ASSUME TypeInv, NEW gone \in SUBSET Profiles, profile' = Deleted(gone)
    PROVE  Live' = Live \ gone
<1>1. \A p \in Profiles : profile'[p].state = IF p \in gone THEN "deleted" ELSE profile[p].state
  BY DEF Deleted, TypeInv, TypeOK, Row
<1>2. QED
  BY <1>1 DEF Live

LEMMA ActiveHandler ==
    ASSUME TypeInv, ActiveExists, NEW r \in Requests, Step(r)
    PROVE  ActiveExists'
<1>1. r \in Running /\ HandlerOK(req[r])
  BY StepRuns, Handling
<1>2. CASE CreateInserts(r)
  <2>1. Fresh \in Profiles
    BY <1>2, FreshIsFree DEF CreateInserts, TypeInv
  <2>2. profile'[Fresh].state = "live" /\ \A p \in Profiles \ {Fresh} : profile'[p] = profile[p]
    BY <1>2, <2>1 DEF CreateInserts, NewRow, TypeInv, TypeOK
  <2>3. Live' = Live \cup {Fresh}
    BY <2>1, <2>2 DEF Live
  <2>4. active' \in {Fresh, active}
    BY <1>2 DEF CreateInserts
  <2>5. QED
    BY <2>3, <2>4 DEF ActiveExists
<1>3. CASE UpdateCommits(r)
  <2>1. \A p \in Profiles : profile'[p].state = profile[p].state
    BY <1>3 DEF UpdateCommits, TypeInv, TypeOK, Row
  <2>2. QED
    BY <1>3, <2>1 DEF UpdateCommits, Live, ActiveExists
<1>4. CASE Activate(r) \/ Resume(r)
  BY <1>4, LiveKept DEF Activate, Resume, Activated, StatusSet, Live, ActiveExists
<1>5. CASE DeleteDeletes(r)
  <2>1. UNCHANGED <<profile, active>> => ActiveExists'
    BY DEF ActiveExists, Live
  <2>2. ASSUME profile' = Deleted({req[r].id}), active' = PointerWithout({req[r].id}),
               req[r].id \in Live
        PROVE  ActiveExists'
    <3>1. Live' = Live \ {req[r].id}
      BY <2>2, LiveLess DEF Live
    <3>2. QED
      BY <2>2, <3>1 DEF ActiveExists, PointerWithout
  <2>3. QED
    BY <1>5, <2>1, <2>2 DEF DeleteDeletes
<1>6. CASE DeleteReplaces(r)
  BY <1>6 DEF DeleteReplaces, ActiveExists, Live
<1>7. CASE DeleteReactivates(r)
  <2>1. Live' = Live
    BY <1>7, LiveKept DEF DeleteReactivates, Live
  <2>2. QED
    BY <1>7, <2>1 DEF DeleteReactivates, ActiveExists
<1>8. CASE PauseActivates(r)
  <2>1. CASE req[r].other \in Live
    <3>1. StatusSet(req[r].other, "active") /\ active' = req[r].other
      BY <1>8, <2>1 DEF PauseActivates, Activated, StatusSet
    <3>2. QED
      BY <2>1, <3>1, LiveKept DEF Live, ActiveExists
  <2>2. CASE req[r].other \notin Live
    BY <1>8, <2>2 DEF PauseActivates, ActiveExists, Live
  <2>3. QED
    BY <2>1, <2>2
<1>9. CASE PauseSets(r)
  <2>1. Live' = Live
    BY <1>9, LiveKept DEF PauseSets, Live
  <2>2. QED
    BY <1>9, <2>1 DEF PauseSets, ActiveExists
<1>10. CASE PauseClears(r) \/ Wipe(r)
  BY <1>10 DEF PauseClears, Wipe, ActiveExists
<1>11. CASE UNCHANGED <<profile, active>>
  BY <1>11 DEF ActiveExists, Live
<1>12. QED
  BY <1>2, <1>3, <1>4, <1>5, <1>6, <1>7, <1>8, <1>9, <1>10, <1>11
  DEF Step, CreateCounts, UpdateLocks, NotFound, Detail, DeleteReads, DeleteLists,
      DuplicateFinds, DuplicateReadsTitles, DuplicateReadsSkills, PauseReads, PauseLists

LEMMA ActiveStep == TypeInv /\ ActiveExists /\ [Next]_vars => ActiveExists'
<1> SUFFICES ASSUME TypeInv, ActiveExists, [Next]_vars PROVE ActiveExists'
  OBVIOUS
<1>1. CASE \E r \in Requests : Step(r)
  BY <1>1, ActiveHandler
<1>2. CASE UNCHANGED <<profile, active>>
  BY <1>2 DEF ActiveExists, Live
<1>3. ASSUME NEW r \in Requests, Arrival(r) PROVE UNCHANGED <<profile, active>>
  <2>1. CASE Starts(r)
    BY <2>1, Begins DEF Begun
  <2>2. QED
    BY <1>3, <2>1, ArrivalKinds DEF Replay, Conflict
<1>4. QED
  BY <1>1, <1>2, <1>3 DEF Next, vars, Expires, Dies

\* However deletions, pauses and activations interleave, the active pointer is on a profile
\* that is there, or on none: onDelete 'set null', and the replacement is written by an
\* update that finds it.
THEOREM ActiveExistsAlways == Spec => []ActiveExists
<1>1. ASSUME Init PROVE ActiveExists
  <2>1. Existing # {} => Min(Existing) \in Existing
    BY MinIsLeast, ProfilesAssumption
  <2>2. \A p \in Existing : p \in Live
    BY <1>1, ProfilesAssumption DEF Init, NewRow, Live
  <2>3. active = IF Existing = {} THEN None ELSE Min(Existing)
    BY <1>1 DEF Init
  <2>4. QED
    BY <2>1, <2>2, <2>3 DEF ActiveExists
<1>2. QED
  BY TypeInit, TypeStep, <1>1, ActiveStep, PTL DEF Spec

-----------------------------------------------------------------------------
(* Collections *)

\* A profile that no insert or update of this step writes.
Keeps(p) ==
    /\ profile'[p].titles = profile[p].titles /\ profile'[p].skills = profile[p].skills
    /\ profile'[p].by = profile[p].by
    /\ profile[p].state # "none" => profile'[p].state # "none"

LEMMA StatusKeeps ==
    ASSUME TypeInv, NEW p \in Profiles, NEW status, StatusSet(p, status)
    PROVE  \A x \in Profiles : Keeps(x)
BY DEF StatusSet, TypeInv, TypeOK, Row, Keeps

LEMMA DeletedKeeps ==
    ASSUME TypeInv, NEW gone \in SUBSET Profiles, profile' = Deleted(gone)
    PROVE  \A x \in Profiles : Keeps(x)
<1> SUFFICES ASSUME NEW x \in Profiles PROVE Keeps(x)
  OBVIOUS
<1>1. profile[x] \in Row
  BY DEF TypeInv, TypeOK
<1>2. profile'[x] = IF x \in gone THEN [profile[x] EXCEPT !.state = "deleted"] ELSE profile[x]
  BY DEF Deleted
<1>3. QED
  BY <1>1, <1>2 DEF Keeps, Row

\* What a handler's step writes in the profiles.
LEMMA Writes ==
    ASSUME TypeInv, NEW r \in Requests, Step(r)
    PROVE  \/ /\ CreateInserts(r)
              /\ \A p \in Profiles \ {Fresh} : Keeps(p)
           \/ /\ UpdateCommits(r)
              /\ \A p \in Profiles \ {req[r].id} : Keeps(p)
           \/ \A p \in Profiles : Keeps(p)
<1>1. r \in Running /\ HandlerOK(req[r])
  BY StepRuns, Handling
<1>2. CASE CreateInserts(r)
  <2>1. \A p \in Profiles \ {Fresh} : profile'[p] = profile[p]
    BY <1>2 DEF CreateInserts, TypeInv, TypeOK
  <2>2. QED
    BY <1>2, <2>1 DEF Keeps
<1>3. CASE UpdateCommits(r)
  <2>1. \A p \in Profiles \ {req[r].id} : profile'[p] = profile[p]
    BY <1>3 DEF UpdateCommits, TypeInv, TypeOK
  <2>2. QED
    BY <1>3, <2>1 DEF Keeps
<1>4. CASE Activate(r) \/ Resume(r)
  BY <1>4, StatusKeeps DEF Activate, Resume, Activated, StatusSet, Live
<1>5. CASE DeleteDeletes(r)
  <2>1. UNCHANGED profile \/ (req[r].id \in Live /\ profile' = Deleted({req[r].id}))
    BY <1>5 DEF DeleteDeletes
  <2>2. QED
    BY <2>1, DeletedKeeps DEF Keeps, Live
<1>6. CASE DeleteReactivates(r)
  BY <1>6, StatusKeeps DEF DeleteReactivates, Live, Keeps
<1>7. CASE PauseActivates(r)
  <2>1. UNCHANGED profile \/ (req[r].other \in Live /\ StatusSet(req[r].other, "active"))
    BY <1>7 DEF PauseActivates, Activated, StatusSet
  <2>2. QED
    BY <2>1, StatusKeeps DEF Keeps, Live
<1>8. CASE PauseSets(r)
  BY <1>8, StatusKeeps DEF PauseSets, Live, Keeps
<1>9. CASE Wipe(r)
  BY <1>9, DeletedKeeps DEF Wipe, Live
<1>10. CASE UNCHANGED profile
  BY <1>10 DEF Keeps
<1>11. QED
  BY <1>2, <1>3, <1>4, <1>5, <1>6, <1>7, <1>8, <1>9, <1>10
  DEF Step, CreateCounts, UpdateLocks, NotFound, Detail, DeleteReads, DeleteLists,
      DeleteReplaces, DuplicateFinds, DuplicateReadsTitles, DuplicateReadsSkills, PauseReads,
      PauseLists, PauseClears

\* Only an update takes a lock, and only its commit gives it back.
LEMMA LockWrites ==
    ASSUME NEW r \in Requests, Step(r)
    PROVE  UpdateLocks(r) \/ UpdateCommits(r) \/ UNCHANGED lock
BY DEF Step, CreateCounts, CreateInserts, NotFound, Detail, Activate, Resume, DeleteReads,
       DeleteDeletes, DeleteLists, DeleteReplaces, DeleteReactivates, DuplicateFinds,
       DuplicateReadsTitles, DuplicateReadsSkills, PauseReads, PauseLists, PauseActivates,
       PauseClears, PauseSets, Wipe

\* The insert and the commit write whole collections.
LEMMA InsertWrites ==
    ASSUME TypeInv, Rows, NEW r \in Requests, CreateInserts(r)
    PROVE  /\ Fresh \in Profiles /\ profile[Fresh].state = "none"
           /\ profile'[Fresh].state = "live" /\ profile'[Fresh].by \in {req[r].key, None}
           /\ Whole(profile'[Fresh].titles) /\ Whole(profile'[Fresh].skills)
<1> DEFINE q == req[r]
<1>1. Fresh \in Profiles /\ profile[Fresh].state = "none"
  BY FreshIsFree DEF CreateInserts, TypeInv
<1>2. profile'[Fresh] = IF q.op = "create" THEN NewRow({q.body}, {q.body}, q.key)
                                           ELSE NewRow(q.titles, q.skills, None)
  BY <1>1 DEF CreateInserts, TypeInv, TypeOK
<1>3. Whole(q.titles) /\ Whole(q.skills) /\ Whole({q.body})
  BY DEF Rows, Whole
<1>4. QED
  BY <1>1, <1>2, <1>3 DEF NewRow

LEMMA CommitWrites ==
    ASSUME TypeInv, Locked, NEW r \in Requests, UpdateCommits(r)
    PROVE  /\ req[r].id \in Profiles /\ lock[req[r].id] = r
           /\ profile'[req[r].id].state = profile[req[r].id].state
           /\ profile'[req[r].id].by = profile[req[r].id].by
           /\ Whole(profile'[req[r].id].titles) /\ Whole(profile'[req[r].id].skills)
<1> DEFINE q == req[r]
           p == q.id
<1>1. r \in Running
  BY DEF UpdateCommits, Running
<1>2. p \in Profiles
  BY <1>1, Handling DEF UpdateCommits, HandlerOK, Belongs
<1>3. lock[p] = r /\ profile[p].titles = q.titles /\ profile[p].skills = q.skills
  BY DEF UpdateCommits, Locked
<1>4. profile[p] \in Row
  BY <1>2 DEF TypeInv, TypeOK
<1>5. profile' = [profile EXCEPT ![p].titles = (@ \ q.titles) \cup {q.body},
                                 ![p].skills = (@ \ q.skills) \cup {q.body}]
  BY DEF UpdateCommits
<1>6. /\ profile'[p].state = profile[p].state /\ profile'[p].by = profile[p].by
      /\ profile'[p].titles = (profile[p].titles \ q.titles) \cup {q.body}
      /\ profile'[p].skills = (profile[p].skills \ q.skills) \cup {q.body}
  BY <1>2, <1>4, <1>5 DEF TypeInv, TypeOK, Row
<1>7. profile'[p].titles = {q.body} /\ profile'[p].skills = {q.body}
  BY <1>3, <1>6
<1>8. QED
  BY <1>2, <1>3, <1>6, <1>7 DEF Whole

\* An insert or a commit leaves nothing that was inserted uninserted.
LEMMA Inserted ==
    ASSUME TypeInv, Rows, Locked, NEW r \in Requests, Step(r), NEW p \in Profiles,
           profile[p].state # "none"
    PROVE  profile'[p].state # "none"
BY Writes, InsertWrites, CommitWrites DEF Keeps

LEMMA RowsHandler ==
    ASSUME TypeInv, Rows, Locked, NEW r \in Requests, Step(r)
    PROVE  Rows'
<1>1. r \in Running /\ req[r] \in Request
  BY StepRuns, Handling
<1>2. ASSUME NEW p \in Profiles PROVE Whole(profile'[p].titles) /\ Whole(profile'[p].skills)
  BY Writes, InsertWrites, CommitWrites DEF Keeps, Rows
<1>3. CASE Succeeds(r) \/ Fails(r)
  <2>1. ASSUME NEW s \in Running', req'[s].id # None PROVE profile'[req'[s].id].state # "none"
    <3>1. s \in Running /\ req'[s] = req[s] /\ req[s].id \in Profiles
      BY <1>3, <2>1, Ended DEF Running, TypeInv, TypeOK, Request
    <3>2. QED
      BY <2>1, <3>1, Inserted DEF Rows
  <2>2. ASSUME NEW s \in Requests PROVE Whole(req'[s].titles) /\ Whole(req'[s].skills)
    BY <1>3, Ended DEF Rows, Whole
  <2>3. QED
    BY <1>2, <2>1, <2>2 DEF Rows
<1>4. ASSUME NEW q \in Request, Goes(r, q), Carries(r, q) PROVE Rows'
  <2>1. req'[r] = q /\ Running' = Running /\ \A s \in Requests \ {r} : req'[s] = req[s]
    BY <1>1, <1>4, GoneOn DEF Carries
  <2>2. ASSUME NEW s \in Running', req'[s].id # None PROVE profile'[req'[s].id].state # "none"
    <3>1. CASE req'[s].id = req[s].id
      <4>1. s \in Running /\ req[s].id \in Profiles
        BY <2>1, <2>2, <3>1 DEF Running, TypeInv, TypeOK, Request
      <4>2. QED
        BY <2>2, <3>1, <4>1, Inserted DEF Rows
    <3>2. CASE s = r /\ CreateInserts(r)
      <4>1. req'[r].id = Fresh
        BY <1>1, <3>2 DEF CreateInserts, Goes, TypeInv, TypeOK, Request
      <4>2. QED
        BY <3>2, <4>1, InsertWrites
    <3>3. QED
      BY <1>4, <2>1, <3>1, <3>2 DEF Carries, Running
  <2>3. ASSUME NEW s \in Requests PROVE Whole(req'[s].titles) /\ Whole(req'[s].skills)
    <3>1. CASE s # r
      BY <2>1, <3>1 DEF Rows
    <3>2. CASE s = r
      <4>1. Whole({})
        BY DEF Whole
      <4>2. Whole(req[r].titles) /\ Whole(req[r].skills)
        BY DEF Rows
      <4>3. /\ q.titles # req[r].titles /\ q.titles # {} => Whole(q.titles)
            /\ q.skills # req[r].skills /\ q.skills # {} => Whole(q.skills)
        BY <1>4 DEF Carries, Rows
      <4>4. QED
        BY <2>1, <3>2, <4>1, <4>2, <4>3
    <3>3. QED
      BY <3>1, <3>2
  <2>4. QED
    BY <1>2, <2>2, <2>3 DEF Rows
<1>5. QED
  BY <1>3, <1>4, StepKinds

LEMMA LockedHandler ==
    ASSUME TypeInv, Rows, Locked, NEW r \in Requests, Step(r)
    PROVE  Locked'
<1> SUFFICES ASSUME NEW s \in Requests, req'[s].pc = "commit"
             PROVE  LET p == req'[s].id IN
                    /\ lock'[p] = s
                    /\ profile'[p].titles = req'[s].titles /\ profile'[p].skills = req'[s].skills
  BY DEF Locked
<1> DEFINE p == req[s].id
<1>1. r \in Running /\ lock \in [Profiles -> Requests \cup {None}]
  BY StepRuns, Handling
<1>2. CASE s = r
  <2>1. UpdateLocks(r)
    <3>1. ~(Succeeds(r) \/ Fails(r))
      BY <1>2, Ended
    <3>2. PICK q \in Request : Goes(r, q) /\ Carries(r, q)
      BY <3>1, StepKinds
    <3>3. req'[r] = q
      BY <1>1, <3>2, GoneOn DEF Carries
    <3>4. QED
      BY <1>2, <3>2, <3>3 DEF Carries
  <2>2. p \in Profiles /\ lock' = [lock EXCEPT ![p] = r] /\ UNCHANGED profile
    BY <1>2, <2>1 DEF UpdateLocks, Live, Locks
  <2>3. /\ req'[r].id = p
        /\ req'[r].titles = profile[p].titles /\ req'[r].skills = profile[p].skills
    BY <1>1, <1>2, <2>1 DEF UpdateLocks, Goes, TypeInv, TypeOK, Request
  <2>4. lock'[p] = r
    BY <1>1, <2>2
  <2>5. QED
    BY <1>2, <2>2, <2>3, <2>4
<1>3. CASE s # r
  <2>1. req'[s] = req[s]
    <3>1. CASE Succeeds(r) \/ Fails(r)
      BY <1>3, <3>1, Ended
    <3>2. ASSUME NEW q \in Request, Goes(r, q), Carries(r, q) PROVE req'[s] = req[s]
      BY <1>1, <1>3, <3>2, GoneOn DEF Carries
    <3>3. QED
      BY <3>1, <3>2, StepKinds
  <2>2. s \in Running /\ p \in Profiles
    <3>1. s \in Running
      BY <2>1 DEF Running
    <3>2. QED
      BY <2>1, <3>1, Handling DEF HandlerOK, Belongs
  <2>3. /\ lock[p] = s
        /\ profile[p].titles = req[s].titles /\ profile[p].skills = req[s].skills
    BY <2>1 DEF Locked
  <2>4. profile[p].state # "none"
    BY <2>2, ProfilesAssumption DEF Rows
  <2>5. lock'[p] = s
    <3>1. CASE UpdateLocks(r)
      <4>1. lock[req[r].id] = None /\ lock' = [lock EXCEPT ![req[r].id] = r]
        BY <3>1 DEF UpdateLocks, Unlocked, Locks
      <4>2. QED
        BY <1>1, <2>2, <2>3, <4>1, ProfilesAssumption
    <3>2. CASE UpdateCommits(r)
      <4>1. lock[req[r].id] = r
        BY <3>2, CommitWrites
      <4>2. lock' = [lock EXCEPT ![req[r].id] = None]
        BY <3>2 DEF UpdateCommits
      <4>3. QED
        BY <1>1, <1>3, <2>2, <2>3, <4>1, <4>2
    <3>3. QED
      BY <2>3, <3>1, <3>2, LockWrites
  <2>6. Keeps(p)
    <3>1. CASE CreateInserts(r)
      <4>1. p # Fresh
        BY <2>4, <3>1, InsertWrites
      <4>2. QED
        BY <2>2, <3>1, <4>1, Writes DEF UpdateCommits, CreateInserts
    <3>2. CASE UpdateCommits(r)
      <4>1. p # req[r].id
        BY <1>3, <2>3, <3>2, CommitWrites
      <4>2. QED
        BY <2>2, <3>2, <4>1, Writes DEF UpdateCommits, CreateInserts
    <3>3. QED
      BY <2>2, <3>1, <3>2, Writes
  <2>7. QED
    BY <2>1, <2>3, <2>5, <2>6 DEF Keeps
<1>4. QED
  BY <1>2, <1>3

\* A request that arrives has no rows.
LEMMA RowsArrive ==
    ASSUME Rows, Locked, NEW r \in Requests, UNCHANGED <<profile, lock>>,
           \A s \in Requests \ {r} : req'[s] = req[s], Running' \subseteq Running \cup {r},
           req'[r].pc # "commit", req'[r].titles = {}, req'[r].skills = {},
           r \in Running' /\ req'[r].id # None => profile[req'[r].id].state # "none"
    PROVE  Rows' /\ Locked'
<1>1. ASSUME NEW s \in Running', req'[s].id # None PROVE profile'[req'[s].id].state # "none"
  <2>1. CASE s = r
    BY <1>1, <2>1
  <2>2. CASE s # r
    <3>1. s \in Running /\ s \in Requests
      BY <2>2 DEF Running
    <3>2. req'[s] = req[s]
      BY <2>2, <3>1
    <3>3. QED
      BY <1>1, <3>1, <3>2 DEF Rows
  <2>3. QED
    BY <2>1, <2>2
<1>2. ASSUME NEW s \in Requests PROVE Whole(req'[s].titles) /\ Whole(req'[s].skills)
  <2>1. CASE s = r
    BY <2>1 DEF Whole
  <2>2. CASE s # r
    BY <2>2 DEF Rows
  <2>3. QED
    BY <2>1, <2>2
<1>3. \A p \in Profiles : Whole(profile'[p].titles) /\ Whole(profile'[p].skills)
  BY DEF Rows
<1>4. Rows'
  BY <1>1, <1>2, <1>3 DEF Rows
<1>5. \A s \in Requests : req'[s].pc = "commit" => req'[s] = req[s]
  OBVIOUS
<1>6. Locked'
  BY <1>5 DEF Locked
<1>7. QED
  BY <1>4, <1>6

LEMMA RowsStep == TypeInv /\ Rows /\ Locked /\ [Next]_vars => Rows' /\ Locked'
<1> SUFFICES ASSUME TypeInv, Rows, Locked, [Next]_vars PROVE Rows' /\ Locked'
  OBVIOUS
<1>1. CASE \E r \in Requests : Step(r)
  BY <1>1, RowsHandler, LockedHandler
<1>2. ASSUME NEW r \in Requests, Arrival(r) PROVE Rows' /\ Locked'
  <2>1. ASSUME NEW key \in Keys \cup {None}, Begun(r, key) PROVE Rows' /\ Locked'
    <3>1. /\ UNCHANGED <<profile, lock>> /\ \A s \in Requests \ {r} : req'[s] = req[s]
          /\ Running' \subseteq Running \cup {r}
      BY <2>1 DEF Begun
    <3>2. /\ req'[r].pc # "commit" /\ req'[r].titles = {} /\ req'[r].skills = {}
          /\ req'[r].id # None => profile[req'[r].id].state # "none"
      BY <2>1 DEF Begun
    <3>3. QED
      BY <3>1, <3>2, RowsArrive
  <2>2. ASSUME Refused(r) PROVE Rows' /\ Locked'
    <3>1. /\ UNCHANGED <<profile, lock>> /\ \A s \in Requests \ {r} : req'[s] = req[s]
          /\ Running' = Running
      BY <2>2 DEF Refused
    <3>2. /\ req'[r].pc # "commit" /\ req'[r].titles = {} /\ req'[r].skills = {}
          /\ r \notin Running
      BY <2>2 DEF Refused, Running
    <3>3. QED
      BY <3>1, <3>2, RowsArrive
  <2>3. QED
    BY <1>2, <2>1, <2>2, ArrivalKinds, Begins, Refuses
<1>3. CASE Dies
  <2> DEFINE q == [NewRequest EXCEPT !.pc = "done", !.answer = "error"]
  <2>1. q.pc = "done" /\ q.titles = {} /\ q.skills = {}
    BY DEF NewRequest
  <2>2. req' = [r \in Requests |-> IF r \in Running THEN q ELSE req[r]] /\ UNCHANGED profile
    BY <1>3 DEF Dies
  <2> HIDE DEF q
  <2>3. Running' = {}
    BY <1>3, TypeDies
  <2>4. Rows'
    BY <2>1, <2>2, <2>3 DEF Rows, Whole
  <2>5. \A r \in Requests : req'[r].pc # "commit"
    BY <2>1, <2>2 DEF Running
  <2>6. QED
    BY <2>4, <2>5 DEF Locked
<1>4. CASE UNCHANGED <<profile, lock, req>>
  BY <1>4 DEF Rows, Locked, Running
<1>5. QED
  BY <1>1, <1>2, <1>3, <1>4 DEF Next, vars, Expires

\* Two edits of a profile, or an edit and anything else, never leave a collection that
\* mixes their rows: updateWithChildren updates the profile's row, which locks it, before
\* it deletes and inserts the children.
THEOREM CollectionsWholeAlways == Spec => []CollectionsWhole
<1>1. Init => Rows /\ Locked
  BY DEF Init, NewRequest, NewRow, Running, Rows, Locked, Whole
<1>2. TypeInv /\ Rows => CollectionsWhole
  <2> SUFFICES ASSUME TypeInv, Rows, NEW p \in Profiles,
                      NEW rows \in {profile[p].titles, profile[p].skills}
               PROVE  Cardinality(rows) <= 1
    BY DEF CollectionsWhole
  <2>1. Whole(rows)
    BY DEF Rows
  <2>2. CASE rows = {}
    BY <2>2, FS_EmptySet
  <2>3. CASE rows # {}
    <3>1. PICK a \in rows : rows = {a}
      BY <2>1, <2>3 DEF Whole
    <3>2. Cardinality({a}) = 1
      BY FS_Singleton
    <3>3. QED
      BY <3>1, <3>2
  <2>4. QED
    BY <2>2, <2>3
<1>3. QED
  BY TypeInit, TypeStep, <1>1, RowsStep, <1>2, PTL DEF Spec

-----------------------------------------------------------------------------
(* Keys *)

KeyInv == Taken /\ KeyCreatesOnce

\* A create inserts under its key, once: no other profile has it.
LEMMA KeyGoes ==
    ASSUME TypeInv, Rows, Locked, StoreInv, KeyInv, NEW r \in Requests, Step(r),
           NEW q \in Request, Goes(r, q), Carries(r, q)
    PROVE  KeyInv'
<1>1. r \in Running
  BY StepRuns
<1>2. /\ req'[r] = q /\ \A s \in Requests \ {r} : req'[s] = req[s]
      /\ Running' = Running /\ UNCHANGED <<store, excused>>
  BY <1>1, GoneOn DEF Carries
<1>3. \A s \in Requests : req'[s].key = req[s].key
  BY <1>2 DEF Carries
<1>4. \A s \in Requests : req[s].pc = "detail" => req'[s] = req[s]
  BY <1>2 DEF Carries
<1>5. Running \subseteq Requests
  BY DEF Running
<1>7. CASE CreateInserts(r)
  <2>1. /\ Fresh \in Profiles /\ profile'[Fresh].by \in {req[r].key, None}
        /\ \A p \in Profiles \ {Fresh} : profile'[p].by = profile[p].by
    <3>1. Fresh \in Profiles /\ profile'[Fresh].by \in {req[r].key, None}
      BY <1>7, InsertWrites
    <3>2. ~UpdateCommits(r)
      BY <1>7 DEF CreateInserts, UpdateCommits
    <3>3. \A p \in Profiles \ {Fresh} : Keeps(p)
      BY <3>2, Writes
    <3>4. QED
      BY <3>1, <3>3 DEF Keeps
  <2>2. req[r].pc = "insert" /\ req'[r].pc = "detail"
    <3> DEFINE z == [req[r] EXCEPT !.pc = "detail", !.id = Fresh]
    <3>1. Goes(r, z) /\ req[r].pc = "insert"
      BY <1>7 DEF CreateInserts
    <3>2. z.pc = "detail"
      BY <1>1, Handling DEF Request
    <3> HIDE DEF z
    <3>3. req'[r] = z
      BY <3>1 DEF Goes, TypeInv, TypeOK
    <3>4. QED
      BY <3>1, <3>2, <3>3
  <2>3. ASSUME NEW p \in Profiles, profile'[p].by # None, profile'[p].by \notin excused
        PROVE  /\ store[profile'[p].by] # None
               /\ \A s \in Running : req'[s].key = profile'[p].by => req'[s].pc = "detail"
    <3>1. CASE p = Fresh
      <4>1. profile'[p].by = req[r].key /\ req[r].key # None
        BY <2>1, <2>3, <3>1
      <4>2. store[req[r].key] # None /\ \A s \in Running : req[s].key = req[r].key => s = r
        BY <1>1, <2>3, <4>1 DEF StoreInv, Reserved
      <4>3. QED
        BY <1>3, <1>5, <2>2, <4>1, <4>2
    <3>2. CASE p # Fresh
      <4>1. profile'[p].by = profile[p].by
        BY <2>1, <3>2
      <4>2. /\ store[profile[p].by] # None
            /\ \A s \in Running : req[s].key = profile[p].by => req[s].pc = "detail"
        BY <2>3, <4>1 DEF KeyInv, Taken
      <4>3. QED
        BY <1>3, <1>4, <1>5, <4>1, <4>2
    <3>3. QED
      BY <3>1, <3>2
  <2>4. Taken'
    BY <1>2, <2>3 DEF Taken
  <2>5. ASSUME NEW p \in Profiles, p # Fresh, profile[p].by # None, profile[p].by = profile'[Fresh].by
        PROVE  profile[p].by \in excused
    <3>1. profile[p].by = req[r].key
      BY <2>1, <2>5
    <3>2. QED
      BY <1>1, <2>2, <2>5, <3>1 DEF KeyInv, Taken
  <2>6. KeyCreatesOnce'
    <3> SUFFICES ASSUME NEW a \in Profiles, NEW b \in Profiles,
                        profile'[a].by # None, profile'[a].by = profile'[b].by, a # b
                 PROVE  profile'[a].by \in excused'
      BY DEF KeyCreatesOnce
    <3>1. CASE a # Fresh /\ b # Fresh
      BY <1>2, <2>1, <3>1 DEF KeyInv, KeyCreatesOnce
    <3>2. CASE a = Fresh
      BY <1>2, <2>1, <2>5, <3>2
    <3>3. CASE b = Fresh
      BY <1>2, <2>1, <2>5, <3>3
    <3>4. QED
      BY <3>1, <3>2, <3>3
  <2>7. QED
    BY <2>4, <2>6 DEF KeyInv
<1>8. CASE ~CreateInserts(r)
  <2>1. \A p \in Profiles : profile'[p].by = profile[p].by
    BY <1>8, Writes, CommitWrites DEF Keeps
  <2>2. Taken'
    BY <1>2, <1>3, <1>4, <1>5, <2>1 DEF KeyInv, Taken
  <2>3. KeyCreatesOnce'
    BY <1>2, <2>1 DEF KeyInv, KeyCreatesOnce
  <2>4. QED
    BY <2>2, <2>3 DEF KeyInv
<1>9. QED
  BY <1>7, <1>8

\* A handler that ends after its insert leaves its key taken or excused; one that ends
\* before it has created nothing.
LEMMA KeyEnds ==
    ASSUME TypeInv, Rows, Locked, StoreInv, KeyInv, NEW r \in Requests, Step(r), Succeeds(r) \/ Fails(r)
    PROVE  KeyInv'
<1>1. r \in Running
  BY StepRuns
<1>2. /\ req'[r].pc = "done" /\ \A s \in Requests \ {r} : req'[s] = req[s]
      /\ Running' = Running \ {r}
  BY Ended
<1>3. \A p \in Profiles : profile'[p].by = profile[p].by
  <2>1. ~CreateInserts(r)
    <3>1. CreateInserts(r) => req'[r].pc = "detail"
      BY DEF CreateInserts, Goes, TypeInv, TypeOK, Request
    <3>2. QED
      BY <1>2, <3>1
  <2>2. QED
    BY <2>1, Writes, CommitWrites DEF Keeps
<1>4. /\ \A k \in Keys : k # req[r].key => store'[k] = store[k]
      /\ \A k \in Keys : Succeeds(r) /\ store[k] # None => store'[k] # None
      /\ excused \subseteq excused'
      /\ Fails(r) /\ req[r].pc = "detail" /\ req[r].key # None => req[r].key \in excused'
  BY StoreEnds
<1>5. \A s \in Running : req[s].key \in Keys \cup {None} /\ s \in Requests
  BY DEF Running, TypeInv, TypeOK, Request
<1>7. Taken'
  <2> SUFFICES ASSUME NEW p \in Profiles, profile'[p].by # None, profile'[p].by \notin excused'
               PROVE  /\ store'[profile'[p].by] # None
                      /\ \A s \in Running' : req'[s].key = profile'[p].by => req'[s].pc = "detail"
    BY DEF Taken
  <2> DEFINE k == profile[p].by
  <2>1. k \in Keys /\ profile'[p].by = k
    BY <1>3 DEF TypeInv, TypeOK, Row
  <2>2. /\ k # None /\ k \notin excused
        /\ store[k] # None /\ \A s \in Running : req[s].key = k => req[s].pc = "detail"
    BY <1>4, <2>1 DEF KeyInv, Taken
  <2>3. store'[k] # None
    BY <1>1, <1>4, <2>1, <2>2
  <2>4. QED
    BY <1>2, <1>5, <2>1, <2>2, <2>3
<1>8. KeyCreatesOnce'
  BY <1>3, <1>4 DEF KeyInv, KeyCreatesOnce
<1>9. QED
  BY <1>7, <1>8 DEF KeyInv

\* A request with a key starts when the key is free.
LEMMA KeyBegins ==
    ASSUME TypeInv, KeyInv, NEW r \in Requests, NEW key \in Keys \cup {None}, Begun(r, key)
    PROVE  KeyInv'
<1>1. /\ req'[r].key = key /\ r \notin Running /\ Running' = Running \cup {r}
      /\ \A s \in Requests \ {r} : req'[s] = req[s]
      /\ key # None =>
           store[key] = None /\ store'[key] # None
      /\ \A k \in Keys \ {key} : store'[k] = store[k]
      /\ UNCHANGED <<profile, excused>>
  BY DEF Begun, Running
<1>2. \A s \in Running : s \in Requests /\ req'[s] = req[s] /\ req[s].key \in Keys \cup {None}
  BY <1>1 DEF Running, TypeInv, TypeOK, Request
<1>5. ASSUME NEW p \in Profiles, profile[p].by # None, profile[p].by \notin excused
      PROVE  /\ store'[profile[p].by] # None
             /\ \A s \in Running' : req'[s].key = profile[p].by => req'[s].pc = "detail"
  <2>1. /\ store[profile[p].by] # None
        /\ \A s \in Running : req[s].key = profile[p].by => req[s].pc = "detail"
    BY <1>5 DEF KeyInv, Taken
  <2>2. profile[p].by \in Keys /\ profile[p].by # key
    BY <1>1, <1>5, <2>1 DEF TypeInv, TypeOK, Row
  <2>3. QED
    BY <1>1, <1>2, <2>1, <2>2
<1>6. Taken'
  BY <1>1, <1>5 DEF Taken
<1>7. KeyCreatesOnce'
  BY <1>1 DEF KeyInv, KeyCreatesOnce
<1>8. QED
  BY <1>6, <1>7 DEF KeyInv

LEMMA KeyStep == TypeInv /\ Rows /\ Locked /\ StoreInv /\ KeyInv /\ [Next]_vars => KeyInv'
<1> SUFFICES ASSUME TypeInv, Rows, Locked, StoreInv, KeyInv, [Next]_vars PROVE KeyInv'
  OBVIOUS
<1>1. ASSUME NEW r \in Requests, Step(r) PROVE KeyInv'
  BY <1>1, StepKinds, KeyGoes, KeyEnds
<1>2. ASSUME NEW r \in Requests, Arrival(r) PROVE KeyInv'
  <2>1. CASE Starts(r)
    BY <2>1, Begins, KeyBegins
  <2>2. ASSUME Refused(r) PROVE KeyInv'
    <3>1. /\ Running' = Running /\ UNCHANGED <<profile, store, excused>>
          /\ \A s \in Running : req'[s] = req[s]
      BY <2>2 DEF Refused, Running
    <3>2. QED
      BY <3>1 DEF KeyInv, Taken, KeyCreatesOnce
  <2>3. QED
    BY <1>2, <2>1, <2>2, ArrivalKinds, Refuses
<1>3. ASSUME NEW k \in Keys, Expires(k) PROVE KeyInv'
  <2>1. /\ UNCHANGED <<profile, req>> /\ Running' = Running
        /\ excused' = excused \cup {k} /\ \A x \in Keys \ {k} : store'[x] = store[x]
    BY <1>3 DEF Expires, Running, TypeInv, TypeOK
  <2>5. \A p \in Profiles : profile[p].by \in Keys \cup {None}
    BY DEF TypeInv, TypeOK, Row
  <2>6. Taken'
    BY <2>1, <2>5 DEF KeyInv, Taken
  <2>7. KeyCreatesOnce'
    BY <2>1 DEF KeyInv, KeyCreatesOnce
  <2>8. QED
    BY <2>6, <2>7 DEF KeyInv
<1>4. CASE Dies
  <2>1. /\ Running' = {} /\ UNCHANGED profile
        /\ excused' = excused \cup {k \in Keys : store[k] # None}
    BY <1>4, TypeDies DEF Dies
  <2>2. \A p \in Profiles : profile[p].by # None => profile[p].by \in excused'
    BY <2>1 DEF KeyInv, Taken, TypeInv, TypeOK, Row
  <2>3. QED
    BY <2>1, <2>2 DEF KeyInv, Taken, KeyCreatesOnce
<1>5. CASE UNCHANGED vars
  BY <1>5 DEF vars, KeyInv, Taken, KeyCreatesOnce, Running
<1>6. QED
  BY <1>1, <1>2, <1>3, <1>4, <1>5 DEF Next

\* Under one idempotency key at most one profile is created, unless the key's record was
\* dropped: a second request meets the record of the first, in flight or completed.
THEOREM KeyCreatesOnceAlways == Spec => []KeyCreatesOnce
<1>1. Init => Rows /\ Locked
  BY DEF Init, NewRequest, NewRow, Running, Rows, Locked, Whole
<1>2. Init => KeyInv
  <2>1. Init => \A p \in Profiles : profile[p].by = None
    BY DEF Init, NewRow
  <2>2. QED
    BY <2>1 DEF KeyInv, Taken, KeyCreatesOnce
<1>3. KeyInv => KeyCreatesOnce
  BY DEF KeyInv
<1>4. QED
  BY TypeInit, TypeStep, <1>1, RowsStep, StoreInit, StoreStep, <1>2, KeyStep, <1>3, PTL DEF Spec

-----------------------------------------------------------------------------
(* Handlers that run alone *)

\* What a write of a status does to the statuses.
LEMMA StatusOf ==
    ASSUME TypeInv, NEW p \in Profiles, NEW status, StatusSet(p, status)
    PROVE  /\ profile'[p].status = status
           /\ \A x \in Profiles \ {p} : profile'[x].status = profile[x].status
BY DEF StatusSet, TypeInv, TypeOK, Row

\* Setting a status to active spoils nothing.
LEMMA Resumed ==
    ASSUME TypeInv, Eligible, NEW p \in Profiles, StatusSet(p, "active"), UNCHANGED active
    PROVE  Eligible'
<1>1. active \in Profiles \cup {None}
  BY DEF TypeInv, TypeOK
<1>2. QED
  BY <1>1, StatusOf DEF Eligible

\* A handler at another await.
LEMMA AtNext ==
    ASSUME TypeInv, NEW r \in Running, NEW pc, Next1(r, pc)
    PROVE  /\ req'[r].pc = pc /\ req'[r].id = req[r].id /\ req'[r].other = req[r].other
           /\ req'[r].flag = req[r].flag
<1>1. req[r] \in Request /\ r \in Requests /\ req \in [Requests -> Request]
  BY DEF TypeInv, TypeOK, Running
<1> DEFINE q == [req[r] EXCEPT !.pc = pc]
<1>2. q.pc = pc /\ q.id = req[r].id /\ q.other = req[r].other /\ q.flag = req[r].flag
  BY <1>1 DEF Request
<1>3. Goes(r, q)
  BY DEF Next1
<1> HIDE DEF q
<1>4. req'[r] = q
  BY <1>1, <1>3 DEF Goes
<1>5. QED
  BY <1>2, <1>4

\* At an await that nothing is asked of, or at its end, a handler is fine when the active
\* profile is.
LEMMA FineElsewhere ==
    ASSUME NEW r \in Requests, Eligible',
           req'[r].pc \notin {"replace", "reactivate", "status"}
    PROVE  Fine(r)'
BY DEF Fine

LEMMA EligibleKept ==
    ASSUME Eligible, UNCHANGED <<profile, active>>
    PROVE  Eligible'
BY DEF Eligible

LEMMA AloneCreate ==
    ASSUME TypeInv, ActiveExists, NEW r \in Running, Fine(r),
           CreateCounts(r) \/ CreateInserts(r) \/ UpdateLocks(r) \/ UpdateCommits(r)
    PROVE  Fine(r)'
<1>1. Eligible
  BY DEF Fine, CreateCounts, CreateInserts, UpdateLocks, UpdateCommits, At
<1>2. active \in Profiles \cup {None} /\ profile \in [Profiles -> Row] /\ r \in Requests
  BY Handling
<1>3. CASE CreateCounts(r)
  <2>1. req'[r].pc = "insert"
    BY <1>3 DEF CreateCounts, Goes, TypeInv, TypeOK, Running, Request
  <2>2. QED
    BY <1>1, <1>2, <1>3, <2>1, EligibleKept, FineElsewhere DEF CreateCounts
<1>4. CASE CreateInserts(r)
  <2>1. req'[r].pc = "detail"
    BY <1>4 DEF CreateInserts, Goes, TypeInv, TypeOK, Running, Request
  <2>2. Fresh \in Profiles /\ profile[Fresh].state = "none"
    BY <1>4, FreshIsFree DEF CreateInserts, TypeInv
  <2>3. active # Fresh \/ active = None
    BY <2>2 DEF ActiveExists, Live
  <2>4. profile'[Fresh].status = "active" /\ \A p \in Profiles \ {Fresh} : profile'[p] = profile[p]
    BY <1>2, <1>4, <2>2 DEF CreateInserts, NewRow
  <2>5. active' \in {Fresh, active}
    BY <1>4 DEF CreateInserts
  <2>6. Eligible'
    BY <1>1, <1>2, <2>2, <2>3, <2>4, <2>5 DEF Eligible
  <2>7. QED
    BY <1>2, <2>1, <2>6, FineElsewhere
<1>5. CASE UpdateLocks(r)
  <2>1. req'[r].pc = "commit"
    BY <1>5 DEF UpdateLocks, Goes, TypeInv, TypeOK, Running, Request
  <2>2. QED
    BY <1>1, <1>2, <1>5, <2>1, EligibleKept, FineElsewhere DEF UpdateLocks
<1>6. CASE UpdateCommits(r)
  <2>1. req'[r].pc = "detail" /\ UNCHANGED active
    BY <1>6, AtNext DEF UpdateCommits
  <2>2. \A p \in Profiles : profile'[p].status = profile[p].status
    BY <1>2, <1>6 DEF UpdateCommits, Row
  <2>3. Eligible'
    BY <1>1, <1>2, <2>1, <2>2 DEF Eligible
  <2>4. QED
    BY <1>2, <2>1, <2>3, FineElsewhere
<1>7. QED
  BY <1>3, <1>4, <1>5, <1>6

\* Actions that only end a handler, or only move it on.
LEMMA AloneReads ==
    ASSUME TypeInv, NEW r \in Running, Fine(r), UNCHANGED <<profile, active>>,
           req[r].pc # "reactivate",
           req'[r].pc \notin {"replace", "reactivate", "status"}
    PROVE  Fine(r)'
<1>1. r \in Requests /\ Eligible
  BY DEF Running, Fine
<1>2. QED
  BY <1>1, EligibleKept, FineElsewhere

LEMMA AloneSimple ==
    ASSUME TypeInv, NEW r \in Running, Fine(r),
           NotFound(r) \/ Detail(r) \/ Activate(r) \/ Resume(r)
    PROVE  Fine(r)'
<1>1. r \in Requests /\ HandlerOK(req[r])
  BY Handling
<1>2. CASE NotFound(r)
  BY <1>1, <1>2, Ended, AloneReads DEF NotFound
<1>3. CASE Detail(r)
  BY <1>1, <1>3, Ended, AloneReads DEF Detail
<1>4. CASE Activate(r)
  <2>1. req[r].id \in Profiles /\ StatusSet(req[r].id, "active") /\ active' = req[r].id
    BY <1>4 DEF Activate, Activated, StatusSet, Live
  <2>2. Eligible'
    BY <2>1, StatusOf DEF Eligible
  <2>3. req'[r].pc = "detail"
    BY <1>4, AtNext DEF Activate
  <2>4. QED
    BY <1>1, <2>2, <2>3, FineElsewhere
<1>5. CASE Resume(r)
  <2>1. req[r].id \in Profiles /\ StatusSet(req[r].id, "active") /\ UNCHANGED active /\ Eligible
    BY <1>5 DEF Resume, Live, At, Fine
  <2>2. req'[r].pc = "detail"
    BY <1>5, AtNext DEF Resume
  <2>3. QED
    BY <1>1, <2>1, <2>2, Resumed, FineElsewhere
<1>6. QED
  BY <1>2, <1>3, <1>4, <1>5

\* A deleted profile is replaced by one that is not paused, or that is about to be resumed.
LEMMA AloneDelete ==
    ASSUME TypeInv, ActiveExists, NEW r \in Running, Fine(r), ~overlapped',
           \/ DeleteReads(r) \/ DeleteDeletes(r) \/ DeleteLists(r) \/ DeleteReplaces(r)
           \/ DeleteReactivates(r)
    PROVE  Fine(r)'
<1>1. /\ r \in Requests /\ req[r] \in Request /\ HandlerOK(req[r])
      /\ profile \in [Profiles -> Row] /\ active \in Profiles \cup {None}
  BY Handling
<1>2. CASE DeleteReads(r)
  <2>1. req'[r].pc = "deleting"
    BY <1>2 DEF DeleteReads, Goes, TypeInv, TypeOK, Running, Request
  <2>2. QED
    BY <1>2, <2>1, AloneReads DEF DeleteReads, At
<1>3. CASE DeleteDeletes(r)
  <2>1. CASE Fails(r) /\ UNCHANGED <<profile, active>>
    BY <1>1, <1>3, <2>1, Ended, AloneReads DEF DeleteDeletes
  <2>2. CASE /\ profile' = Deleted({req[r].id}) /\ active' = PointerWithout({req[r].id})
             /\ Next1(r, "list") \/ Succeeds(r)
    <3>1. \A p \in Profiles : profile'[p].status = profile[p].status
      <4>1. ASSUME NEW p \in Profiles PROVE profile'[p].status = profile[p].status
        <5>1. profile[p] \in Row
          BY <1>1
        <5>2. profile'[p] \in {profile[p], [profile[p] EXCEPT !.state = "deleted"]}
          BY <2>2 DEF Deleted
        <5>3. QED
          BY <5>1, <5>2 DEF Row
      <4>2. QED
        BY <4>1
    <3>2. active' \in {active, None}
      BY <2>2 DEF PointerWithout
    <3>3. Eligible
      BY <1>3 DEF DeleteDeletes, Fine
    <3>4. Eligible'
      BY <1>1, <3>1, <3>2, <3>3 DEF Eligible
    <3>5. req'[r].pc \in {"list", "done"}
      BY <1>1, <2>2, AtNext, Ended
    <3>6. QED
      BY <1>1, <3>4, <3>5, FineElsewhere
  <2>3. QED
    BY <1>3, <2>1, <2>2 DEF DeleteDeletes
<1>4. CASE DeleteLists(r)
  <2>1. CASE Succeeds(r)
    BY <1>1, <1>4, <2>1, Ended, AloneReads DEF DeleteLists
  <2>2. CASE Live # {}
    <3> DEFINE flag == profile[Replacement].status = "active"
               q == [req[r] EXCEPT !.pc = "replace", !.other = Replacement, !.flag = flag]
    <3>1. Goes(r, q) /\ UNCHANGED <<profile, active>>
      BY <1>4, <2>2 DEF DeleteLists
    <3>2. q.pc = "replace" /\ q.other = Replacement /\ (q.flag <=> flag)
      BY <1>1 DEF Request
    <3>3. Eligible'
      <4>1. Eligible
        BY <1>4 DEF DeleteLists, Fine
      <4>2. QED
        BY <3>1, <4>1, EligibleKept
    <3> HIDE DEF q
    <3>4. req'[r] = q
      BY <1>1, <3>1 DEF Goes, TypeInv, TypeOK
    <3>5. QED
      BY <3>1, <3>2, <3>3, <3>4 DEF Fine
  <2>3. QED
    BY <1>4, <2>1, <2>2 DEF DeleteLists
<1>5. CASE DeleteReplaces(r)
  <2>1. req[r].pc = "replace" /\ UNCHANGED profile
    BY <1>5 DEF DeleteReplaces
  <2>2. ~Fails(r)
    BY <2>1 DEF Fails
  <2>3. req[r].other \in Live /\ active' = req[r].other
    BY <1>5, <2>2 DEF DeleteReplaces
  <2>4. CASE req[r].flag
    <3>1. req'[r].pc = "done"
      BY <1>1, <1>5, <2>3, <2>4, Ended DEF DeleteReplaces
    <3>2. Eligible'
      BY <2>1, <2>3, <2>4 DEF Fine, Eligible
    <3>3. QED
      BY <1>1, <3>1, <3>2, FineElsewhere
  <2>5. CASE ~req[r].flag
    <3>1. req'[r].pc = "reactivate" /\ req'[r].other = req[r].other
      BY <1>5, <2>3, <2>5, AtNext DEF DeleteReplaces
    <3>2. QED
      BY <2>3, <3>1 DEF Fine
  <2>6. QED
    BY <2>4, <2>5
<1>6. CASE DeleteReactivates(r)
  <2>1. /\ req[r].pc = "reactivate" /\ active = req[r].other /\ active' = active
        /\ req[r].other \in Profiles
    BY <1>1, <1>6 DEF DeleteReactivates, Fine, HandlerOK
  <2>2. req[r].other \in Live
    BY <2>1, ProfilesAssumption DEF ActiveExists
  <2>3. StatusSet(req[r].other, "active")
    BY <1>6, <2>2 DEF DeleteReactivates
  <2>4. Eligible'
    BY <2>1, <2>3, StatusOf DEF Eligible
  <2>5. req'[r].pc = "done"
    BY <1>1, <1>6, Ended DEF DeleteReactivates
  <2>6. QED
    BY <1>1, <2>4, <2>5, FineElsewhere
<1>7. QED
  BY <1>2, <1>3, <1>4, <1>5, <1>6

LEMMA AloneDuplicate ==
    ASSUME TypeInv, NEW r \in Running, Fine(r),
           DuplicateFinds(r) \/ DuplicateReadsTitles(r) \/ DuplicateReadsSkills(r)
    PROVE  Fine(r)'
<1>1. req[r] \in Request /\ r \in Requests
  BY Handling
<1>2. CASE DuplicateFinds(r)
  BY <1>2, AtNext, AloneReads DEF DuplicateFinds, At
<1>3. CASE DuplicateReadsTitles(r)
  <2>1. req'[r].pc = "skills"
    BY <1>1, <1>3 DEF DuplicateReadsTitles, Goes, TypeInv, TypeOK, Request
  <2>2. QED
    BY <1>3, <2>1, AloneReads DEF DuplicateReadsTitles
<1>4. CASE DuplicateReadsSkills(r)
  <2>1. req'[r].pc = "count"
    BY <1>1, <1>4 DEF DuplicateReadsSkills, Goes, TypeInv, TypeOK, Request
  <2>2. QED
    BY <1>4, <2>1, AloneReads DEF DuplicateReadsSkills
<1>5. QED
  BY <1>2, <1>3, <1>4

\* A profile is paused when it is no longer the active one.
LEMMA AlonePause ==
    ASSUME TypeInv, NEW r \in Running, Fine(r), ~overlapped',
           \/ PauseReads(r) \/ PauseLists(r) \/ PauseActivates(r) \/ PauseClears(r)
           \/ PauseSets(r) \/ Wipe(r)
    PROVE  Fine(r)'
<1>1. /\ r \in Requests /\ req[r] \in Request /\ HandlerOK(req[r])
      /\ profile \in [Profiles -> Row] /\ active \in Profiles \cup {None}
  BY Handling
<1>2. req[r].pc # "reactivate" /\ Eligible
  BY DEF PauseReads, PauseLists, PauseActivates, PauseClears, PauseSets, Wipe, At, Fine
<1>3. CASE PauseReads(r)
  <2>1. UNCHANGED <<profile, active>> /\ Eligible'
    BY <1>2, <1>3, EligibleKept DEF PauseReads
  <2>2. CASE active = req[r].id
    BY <1>1, <1>3, <2>1, <2>2, AtNext, FineElsewhere DEF PauseReads, PausesActive
  <2>3. CASE active # req[r].id
    <3>1. req'[r].pc = "status" /\ req'[r].id = req[r].id
      BY <1>3, <2>3, AtNext DEF PauseReads, PausesActive
    <3>2. QED
      BY <2>1, <2>3, <3>1 DEF Fine
  <2>4. QED
    BY <2>2, <2>3
<1>4. CASE PauseLists(r)
  <2>1. req'[r].pc \in {"done", "clear", "instead"}
    <3>1. CASE Fails(r)
      BY <1>1, <3>1, Ended
    <3>2. CASE Next1(r, "clear")
      BY <3>2, AtNext
    <3>3. CASE Goes(r, [req[r] EXCEPT !.flag = TRUE])
      <4>1. req[r].pc = "instead"
        BY <1>4 DEF PauseLists
      <4>2. QED
        BY <1>1, <3>3, <4>1 DEF Goes, TypeInv, TypeOK, Request
    <3>4. QED
      BY <1>4, <3>1, <3>2, <3>3 DEF PauseLists
  <2>2. QED
    BY <1>2, <1>4, <2>1, AloneReads DEF PauseLists
<1>5. CASE PauseActivates(r)
  <2>1. CASE Fails(r) /\ UNCHANGED <<profile, active>>
    BY <1>1, <1>2, <2>1, Ended, AloneReads
  <2>2. CASE req[r].other \in Live /\ Activated(req[r].other) /\ Next1(r, "status")
    <3>1. /\ req[r].other \in Profiles /\ StatusSet(req[r].other, "active")
          /\ active' = req[r].other
      BY <2>2 DEF Activated, StatusSet, Live
    <3>2. Eligible'
      BY <3>1, StatusOf DEF Eligible
    <3>3. req'[r].pc = "status" /\ req'[r].id = req[r].id
      BY <2>2, AtNext
    <3>4. req[r].other # req[r].id
      BY <1>1, <1>5 DEF PauseActivates, HandlerOK
    <3>5. QED
      BY <3>1, <3>2, <3>3, <3>4 DEF Fine
  <2>3. QED
    BY <1>5, <2>1, <2>2 DEF PauseActivates
<1>6. CASE PauseClears(r)
  <2>1. req'[r].pc = "status" /\ req'[r].id = req[r].id /\ active' = None
    BY <1>6, AtNext DEF PauseClears
  <2>2. req[r].id \in Profiles
    BY <1>1, <1>6 DEF PauseClears, HandlerOK, Belongs
  <2>3. QED
    BY <2>1, <2>2, ProfilesAssumption DEF Fine, Eligible
<1>7. CASE PauseSets(r)
  <2>1. req[r].pc = "status" /\ active # req[r].id /\ UNCHANGED active
    BY <1>7 DEF PauseSets, Fine
  <2>2. ~Fails(r)
    BY <2>1 DEF Fails
  <2>3. req[r].id \in Profiles /\ StatusSet(req[r].id, "paused") /\ Next1(r, "detail")
    BY <1>7, <2>2 DEF PauseSets, Live
  <2>4. Eligible'
    BY <1>1, <1>2, <2>1, <2>3, StatusOf DEF Eligible
  <2>5. QED
    BY <1>1, <2>3, <2>4, AtNext, FineElsewhere
<1>8. CASE Wipe(r)
  <2>1. Eligible' /\ req'[r].pc = "done"
    BY <1>1, <1>8, Ended DEF Wipe, Eligible
  <2>2. QED
    BY <1>1, <2>1, FineElsewhere
<1>9. QED
  BY <1>3, <1>4, <1>5, <1>6, <1>7, <1>8

LEMMA AloneStep == TypeInv /\ ActiveExists /\ Alone /\ [Next]_vars => Alone'
<1> SUFFICES ASSUME TypeInv, ActiveExists, Alone, [Next]_vars, ~overlapped'
             PROVE  /\ \A r, s \in Running' : r = s
                    /\ \A r \in Running' : Fine(r)'
                    /\ Running' = {} => Eligible'
  BY DEF Alone
<1>1. ASSUME NEW r \in Requests, Step(r)
      PROVE  /\ \A t, s \in Running' : t = s
             /\ \A s \in Running' : Fine(s)'
             /\ Running' = {} => Eligible'
  <2>1. r \in Running
    BY <1>1, StepRuns
  <2>2. Running' \subseteq Running /\ ~overlapped
    <3>1. CASE Succeeds(r) \/ Fails(r)
      <4>1. Running' = Running \ {r}
        BY <3>1, Ended
      <4>2. CASE Succeeds(r)
        BY <4>1, <4>2 DEF Succeeds
      <4>3. CASE Fails(r)
        BY <4>1, <4>3 DEF Fails
      <4>4. QED
        BY <3>1, <4>2, <4>3
    <3>2. ASSUME NEW q \in Request, Goes(r, q), Carries(r, q)
          PROVE  Running' \subseteq Running /\ ~overlapped
      BY <2>1, <3>2, GoneOn DEF Carries
    <3>3. QED
      BY <1>1, <3>1, <3>2, StepKinds
  <2>3. Fine(r) /\ Running = {r}
    BY <2>1, <2>2 DEF Alone
  <2>4. Fine(r)'
    BY <1>1, <2>1, <2>3, AloneCreate, AloneSimple, AloneDelete, AloneDuplicate, AlonePause
    DEF Step
  <2>5. Running' = {} => Eligible'
    BY <1>1, <2>4 DEF Fine, Running
  <2>6. QED
    BY <2>2, <2>3, <2>4, <2>5
<1>2. ASSUME NEW r \in Requests, Arrival(r)
      PROVE  /\ \A t, s \in Running' : t = s
             /\ \A s \in Running' : Fine(s)'
             /\ Running' = {} => Eligible'
  <2>1. ASSUME NEW key \in Keys \cup {None}, Begun(r, key)
        PROVE  Running' = {r} /\ Fine(r)'
    <3>1. ~overlapped /\ Running = {}
      BY <2>1 DEF Begun
    <3>2. Running' = {r} /\ req'[r].pc = "start" /\ UNCHANGED <<profile, active>>
      BY <2>1, <3>1 DEF Begun
    <3>3. Eligible'
      BY <3>1, <3>2, EligibleKept DEF Alone
    <3>4. QED
      BY <3>2, <3>3, FineElsewhere
  <2>2. CASE Refused(r)
    <3>1. /\ Running' = Running /\ UNCHANGED <<profile, active, overlapped>>
          /\ \A s \in Running : req'[s] = req[s]
      BY <2>2 DEF Refused, Running
    <3>2. \A s \in Running : Fine(s)'
      BY <3>1 DEF Alone, Fine, Eligible
    <3>3. QED
      BY <3>1, <3>2 DEF Alone, Eligible
  <2>3. QED
    BY <1>2, <2>1, <2>2, ArrivalKinds, Begins, Refuses
<1>3. CASE Dies
  BY <1>3 DEF Dies
<1>4. CASE UNCHANGED <<profile, active, req, overlapped>>
  BY <1>4 DEF Alone, Fine, Eligible, Running
<1>5. QED
  BY <1>1, <1>2, <1>3, <1>4 DEF Next, vars, Expires

\* When handlers ran one at a time and to their end, the active profile is not a paused
\* one: delete and pause choose another, resume the one they choose, or clear the pointer.
THEOREM AloneActiveEligibleAlways == Spec => []AloneActiveEligible
<1>1. ASSUME Init PROVE ActiveExists /\ Alone
  <2>1. Existing # {} => Min(Existing) \in Existing
    BY MinIsLeast, ProfilesAssumption
  <2>2. \A p \in Existing : p \in Live
    BY <1>1, ProfilesAssumption DEF Init, NewRow, Live
  <2>3. active = IF Existing = {} THEN None ELSE Min(Existing)
    BY <1>1 DEF Init
  <2>4. \A p \in Profiles : profile[p].status = "active"
    BY <1>1 DEF Init, NewRow
  <2>5. Running = {}
    BY <1>1 DEF Init, NewRequest, Running
  <2>6. ActiveExists
    BY <2>1, <2>2, <2>3 DEF ActiveExists
  <2>7. Eligible
    BY <2>4, <2>6 DEF ActiveExists, Eligible, Live
  <2>8. QED
    BY <2>5, <2>6, <2>7 DEF Alone
<1>2. Alone => AloneActiveEligible
  BY DEF Alone, AloneActiveEligible, Eligible
<1>3. QED
  BY TypeInit, TypeStep, <1>1, ActiveStep, AloneStep, <1>2, PTL DEF Spec
=============================================================================
