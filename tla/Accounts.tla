------------------------------ MODULE Accounts ------------------------------
(***************************************************************************)
(* Signing in, staying signed in and leaving: sessions, magic links, the   *)
(* Google flow, the guards in front of every handler and account deletion  *)
(* (packages/auth/src, apps/api/src/auth, apps/api/src/common/guards,      *)
(* apps/api/src/privacy/account-deletion.service.ts).                      *)
(*                                                                         *)
(* A request is a handler the API runs for a browser; each of its awaits   *)
(* on the database or on Google is a step, and requests interleave.  The   *)
(* two transactions of UserService read and then write under READ          *)
(* COMMITTED, so they are two steps; account deletion decides nothing on   *)
(* what it reads and is one.                                               *)
(*                                                                         *)
(* A token, its hash and its row are one name: hashing is injective for    *)
(* all the code relies on.  Audit rows, user agents and last_active_at are *)
(* left out: no decision reads them.                                       *)
(***************************************************************************)
EXTENDS Naturals, FiniteSets

CONSTANTS
    UserIds,        \* ids of users rows
    Emails,         \* normalized addresses
    Subjects,       \* Google identities
    EmailOf,        \* [Subjects -> Emails]: the address in the id token
    Sessions,       \* ids of sessions rows
    Links,          \* ids of magic_link_tokens rows
    Flows,          \* OAuth login transactions: state, PKCE verifier, sealed cookie
    Browsers,
    Requests,
    MaxEvents,      \* bound on expiries and browser restarts
    Homes,          \* sets of browsers that may be signed in at the start,
    HomeUser,       \* [Browsers -> UserIds]: as whom,
    HomeEmail,      \* [UserIds -> Emails]
    HomeSession,    \* [Browsers -> Sessions]
    None

ASSUME AccountsAssumption ==
    /\ MaxEvents \in Nat
    /\ EmailOf \in [Subjects -> Emails]
    /\ Homes \subseteq SUBSET Browsers
    /\ HomeUser \in [Browsers -> UserIds]
    /\ HomeEmail \in [UserIds -> Emails]
    /\ HomeSession \in [Browsers -> Sessions]

ASSUME NamesAssumption ==
    /\ None \notin UNION {UserIds, Emails, Subjects, Sessions, Links, Flows, Browsers}
    /\ Links \cap Flows = {}

VARIABLES
    users,          \* users rows (user_preferences rows come and go with them)
    accounts,       \* accounts rows by (provider, provider_account_id): the user bound
    links,          \* magic_link_tokens rows
    sessions,       \* sessions rows; via: what a session was issued for
    flows,          \* the browser a flow was started in, and whether its TTL is over
    codes,          \* flows whose authorization code Google has already exchanged
    jar,            \* cookies of each browser
    req,            \* requests
    events          \* expiries and restarts so far

vars == <<users, accounts, links, sessions, flows, codes, jar, req, events>>

UserRow == [status : {"active"}, email : Emails, verified : BOOLEAN]
           \cup [status : {"none", "deleted"}, email : {None}, verified : {FALSE}]

LinkRow == [state : {"none", "unused", "used", "deleted"}, expired : BOOLEAN,
            email : Emails \cup {None}, user : UserIds \cup {None}]

SessionRow == [state : {"none", "live", "revoked", "deleted"}, expired : BOOLEAN,
               user : UserIds \cup {None}, via : Links \cup Flows \cup {None}]

FlowRow == [browser : Browsers \cup {None}, expired : BOOLEAN]

Jar == [session : Sessions \cup {None}, csrf : BOOLEAN, flow : Flows \cup {None}]

SignInPcs == {"link_create", "link_mark", "email_resolve", "email_insert",
              "exchange", "google_resolve", "google_bind", "issue", "establish"}

GuardedPcs == {"authenticate", "principal", "handler", "logout"}

\* late: when the request arrived its session was revoked, expired or deleted,
\* or its user was.
Request == [pc : {"new", "done"} \cup SignInPcs \cup GuardedPcs,
            browser : Browsers \cup {None}, session : Sessions \cup {None},
            user : UserIds \cup {None}, email : Emails \cup {None},
            via : Links \cup Flows \cup {None}, subject : Subjects \cup {None},
            csrf : BOOLEAN, late : BOOLEAN]

NewRequest == [pc |-> "new", browser |-> None, session |-> None, user |-> None,
               email |-> None, via |-> None, subject |-> None, csrf |-> FALSE, late |-> FALSE]

\* Some browsers are already signed in.
Init ==
    \E home \in Homes :
        LET present == {HomeUser[b] : b \in home} IN
        /\ users = [u \in UserIds |->
             IF u \in present
             THEN [status |-> "active", email |-> HomeEmail[u], verified |-> TRUE]
             ELSE [status |-> "none", email |-> None, verified |-> FALSE]]
        /\ sessions = [s \in Sessions |->
             IF \E b \in home : HomeSession[b] = s
             THEN [state |-> "live", expired |-> FALSE, via |-> None,
                   user |-> HomeUser[CHOOSE b \in home : HomeSession[b] = s]]
             ELSE [state |-> "none", expired |-> FALSE, via |-> None, user |-> None]]
        /\ jar = [b \in Browsers |->
             IF b \in home
             THEN [session |-> HomeSession[b], csrf |-> TRUE, flow |-> None]
             ELSE [session |-> None, csrf |-> FALSE, flow |-> None]]
        /\ accounts = [g \in Subjects |-> None]
        /\ links = [l \in Links |-> [state |-> "none", expired |-> FALSE,
                                     email |-> None, user |-> None]]
        /\ flows = [f \in Flows |-> [browser |-> None, expired |-> FALSE]]
        /\ codes = {}
        /\ req = [r \in Requests |-> NewRequest]
        /\ events = 0

-----------------------------------------------------------------------------
(* Rows *)

WithEmail(e) == {u \in UserIds : users[u].email = e}

\* authenticate(): a row is found, not revoked and not expired.
Usable(s) == sessions[s].state = "live" /\ ~sessions[s].expired

\* Mutation: the principal is loaded whatever the status of its row.
PrincipalAnyStatus(u) == users[u].status # "none"

\* findActiveById(): deleted users are rejected.
Principal(u) == users[u].status = "active"

\* The rows of sessions after UPDATE ... SET revoked_at WHERE revoked_at IS NULL
\* AND Which.
Revoked(Which(_)) ==
    [s \in Sessions |-> IF Which(s) /\ sessions[s].state = "live"
                        THEN [sessions[s] EXCEPT !.state = "revoked"] ELSE sessions[s]]

\* Unused session ids.
Spare == {s \in Sessions : sessions[s].state = "none"}

\* Mutation: revocation by id forgets to look at the owner.
RevokeByIdOfAnyone(s, u) == Revoked(LAMBDA t : t = s)

RevokeById(s, u) == Revoked(LAMBDA t : t = s /\ sessions[t].user = u)

RevokeOthers(u, keep) == Revoked(LAMBDA t : t # keep /\ sessions[t].user = u)

RevokeAll(u) == Revoked(LAMBDA t : sessions[t].user = u)

-----------------------------------------------------------------------------
(* Requests *)

At(r, pc) == req[r].pc = pc

\* A request that is over keeps nothing.
Over == [NewRequest EXCEPT !.pc = "done"]

Goes(r, pc) == req' = [req EXCEPT ![r] = IF pc = "done" THEN Over
                                         ELSE [@ EXCEPT !.pc = pc]]

\* The response, when it sets or clears no cookie.
Responds(r) == Goes(r, "done") /\ UNCHANGED jar

\* A request reaches the API from a browser.
Arrives(r, request) == At(r, "new") /\ req' = [req EXCEPT ![r] = request]

From(b, pc) == [NewRequest EXCEPT !.browser = b, !.pc = pc]

-----------------------------------------------------------------------------
(* Magic links *)

\* requestMagicLink: the user is looked up ...
RequestMagicLink(r, b, e) ==
    /\ Arrives(r, [From(b, "link_create") EXCEPT !.email = e,
                     !.user = IF WithEmail(e) = {} THEN None
                              ELSE CHOOSE u \in WithEmail(e) : TRUE])
    /\ UNCHANGED <<users, accounts, links, sessions, flows, codes, jar, events>>

\* ... and a link issued, bound to that user or to none.
IssueLink(r, l) ==
    /\ At(r, "link_create")
    /\ links[l].state = "none"
    /\ links' = [links EXCEPT ![l] = [state |-> "unused", expired |-> FALSE,
                                      email |-> req[r].email, user |-> req[r].user]]
    /\ Responds(r)
    /\ UNCHANGED <<users, accounts, sessions, flows, codes, events>>

\* verifyMagicLink: the row as it is found ...
OpenLink(r, b, l) ==
    /\ links[l].state # "none"
    /\ Arrives(r, IF links[l].state = "unused" /\ ~links[l].expired
                  THEN [From(b, "link_mark") EXCEPT !.via = l, !.email = links[l].email]
                  ELSE Over)
    /\ UNCHANGED <<users, accounts, links, sessions, flows, codes, jar, events>>

\* Mutation: markUsed without "used_at IS NULL".
MarkUsedAgain(l) == links[l].state \in {"unused", "used"}

\* markUsed: did this call flip it?
MarkUsed(l) == links[l].state = "unused"

\* ... and its consumption, by one caller only.
ConsumeLink(r) ==
    LET l == req[r].via IN
    /\ At(r, "link_mark")
    /\ IF MarkUsed(l)
       THEN links' = [links EXCEPT ![l].state = "used"] /\ Goes(r, "email_resolve")
       ELSE UNCHANGED links /\ Goes(r, "done")
    /\ UNCHANGED <<users, accounts, sessions, flows, codes, jar, events>>

\* findOrCreateByEmail, the address being known.
ResolveEmail(r, u) ==
    /\ At(r, "email_resolve")
    /\ u \in WithEmail(req[r].email)
    /\ users' = [users EXCEPT ![u].verified = TRUE]
    /\ req' = [req EXCEPT ![r].pc = "issue", ![r].user = u]
    /\ UNCHANGED <<accounts, links, sessions, flows, codes, jar, events>>

ResolveUnknownEmail(r) ==
    /\ At(r, "email_resolve")
    /\ WithEmail(req[r].email) = {}
    /\ Goes(r, "email_insert")
    /\ UNCHANGED <<users, accounts, links, sessions, flows, codes, jar, events>>

NewUser(e, verified) == [status |-> "active", email |-> e, verified |-> verified]

\* The insert of findOrCreateByEmail: users_email_unique may refuse it, and
\* the request fails with the link already consumed.
CreateByEmail(r, u) ==
    /\ At(r, "email_insert")
    /\ users[u].status = "none"
    /\ WithEmail(req[r].email) = {}
    /\ users' = [users EXCEPT ![u] = NewUser(req[r].email, TRUE)]
    /\ req' = [req EXCEPT ![r].pc = "issue", ![r].user = u]
    /\ UNCHANGED <<accounts, links, sessions, flows, codes, jar, events>>

EmailTaken(r) ==
    /\ At(r, "email_insert")
    /\ WithEmail(req[r].email) # {}
    /\ Responds(r)
    /\ UNCHANGED <<users, accounts, links, sessions, flows, codes, events>>

-----------------------------------------------------------------------------
(* Google *)

\* googleStart: state, verifier and browser are sealed into a cookie.
GoogleStart(b, f) ==
    /\ flows[f].browser = None
    /\ flows' = [flows EXCEPT ![f].browser = b]
    /\ jar' = [jar EXCEPT ![b].flow = f]
    /\ UNCHANGED <<users, accounts, links, sessions, codes, req, events>>

\* Mutation: the state the provider echoes is not compared with the cookie's.
VerifiesStateAny(sealed, state) == sealed # None /\ ~flows[sealed].expired

\* OAuthStateService.verify.
VerifiesState(sealed, state) ==
    sealed # None /\ ~flows[sealed].expired /\ sealed = state

ClearsFlow(b) == jar' = [jar EXCEPT ![b].flow = None]

\* googleCallback refused: denied at Google, no code, or a state that does
\* not verify.  The transaction cookie goes with the response.
RefuseCallback(r, b) ==
    /\ jar[b].flow # None
    /\ Arrives(r, Over)
    /\ ClearsFlow(b)
    /\ UNCHANGED <<users, accounts, links, sessions, flows, codes, events>>

\* googleCallback with the code and state of flow f.
GoogleCallback(r, b, f) ==
    /\ flows[f].browser # None
    /\ VerifiesState(jar[b].flow, f)
    /\ Arrives(r, [From(b, "exchange") EXCEPT !.via = f])
    /\ UNCHANGED <<users, accounts, links, sessions, flows, codes, jar, events>>

\* exchangeAndVerify: a code is good once, with its own verifier.
Exchange(r, g) ==
    /\ At(r, "exchange")
    /\ req[r].via \notin codes
    /\ codes' = codes \cup {req[r].via}
    /\ req' = [req EXCEPT ![r].pc = "google_resolve", ![r].subject = g,
                          ![r].email = EmailOf[g]]
    /\ UNCHANGED <<users, accounts, links, sessions, flows, jar, events>>

\* The catch of googleCallback.
CallbackFails(r) ==
    /\ Goes(r, "done")
    /\ ClearsFlow(req[r].browser)
    /\ UNCHANGED <<users, accounts, links, sessions, flows, codes, events>>

ExchangeFails(r) == At(r, "exchange") /\ CallbackFails(r)

\* findOrCreateByGoogle: the identity is bound already ...
ResolveAccount(r) ==
    LET u == accounts[req[r].subject] IN
    /\ At(r, "google_resolve")
    /\ u # None
    /\ req' = [req EXCEPT ![r].pc = "issue", ![r].user = u]
    /\ UNCHANGED <<users, accounts, links, sessions, flows, codes, jar, events>>

\* ... or not: the user with its address, if there is one, is read.
ResolveNewAccount(r) ==
    /\ At(r, "google_resolve")
    /\ accounts[req[r].subject] = None
    /\ req' = [req EXCEPT ![r].pc = "google_bind",
                 ![r].user = IF WithEmail(req[r].email) = {} THEN None
                             ELSE CHOOSE u \in WithEmail(req[r].email) : TRUE]
    /\ UNCHANGED <<users, accounts, links, sessions, flows, codes, jar, events>>

\* Mutation: the insert into accounts overwrites on conflict.
BindsOverwriting(g) == TRUE

\* accounts_provider_account_unique.
Binds(g) == accounts[g] = None

\* The inserts of findOrCreateByGoogle, for the user that was read ...
BindKnownUser(r) ==
    LET g == req[r].subject IN
    /\ At(r, "google_bind")
    /\ req[r].user # None
    /\ Binds(g)
    /\ accounts' = [accounts EXCEPT ![g] = req[r].user]
    /\ Goes(r, "issue")
    /\ UNCHANGED <<users, links, sessions, flows, codes, jar, events>>

\* ... or for a new one.
BindNewUser(r, u, verified) ==
    LET g == req[r].subject IN
    /\ At(r, "google_bind")
    /\ req[r].user = None
    /\ users[u].status = "none"
    /\ WithEmail(req[r].email) = {}
    /\ Binds(g)
    /\ users' = [users EXCEPT ![u] = NewUser(req[r].email, verified)]
    /\ accounts' = [accounts EXCEPT ![g] = u]
    /\ req' = [req EXCEPT ![r].pc = "issue", ![r].user = u]
    /\ UNCHANGED <<links, sessions, flows, codes, jar, events>>

\* A unique index refuses: the transaction is rolled back.
BindFails(r) ==
    /\ At(r, "google_bind")
    /\ \/ ~Binds(req[r].subject)
       \/ req[r].user = None /\ WithEmail(req[r].email) # {}
    /\ CallbackFails(r)

-----------------------------------------------------------------------------
(* Sessions *)

\* SessionService.issue.
IssueSession(r, s) ==
    /\ At(r, "issue")
    /\ s \in Spare
    /\ sessions' = [sessions EXCEPT ![s] = [state |-> "live", expired |-> FALSE,
                                            user |-> req[r].user, via |-> req[r].via]]
    /\ req' = [req EXCEPT ![r].pc = "establish", ![r].session = s]
    /\ UNCHANGED <<users, accounts, links, flows, codes, jar, events>>

\* establishSession: session and CSRF cookies of the response.
EstablishSession(r) ==
    LET b == req[r].browser IN
    /\ At(r, "establish")
    /\ jar' = [jar EXCEPT ![b] = [session |-> req[r].session, csrf |-> TRUE,
                                  flow |-> IF req[r].via \in Flows THEN None ELSE @.flow]]
    /\ Goes(r, "done")
    /\ UNCHANGED <<users, accounts, links, sessions, flows, codes, events>>

\* logout is public: without a session cookie there is nothing to revoke.
Logout(r, b) ==
    /\ jar[b].session # None
    /\ Arrives(r, [From(b, "logout") EXCEPT !.session = jar[b].session])
    /\ UNCHANGED <<users, accounts, links, sessions, flows, codes, jar, events>>

ClearsSession(b) == jar' = [jar EXCEPT ![b].session = None]

LogoutRevokes(r) ==
    LET s == req[r].session IN
    /\ At(r, "logout")
    /\ sessions' = Revoked(LAMBDA t : t = s)
    /\ ClearsSession(req[r].browser)
    /\ Goes(r, "done")
    /\ UNCHANGED <<users, accounts, links, flows, codes, events>>

-----------------------------------------------------------------------------
(* Guarded requests *)

\* A request to a route that is not public, with the browser's cookies.
Guarded(r, b) ==
    LET s == jar[b].session IN
    /\ s # None
    /\ Arrives(r, [From(b, "authenticate") EXCEPT !.session = s, !.csrf = jar[b].csrf,
                     !.late = \/ ~Usable(s)
                              \/ users[sessions[s].user].status # "active"])
    /\ UNCHANGED <<users, accounts, links, sessions, flows, codes, jar, events>>

\* SessionAuthGuard: authenticate() ...
Authenticate(r) ==
    LET s == req[r].session IN
    /\ At(r, "authenticate")
    /\ req' = [req EXCEPT ![r] = IF Usable(s)
                 THEN [@ EXCEPT !.pc = "principal", !.user = sessions[s].user]
                 ELSE Over]
    /\ UNCHANGED <<users, accounts, links, sessions, flows, codes, jar, events>>

\* ... then findActiveById() and, at once, CsrfGuard: a mutating request must
\* echo the CSRF cookie that came with it.
LoadPrincipal(r) ==
    /\ At(r, "principal")
    /\ Goes(r, IF Principal(req[r].user) /\ req[r].csrf THEN "handler" ELSE "done")
    /\ UNCHANGED <<users, accounts, links, sessions, flows, codes, jar, events>>

\* DELETE /me/sessions/:id, /me/sessions?others=true and /me/sessions, and
\* the "sessions" category of delete-data.
RevokeSessions(r) ==
    LET u == req[r].user IN
    /\ At(r, "handler")
    /\ \/ \E s \in Sessions : sessions' = RevokeById(s, u)
       \/ sessions' = RevokeOthers(u, req[r].session)
       \/ sessions' = RevokeAll(u)
       \/ sessions' = [s \in Sessions |-> IF sessions[s].user = u
                       THEN [sessions[s] EXCEPT !.state = "deleted"] ELSE sessions[s]]
    /\ Responds(r)
    /\ UNCHANGED <<users, accounts, links, flows, codes, events>>

\* Mutation: the row keeps its address.
AnonymizedKeepingEmail(row) == [row EXCEPT !.status = "deleted", !.verified = FALSE]

Anonymized(row) == [status |-> "deleted", email |-> None, verified |-> FALSE]

\* deleteAccount, one transaction; the response clears the session cookie.
DeleteAccount(r) ==
    LET u == req[r].user IN
    /\ At(r, "handler")
    /\ sessions' = [s \in Sessions |-> IF sessions[s].user = u
                     THEN [sessions[s] EXCEPT !.state = "deleted"] ELSE sessions[s]]
    /\ accounts' = [g \in Subjects |-> IF accounts[g] = u THEN None ELSE accounts[g]]
    /\ links' = [l \in Links |-> IF links[l].user = u
                  THEN [links[l] EXCEPT !.state = "deleted"] ELSE links[l]]
    /\ users' = [users EXCEPT ![u] = Anonymized(@)]
    /\ ClearsSession(req[r].browser)
    /\ Goes(r, "done")
    /\ UNCHANGED <<flows, codes, events>>

-----------------------------------------------------------------------------
(* Time, and the browser *)

Happens == events < MaxEvents /\ events' = events + 1

SessionExpires(s) ==
    /\ Happens
    /\ sessions[s].state = "live" /\ ~sessions[s].expired
    /\ sessions' = [sessions EXCEPT ![s].expired = TRUE]
    /\ UNCHANGED <<users, accounts, links, flows, codes, jar, req>>

LinkExpires(l) ==
    /\ Happens
    /\ links[l].state = "unused" /\ ~links[l].expired
    /\ links' = [links EXCEPT ![l].expired = TRUE]
    /\ UNCHANGED <<users, accounts, sessions, flows, codes, jar, req>>

FlowExpires(f) ==
    /\ Happens
    /\ flows[f].browser # None /\ ~flows[f].expired
    /\ flows' = [flows EXCEPT ![f].expired = TRUE]
    /\ UNCHANGED <<users, accounts, links, sessions, codes, jar, req>>

\* The browser is closed and opened again: cookies set without an expiry go.
BrowserRestarts(b) ==
    /\ Happens
    /\ jar[b].csrf
    /\ jar' = [jar EXCEPT ![b].csrf = FALSE]
    /\ UNCHANGED <<users, accounts, links, sessions, flows, codes, req>>

-----------------------------------------------------------------------------

RequestStep(r) ==
    \/ \E l \in Links : IssueLink(r, l)
    \/ ConsumeLink(r)
    \/ \E u \in UserIds : ResolveEmail(r, u) \/ CreateByEmail(r, u)
    \/ ResolveUnknownEmail(r)
    \/ EmailTaken(r)
    \/ \E g \in Subjects : Exchange(r, g)
    \/ ExchangeFails(r)
    \/ ResolveAccount(r)
    \/ ResolveNewAccount(r)
    \/ BindKnownUser(r)
    \/ \E u \in UserIds, verified \in BOOLEAN : BindNewUser(r, u, verified)
    \/ BindFails(r)
    \/ \E s \in Sessions : IssueSession(r, s)
    \/ EstablishSession(r)
    \/ LogoutRevokes(r)
    \/ Authenticate(r)
    \/ LoadPrincipal(r)
    \/ RevokeSessions(r)
    \/ DeleteAccount(r)

Arrival(r) ==
    \E b \in Browsers :
        \/ \E e \in Emails : RequestMagicLink(r, b, e)
        \/ \E l \in Links : OpenLink(r, b, l)
        \/ \E f \in Flows : GoogleCallback(r, b, f)
        \/ RefuseCallback(r, b)
        \/ Logout(r, b)
        \/ Guarded(r, b)

Next ==
    \/ \E r \in Requests : RequestStep(r) \/ Arrival(r)
    \/ \E b \in Browsers, f \in Flows : GoogleStart(b, f)
    \/ \E b \in Browsers : BrowserRestarts(b)
    \/ \E s \in Sessions : SessionExpires(s)
    \/ \E l \in Links : LinkExpires(l)
    \/ \E f \in Flows : FlowExpires(f)

Spec == Init /\ [][Next]_vars

-----------------------------------------------------------------------------
(* Properties *)

\* Rows, cookies and requests have their types.
TypeOK ==
    /\ users \in [UserIds -> UserRow]
    /\ accounts \in [Subjects -> UserIds \cup {None}]
    /\ links \in [Links -> LinkRow]
    /\ sessions \in [Sessions -> SessionRow]
    /\ flows \in [Flows -> FlowRow]
    /\ codes \subseteq Flows
    /\ jar \in [Browsers -> Jar]
    /\ req \in [Requests -> Request]
    /\ events \in 0..MaxEvents

\* No handler runs for a request that arrived once its session was revoked,
\* expired or deleted, or once its user was deleted, not even with a session
\* that a sign-in in flight issued to that user after the deletion (the two
\* reads of SessionAuthGuard).
LateNeverServed == \A r \in Requests : At(r, "handler") => ~req[r].late

\* However many requests open a magic link at once, one session at most comes
\* of it (markUsed between the read and the sign-in).
LinkSignsInOnce ==
    \A s, t \in Sessions :
        sessions[s].via \in Links /\ sessions[s].via = sessions[t].via => s = t

\* A Google sign-in ends in the browser that began it.
FlowStaysInItsBrowser ==
    \A r \in Requests :
        req[r].via \in Flows => flows[req[r].via].browser = req[r].browser

\* Two callbacks, or a callback and a deletion, never move a Google identity
\* from one user to another: it is bound once and unbound only by deletion.
IdentityNeverMoves ==
    [][\A g \in Subjects :
         accounts[g] # None /\ accounts'[g] # accounts[g] =>
            accounts'[g] = None /\ users'[accounts[g]].status = "deleted"]_vars

\* A session ends only by a request of its own user (or by time).
OwnSessionsOnly ==
    [][\A s \in Sessions :
         sessions[s].state = "live" /\ sessions'[s].state # "live" =>
            \E r \in Requests : /\ req[r].pc \in {"handler", "logout"}
                                /\ req'[r].pc = "done"
                                /\ \/ req[r].user = sessions[s].user
                                   \/ req[r].session = s]_vars

\* A deleted account gives its address back: the email sign-in never resolves
\* to a deleted user, whatever was in flight when it was deleted.
EmailFindsLivingUser ==
    [][\A r \in Requests :
         At(r, "email_resolve") /\ req'[r].pc = "issue"
            => users[req'[r].user].status = "active"]_vars


=============================================================================
