--------------------------- MODULE AccountsProofs ----------------------------
(***************************************************************************)
(* Sign-in, guards and account deletion for any people, browsers, links,   *)
(* flows and overlapping requests.                                         *)
(***************************************************************************)
EXTENDS Accounts, TLAPS

\* Rows that are there are about rows that are there.
RowsInStep ==
    /\ \A l \in Links : IF links[l].state = "none" THEN links[l].user = None
                       ELSE links[l].email \in Emails
    /\ \A s \in Sessions :
          IF sessions[s].state = "none"
          THEN sessions[s].via = None /\ sessions[s].user = None
          ELSE /\ sessions[s].user \in UserIds
               /\ users[sessions[s].user].status # "none"
    /\ \A g \in Subjects : accounts[g] # None => users[accounts[g]].status # "none"

\* What a browser holds was given to it.
JarsInStep ==
    \A b \in Browsers :
        /\ jar[b].session # None => sessions[jar[b].session].state # "none"
        /\ jar[b].flow # None => flows[jar[b].flow].browser = b

AddressPcs == {"link_create", "link_mark", "email_resolve", "email_insert",
               "google_resolve", "google_bind"}

\* What a handler has read by the step it is at.
RequestInStep(r) ==
    /\ req[r].pc \in AddressPcs => req[r].email \in Emails
    /\ req[r].pc \in {"google_resolve", "google_bind"} => req[r].subject \in Subjects
    /\ req[r].pc \in {"issue", "establish", "principal", "handler"} => req[r].user \in UserIds
    /\ req[r].user # None => users[req[r].user].status # "none"
    /\ req[r].pc \in {"link_mark", "email_resolve", "email_insert"} => req[r].via \in Links
    /\ req[r].pc \in {"exchange", "google_resolve", "google_bind"} => req[r].via \in Flows
    /\ req[r].via \in Flows =>
          req[r].browser \in Browsers /\ flows[req[r].via].browser = req[r].browser
    /\ req[r].pc \in {"establish", "authenticate", "logout"} => req[r].session \in Sessions
    /\ req[r].session # None => sessions[req[r].session].state # "none"

Control == RowsInStep /\ JarsInStep /\ \A r \in Requests : RequestInStep(r)

TypeInv == TypeOK /\ Control

-----------------------------------------------------------------------------
LEMMA NewOK == NewRequest \in Request /\ Over \in Request
BY DEF NewRequest, Over, Request, SignInPcs, GuardedPcs

LEMMA TypeInit == Init => TypeInv
<1> SUFFICES ASSUME Init PROVE TypeInv
  OBVIOUS
<1> USE AccountsAssumption, NamesAssumption
<1>1. PICK home \in Homes :
        LET present == {HomeUser[b] : b \in home} IN
        /\ users = [u \in UserIds |->
             IF u \in present
             THEN [status |-> "active", email |-> HomeEmail[u], verified |-> TRUE]
             ELSE [status |-> "none", email |-> None, verified |-> FALSE]]
        /\ sessions = [s \in Sessions |->
             IF \E b \in home : HomeSession[b] = s
             THEN [state |-> "live", expired |-> FALSE, via |-> None,
                   user |-> HomeUser[CHOOSE b \in home : HomeSession[b] = s]]
             ELSE [state |-> "none", expired |-> FALSE, via |-> None, user |-> None]]
        /\ jar = [b \in Browsers |->
             IF b \in home
             THEN [session |-> HomeSession[b], csrf |-> TRUE, flow |-> None]
             ELSE [session |-> None, csrf |-> FALSE, flow |-> None]]
  BY DEF Init
<1>2. /\ accounts = [g \in Subjects |-> None]
      /\ links = [l \in Links |-> [state |-> "none", expired |-> FALSE,
                                   email |-> None, user |-> None]]
      /\ flows = [f \in Flows |-> [browser |-> None, expired |-> FALSE]]
      /\ codes = {} /\ events = 0
      /\ req = [r \in Requests |-> NewRequest]
  BY DEF Init
<1>3. home \subseteq Browsers
  OBVIOUS
<1>4. users \in [UserIds -> UserRow]
  BY <1>1 DEF UserRow
<1>5. ASSUME NEW s \in Sessions
      PROVE  /\ sessions[s] \in SessionRow
             /\ sessions[s].via = None
             /\ sessions[s].state = "none" => sessions[s].user = None
             /\ sessions[s].state # "none" =>
                   sessions[s].user \in UserIds /\ users[sessions[s].user].status # "none"
  <2>1. CASE \E b \in home : HomeSession[b] = s
    <3>1. PICK b : b = (CHOOSE c \in home : HomeSession[c] = s)
      OBVIOUS
    <3>2. b \in home
      BY <2>1, <3>1
    <3>3. sessions[s] = [state |-> "live", expired |-> FALSE, via |-> None, user |-> HomeUser[b]]
      BY <1>1, <2>1, <3>1
    <3>4. QED
      BY <1>1, <1>3, <3>2, <3>3 DEF SessionRow
  <2>2. CASE ~\E b \in home : HomeSession[b] = s
    BY <1>1, <2>2 DEF SessionRow
  <2>3. QED
    BY <2>1, <2>2
<1>6. sessions \in [Sessions -> SessionRow]
  <2>1. sessions = [s \in Sessions |-> sessions[s]]
    BY <1>1
  <2>2. QED
    BY <1>5, <2>1
<1>7. jar \in [Browsers -> Jar]
  BY <1>1, <1>3 DEF Jar
<1>8. TypeOK
  BY <1>2, <1>4, <1>6, <1>7, NewOK DEF TypeOK, LinkRow, FlowRow
<1>9. RowsInStep
  BY <1>2, <1>5 DEF RowsInStep
<1>10. ASSUME NEW b \in Browsers
       PROVE  /\ jar[b].session # None => sessions[jar[b].session].state # "none"
              /\ jar[b].flow = None
  <2>1. CASE b \in home
    <3>1. jar[b].session = HomeSession[b] /\ jar[b].flow = None
      BY <1>1, <2>1
    <3>2. sessions[HomeSession[b]].state = "live"
      BY <1>1, <2>1, <1>3
    <3>3. QED
      BY <3>1, <3>2
  <2>2. CASE b \notin home
    BY <1>1, <2>2
  <2>3. QED
    BY <2>1, <2>2
<1>11. \A r \in Requests : RequestInStep(r)
  BY <1>2 DEF RequestInStep, NewRequest, AddressPcs
<1>12. QED
  BY <1>8, <1>9, <1>10, <1>11 DEF TypeInv, Control, JarsInStep

-----------------------------------------------------------------------------
\* No row goes away, no owner changes, and what is over stays over.
Grows ==
    /\ \A u \in UserIds :
          /\ users[u].status # "none" => users'[u].status # "none"
          /\ users[u].status = "deleted" => users'[u].status = "deleted"
    /\ \A s \in Sessions :
          sessions[s].state # "none" =>
             /\ sessions'[s].state # "none"
             /\ sessions'[s].user = sessions[s].user
             /\ sessions'[s].via = sessions[s].via
             /\ ~Usable(s) => ~Usable(s)'
    /\ \A f \in Flows : flows[f].browser # None => flows'[f].browser = flows[f].browser
    /\ \A l \in Links :
          links[l].state # "none" =>
             /\ links'[l].state # "none"
             /\ links'[l].email = links[l].email
             /\ links[l].state # "unused" => links'[l].state # "unused"

\* Rows, jars and requests of a step; a request it does not touch needs no more.
StepSound ==
    /\ Grows /\ TypeOK' /\ RowsInStep' /\ JarsInStep'
    /\ \A r \in Requests : req'[r] = req[r] \/ RequestInStep(r)'

LEMMA SoundStep == ASSUME TypeInv, StepSound PROVE TypeInv'
<1>1. ASSUME NEW r \in Requests, req'[r] = req[r] PROVE RequestInStep(r)'
  <2>1. req[r] \in Request
    BY DEF TypeInv, TypeOK
  <2>2. QED
    BY <1>1, <2>1, NamesAssumption
       DEF TypeInv, Control, RequestInStep, StepSound, Grows, Request
<1>2. QED
  BY <1>1 DEF StepSound, TypeInv, Control

LEMMA RowsSame ==
    ASSUME TypeInv, UNCHANGED <<users, accounts, links, sessions, flows>>
    PROVE  Grows /\ RowsInStep'
BY DEF Grows, TypeInv, Control, RowsInStep, Usable

LEMMA JarsSame ==
    ASSUME TypeInv, Grows, UNCHANGED jar
    PROVE  JarsInStep'
<1> SUFFICES ASSUME NEW b \in Browsers
             PROVE  /\ jar[b].session # None => sessions'[jar[b].session].state # "none"
                    /\ jar[b].flow # None => flows'[jar[b].flow].browser = b
  BY DEF JarsInStep
<1>1. jar[b] \in Jar
  BY DEF TypeInv, TypeOK
<1>2. QED
  BY <1>1, NamesAssumption DEF TypeInv, Control, JarsInStep, Grows, Jar

LEMMA Addressed ==
    ASSUME TypeInv, NEW e \in Emails, NEW u \in WithEmail(e)
    PROVE  u \in UserIds /\ users[u].status = "active"
BY NamesAssumption DEF TypeInv, TypeOK, UserRow, WithEmail

\* A request arrives: it has read at most what its browser holds.
LEMMA SoundArrival ==
    ASSUME TypeInv, NEW r \in Requests, NEW b \in Browsers,
           \/ \E e \in Emails : RequestMagicLink(r, b, e)
           \/ \E l \in Links : OpenLink(r, b, l)
           \/ \E f \in Flows : GoogleCallback(r, b, f)
           \/ RefuseCallback(r, b)
           \/ Logout(r, b)
           \/ Guarded(r, b)
    PROVE  StepSound
<1> USE NamesAssumption
<1>1. UNCHANGED <<users, accounts, links, sessions, flows, codes, events>>
  BY DEF RequestMagicLink, OpenLink, GoogleCallback, RefuseCallback, Logout, Guarded
<1>2. Grows /\ RowsInStep'
  BY <1>1, RowsSame
<1>3. jar[b] \in Jar
  BY DEF TypeInv, TypeOK
<1>4. ASSUME NEW e \in Emails, RequestMagicLink(r, b, e) PROVE StepSound
  <2>1. PICK u \in UserIds \cup {None} :
           /\ u # None => u \in WithEmail(e)
           /\ req' = [req EXCEPT ![r] = [From(b, "link_create") EXCEPT !.email = e, !.user = u]]
    BY <1>4 DEF RequestMagicLink, Arrives, WithEmail
  <2>2. [From(b, "link_create") EXCEPT !.email = e, !.user = u] \in Request
    BY DEF From, NewRequest, Request, SignInPcs
  <2>3. RequestInStep(r)'
    BY <1>1, <2>1, Addressed DEF From, NewRequest, RequestInStep, TypeInv, TypeOK
  <2>4. QED
    BY <1>1, <1>2, <1>4, <2>1, <2>2, <2>3, JarsSame
       DEF RequestMagicLink, StepSound, TypeInv, TypeOK
<1>5. ASSUME NEW l \in Links, OpenLink(r, b, l) PROVE StepSound
  <2> DEFINE x == IF links[l].state = "unused" /\ ~links[l].expired
                  THEN [From(b, "link_mark") EXCEPT !.via = l, !.email = links[l].email]
                  ELSE Over
  <2>1. req' = [req EXCEPT ![r] = x]
    BY <1>5 DEF OpenLink, Arrives
  <2>2. x \in Request
    <3>1. links[l].email \in Emails \cup {None}
      BY DEF TypeInv, TypeOK, LinkRow
    <3>2. [From(b, "link_mark") EXCEPT !.via = l, !.email = links[l].email] \in Request
      BY <3>1 DEF From, NewRequest, Request, SignInPcs
    <3>3. QED
      BY <3>2, NewOK
  <2>3. RequestInStep(r)'
    BY <1>1, <1>5, <2>1
       DEF OpenLink, From, NewRequest, Over, RequestInStep, AddressPcs,
           TypeInv, TypeOK, Control, RowsInStep
  <2>4. QED
    BY <1>1, <1>2, <1>5, <2>1, <2>2, <2>3, JarsSame DEF OpenLink, StepSound, TypeInv, TypeOK
<1>6. ASSUME NEW f \in Flows, GoogleCallback(r, b, f) PROVE StepSound
  <2> DEFINE x == [From(b, "exchange") EXCEPT !.via = f]
  <2>1. req' = [req EXCEPT ![r] = x] /\ jar[b].flow = f
    BY <1>6 DEF GoogleCallback, Arrives, VerifiesState
  <2>2. x \in Request
    BY DEF From, NewRequest, Request, SignInPcs
  <2>3. flows[f].browser = b
    BY <2>1 DEF TypeInv, Control, JarsInStep
  <2>4. RequestInStep(r)'
    BY <1>1, <2>1, <2>3 DEF From, NewRequest, RequestInStep, AddressPcs, TypeInv, TypeOK
  <2>5. QED
    BY <1>1, <1>2, <1>6, <2>1, <2>2, <2>4, JarsSame
       DEF GoogleCallback, StepSound, TypeInv, TypeOK
<1>7. CASE RefuseCallback(r, b)
  <2>1. req' = [req EXCEPT ![r] = Over] /\ jar' = [jar EXCEPT ![b].flow = None]
    BY <1>7 DEF RefuseCallback, Arrives, ClearsFlow
  <2>2. RequestInStep(r)'
    BY <1>1, <2>1 DEF NewRequest, Over, RequestInStep, AddressPcs, TypeInv, TypeOK
  <2>3. JarsInStep' /\ jar' \in [Browsers -> Jar]
    BY <1>1, <1>3, <2>1 DEF JarsInStep, TypeInv, Control, TypeOK, Jar
  <2>4. QED
    BY <1>1, <1>2, <2>1, <2>2, <2>3, NewOK DEF StepSound, TypeInv, TypeOK
<1>8. CASE Logout(r, b)
  <2> DEFINE x == [From(b, "logout") EXCEPT !.session = jar[b].session]
  <2>1. req' = [req EXCEPT ![r] = x] /\ jar[b].session # None
    BY <1>8 DEF Logout, Arrives
  <2>2. x \in Request
    BY <1>3 DEF From, NewRequest, Request, GuardedPcs, Jar
  <2>3. RequestInStep(r)'
    BY <1>1, <1>3, <2>1
       DEF From, NewRequest, RequestInStep, AddressPcs, TypeInv, TypeOK, Control, JarsInStep, Jar
  <2>4. QED
    BY <1>1, <1>2, <1>8, <2>1, <2>2, <2>3, JarsSame DEF Logout, StepSound, TypeInv, TypeOK
<1>9. CASE Guarded(r, b)
  <2>1. PICK late \in BOOLEAN :
           req' = [req EXCEPT ![r] = [From(b, "authenticate") EXCEPT
                     !.session = jar[b].session, !.csrf = jar[b].csrf, !.late = late]]
    BY <1>9 DEF Guarded, Arrives
  <2> DEFINE x == [From(b, "authenticate") EXCEPT
                     !.session = jar[b].session, !.csrf = jar[b].csrf, !.late = late]
  <2>2. x \in Request
    BY <1>3 DEF From, NewRequest, Request, GuardedPcs, Jar
  <2>3. RequestInStep(r)'
    BY <1>1, <1>3, <1>9, <2>1
       DEF Guarded, From, NewRequest, RequestInStep, AddressPcs, TypeInv, TypeOK, Control,
           JarsInStep, Jar
  <2>4. QED
    BY <1>1, <1>2, <1>9, <2>1, <2>2, <2>3, JarsSame DEF Guarded, StepSound, TypeInv, TypeOK
<1>10. QED
  BY <1>4, <1>5, <1>6, <1>7, <1>8, <1>9

LEMMA OverInStep ==
    ASSUME NEW r \in Requests, req'[r] = Over PROVE RequestInStep(r)'
BY NamesAssumption DEF RequestInStep, Over, NewRequest, AddressPcs

\* A step that moves one request and changes no row.
LEMMA SoundRequest ==
    ASSUME TypeInv, NEW r \in Requests, NEW x \in Request,
           req' = [req EXCEPT ![r] = x],
           codes' \subseteq Flows,
           UNCHANGED <<users, accounts, links, sessions, flows, jar, events>>,
           RequestInStep(r)'
    PROVE  StepSound
BY RowsSame, JarsSame DEF StepSound, TypeInv, TypeOK

\* The reads of a sign-in.
LEMMA SoundReads ==
    ASSUME TypeInv, NEW r \in Requests,
           \/ ResolveUnknownEmail(r)
           \/ \E g \in Subjects : Exchange(r, g)
           \/ ResolveAccount(r)
           \/ ResolveNewAccount(r)
    PROVE  StepSound
<1> USE NamesAssumption
<1>1. /\ req[r] \in Request /\ RequestInStep(r) /\ req \in [Requests -> Request]
      /\ accounts \in [Subjects -> UserIds \cup {None}] /\ codes \subseteq Flows
      /\ \A g \in Subjects : accounts[g] # None => users[accounts[g]].status # "none"
  BY DEF TypeInv, TypeOK, Control, RowsInStep
<1>2. CASE ResolveUnknownEmail(r)
  <2> DEFINE x == [req[r] EXCEPT !.pc = "email_insert"]
  <2>1. req' = [req EXCEPT ![r] = x] /\ req[r].pc = "email_resolve"
    BY <1>2 DEF ResolveUnknownEmail, Goes, At
  <2>2. x \in Request
    BY <1>1 DEF Request, SignInPcs
  <2>3. UNCHANGED <<users, accounts, links, sessions, flows, codes, jar, events>>
    BY <1>2 DEF ResolveUnknownEmail
  <2>4. RequestInStep(r)'
    BY <1>1, <2>1, <2>3 DEF RequestInStep, AddressPcs, Request
  <2> HIDE DEF x
  <2>5. QED
    BY <1>1, <2>1, <2>2, <2>3, <2>4, SoundRequest
<1>3. ASSUME NEW g \in Subjects, Exchange(r, g) PROVE StepSound
  <2> DEFINE x == [req[r] EXCEPT !.pc = "google_resolve", !.subject = g, !.email = EmailOf[g]]
  <2>1. req' = [req EXCEPT ![r] = x] /\ req[r].pc = "exchange"
    BY <1>3 DEF Exchange, At
  <2>2. EmailOf[g] \in Emails
    BY AccountsAssumption
  <2>3. x \in Request
    BY <1>1, <2>2 DEF Request, SignInPcs
  <2>4. /\ UNCHANGED <<users, accounts, links, sessions, flows, jar, events>>
        /\ codes' \subseteq Flows
    BY <1>1, <1>3 DEF Exchange, At, RequestInStep
  <2>5. RequestInStep(r)'
    BY <1>1, <2>1, <2>2, <2>4 DEF RequestInStep, AddressPcs, Request
  <2> HIDE DEF x
  <2>6. QED
    BY <2>1, <2>3, <2>4, <2>5, SoundRequest
<1>4. CASE ResolveAccount(r)
  <2> DEFINE u == accounts[req[r].subject]
  <2> DEFINE x == [req[r] EXCEPT !.pc = "issue", !.user = u]
  <2>1. req' = [req EXCEPT ![r] = x] /\ req[r].pc = "google_resolve" /\ u # None
    BY <1>4 DEF ResolveAccount, At
  <2>2. u \in UserIds /\ users[u].status # "none"
    BY <1>1, <2>1 DEF RequestInStep
  <2>3. x \in Request
    BY <1>1, <2>2 DEF Request, SignInPcs
  <2>4. UNCHANGED <<users, accounts, links, sessions, flows, codes, jar, events>>
    BY <1>4 DEF ResolveAccount
  <2> HIDE DEF u
  <2>5. RequestInStep(r)'
    BY <1>1, <2>1, <2>2, <2>4 DEF RequestInStep, AddressPcs, Request
  <2> HIDE DEF x
  <2>6. QED
    BY <1>1, <2>1, <2>3, <2>4, <2>5, SoundRequest
<1>5. CASE ResolveNewAccount(r)
  <2>1. PICK u \in UserIds \cup {None} :
           /\ u # None => u \in WithEmail(req[r].email)
           /\ req' = [req EXCEPT ![r].pc = "google_bind", ![r].user = u]
    BY <1>5 DEF ResolveNewAccount, WithEmail
  <2> DEFINE x == [req[r] EXCEPT !.pc = "google_bind", !.user = u]
  <2>2. req' = [req EXCEPT ![r] = x] /\ req[r].pc = "google_resolve"
    BY <1>5, <2>1 DEF ResolveNewAccount, At
  <2>3. u # None => users[u].status = "active"
    BY <1>1, <2>1, <2>2, Addressed DEF RequestInStep, AddressPcs
  <2>4. x \in Request
    BY <1>1 DEF Request, SignInPcs
  <2>5. UNCHANGED <<users, accounts, links, sessions, flows, codes, jar, events>>
    BY <1>5 DEF ResolveNewAccount
  <2>6. RequestInStep(r)'
    BY <1>1, <2>2, <2>3, <2>5 DEF RequestInStep, AddressPcs, Request
  <2> HIDE DEF x
  <2>7. QED
    BY <1>1, <2>2, <2>4, <2>5, <2>6, SoundRequest
<1>6. QED
  BY <1>2, <1>3, <1>4, <1>5

\* The reads of the guards.
LEMMA SoundGuards ==
    ASSUME TypeInv, NEW r \in Requests, Authenticate(r) \/ LoadPrincipal(r)
    PROVE  StepSound
<1> USE NamesAssumption
<1>1. /\ req[r] \in Request /\ RequestInStep(r) /\ req \in [Requests -> Request]
      /\ codes \subseteq Flows /\ RowsInStep
  BY DEF TypeInv, TypeOK, Control
<1>2. UNCHANGED <<users, accounts, links, sessions, flows, codes, jar, events>>
  BY DEF Authenticate, LoadPrincipal
<1>3. CASE Authenticate(r)
  <2> DEFINE s == req[r].session
  <2> DEFINE x == [req[r] EXCEPT !.pc = "principal", !.user = sessions[s].user]
  <2>1. req[r].pc = "authenticate" /\ s \in Sessions
    BY <1>1, <1>3 DEF Authenticate, At, RequestInStep
  <2>2. CASE ~Usable(s)
    BY <1>1, <1>2, <1>3, <2>2, NewOK, OverInStep, SoundRequest DEF Authenticate
  <2>3. CASE Usable(s)
    <3>1. req' = [req EXCEPT ![r] = x]
      BY <1>3, <2>3 DEF Authenticate
    <3>2. sessions[s].user \in UserIds /\ users[sessions[s].user].status # "none"
      BY <1>1, <2>1, <2>3 DEF RowsInStep, Usable
    <3>3. x \in Request
      BY <1>1, <3>2 DEF Request, GuardedPcs
    <3>4. RequestInStep(r)'
      BY <1>1, <1>2, <2>1, <3>1, <3>2 DEF RequestInStep, AddressPcs, Request
    <3> HIDE DEF x
    <3>5. QED
      BY <1>1, <1>2, <3>1, <3>3, <3>4, SoundRequest
  <2>4. QED
    BY <2>2, <2>3
<1>4. CASE LoadPrincipal(r)
  <2>1. CASE Principal(req[r].user) /\ req[r].csrf
    <3> DEFINE x == [req[r] EXCEPT !.pc = "handler"]
    <3>1. req' = [req EXCEPT ![r] = x] /\ req[r].pc = "principal"
      BY <1>4, <2>1 DEF LoadPrincipal, Goes, At
    <3>2. x \in Request
      BY <1>1 DEF Request, GuardedPcs
    <3>3. RequestInStep(r)'
      BY <1>1, <1>2, <3>1 DEF RequestInStep, AddressPcs, Request
    <3> HIDE DEF x
    <3>4. QED
      BY <1>1, <1>2, <3>1, <3>2, <3>3, SoundRequest
  <2>2. CASE ~(Principal(req[r].user) /\ req[r].csrf)
    BY <1>1, <1>2, <1>4, <2>2, NewOK, OverInStep, SoundRequest DEF LoadPrincipal, Goes
  <2>3. QED
    BY <2>1, <2>2
<1>5. QED
  BY <1>3, <1>4

\* A step that ends a request or sets cookies, and changes no row.
LEMMA SoundResponse ==
    ASSUME TypeInv, NEW r \in Requests, NEW b \in Browsers, NEW c \in Jar,
           req' = [req EXCEPT ![r] = Over],
           jar' = [jar EXCEPT ![b] = c],
           c.session # None => sessions[c.session].state # "none",
           c.flow # None => flows[c.flow].browser = b,
           UNCHANGED <<users, accounts, links, sessions, flows, codes, events>>
    PROVE  StepSound
<1>1. Grows /\ RowsInStep'
  BY RowsSame
<1>2. TypeOK'
  BY NewOK DEF TypeInv, TypeOK
<1>3. JarsInStep'
  BY DEF TypeInv, TypeOK, Control, JarsInStep
<1>4. QED
  BY <1>1, <1>2, <1>3, OverInStep DEF StepSound, TypeInv, TypeOK

LEMMA SoundAnswers ==
    ASSUME TypeInv, NEW r \in Requests,
           EmailTaken(r) \/ ExchangeFails(r) \/ BindFails(r) \/ EstablishSession(r)
    PROVE  StepSound
<1> USE NamesAssumption
<1>1. /\ req[r] \in Request /\ RequestInStep(r) /\ req \in [Requests -> Request]
      /\ codes \subseteq Flows /\ jar \in [Browsers -> Jar]
  BY DEF TypeInv, TypeOK, Control
<1>2. CASE EmailTaken(r)
  BY <1>1, <1>2, NewOK, OverInStep, SoundRequest DEF EmailTaken, Responds, Goes
<1>3. CASE ExchangeFails(r) \/ BindFails(r)
  <2> DEFINE b == req[r].browser
  <2>1. CallbackFails(r) /\ req[r].pc \in {"exchange", "google_bind"}
    BY <1>3 DEF ExchangeFails, BindFails, At
  <2>2. b \in Browsers
    BY <1>1, <2>1 DEF RequestInStep
  <2> DEFINE c == [jar[b] EXCEPT !.flow = None]
  <2>3. /\ jar[b] \in Jar
        /\ jar[b].session # None => sessions[jar[b].session].state # "none"
    BY <1>1, <2>2 DEF TypeInv, Control, JarsInStep
  <2>4. /\ c \in Jar /\ c.flow = None
        /\ c.session # None => sessions[c.session].state # "none"
    BY <2>3 DEF Jar
  <2>5. /\ req' = [req EXCEPT ![r] = Over] /\ jar' = [jar EXCEPT ![b] = c]
        /\ UNCHANGED <<users, accounts, links, sessions, flows, codes, events>>
    BY <2>1 DEF CallbackFails, ClearsFlow, Goes
  <2> HIDE DEF b, c
  <2>6. QED
    BY <2>2, <2>4, <2>5, SoundResponse
<1>4. CASE EstablishSession(r)
  <2> DEFINE b == req[r].browser
  <2>1. req[r].pc = "establish"
    BY <1>4 DEF EstablishSession, At
  <2>2. req[r].session \in Sessions /\ sessions[req[r].session].state # "none"
    BY <1>1, <2>1 DEF RequestInStep
  <2>3. CASE b \in Browsers
    <3> DEFINE c == [session |-> req[r].session, csrf |-> TRUE,
                     flow |-> IF req[r].via \in Flows THEN None ELSE jar[b].flow]
    <3>1. jar[b] \in Jar /\ (jar[b].flow # None => flows[jar[b].flow].browser = b)
      BY <1>1, <2>3 DEF TypeInv, Control, JarsInStep
    <3>2. /\ c \in Jar /\ c.session = req[r].session
          /\ c.flow # None => flows[c.flow].browser = b
      BY <2>2, <3>1 DEF Jar
    <3>3. /\ req' = [req EXCEPT ![r] = Over] /\ jar' = [jar EXCEPT ![b] = c]
          /\ UNCHANGED <<users, accounts, links, sessions, flows, codes, events>>
      BY <1>1, <1>4, <2>3 DEF EstablishSession, Goes
    <3> HIDE DEF b, c
    <3>4. QED
      BY <2>2, <2>3, <3>2, <3>3, SoundResponse
  <2>4. CASE b \notin Browsers
    <3>1. jar' = jar
      BY <1>1, <1>4, <2>4 DEF EstablishSession
    <3>2. QED
      BY <1>1, <1>4, <3>1, NewOK, OverInStep, SoundRequest DEF EstablishSession, Goes
  <2>5. QED
    BY <2>3, <2>4
<1>5. QED
  BY <1>2, <1>3, <1>4

-----------------------------------------------------------------------------
\* A step that writes one link, and moves one request or none.
LEMMA SoundLink ==
    ASSUME TypeInv, NEW l \in Links, NEW row \in LinkRow,
           links' = [links EXCEPT ![l] = row],
           links[l].state # "none" =>
              /\ row.email = links[l].email
              /\ links[l].state # "unused" => row.state # "unused",
           row.state # "none" /\ row.email \in Emails,
           UNCHANGED <<users, accounts, sessions, flows, codes, jar>>,
           events' \in 0..MaxEvents,
           req' \in [Requests -> Request],
           \A r \in Requests : req'[r] = req[r] \/ RequestInStep(r)'
    PROVE  StepSound
<1>1. links \in [Links -> LinkRow]
  BY DEF TypeInv, TypeOK
<1>2. Grows
  BY <1>1 DEF Grows, Usable
<1>3. RowsInStep'
  BY <1>1 DEF RowsInStep, TypeInv, Control
<1>4. TypeOK'
  BY <1>1 DEF TypeInv, TypeOK
<1>5. QED
  BY <1>2, <1>3, <1>4, JarsSame DEF StepSound

LEMMA SoundLinks ==
    ASSUME TypeInv, NEW r \in Requests,
           (\E l \in Links : IssueLink(r, l)) \/ ConsumeLink(r)
    PROVE  StepSound
<1> USE NamesAssumption
<1>1. /\ req[r] \in Request /\ RequestInStep(r) /\ req \in [Requests -> Request]
      /\ codes \subseteq Flows /\ links \in [Links -> LinkRow] /\ events \in 0..MaxEvents
      /\ \A l \in Links : links[l].state # "none" => links[l].email \in Emails
  BY DEF TypeInv, TypeOK, Control, RowsInStep
<1>2. ASSUME NEW l \in Links, IssueLink(r, l) PROVE StepSound
  <2> DEFINE row == [state |-> "unused", expired |-> FALSE,
                     email |-> req[r].email, user |-> req[r].user]
  <2>1. /\ links' = [links EXCEPT ![l] = row] /\ links[l].state = "none"
        /\ req[r].pc = "link_create" /\ req' = [req EXCEPT ![r] = Over]
        /\ UNCHANGED <<users, accounts, sessions, flows, codes, jar, events>>
    BY <1>2 DEF IssueLink, At, Responds, Goes
  <2>2. req[r].email \in Emails
    BY <1>1, <2>1 DEF RequestInStep, AddressPcs
  <2>3. row \in LinkRow /\ row.state # "none" /\ row.email \in Emails
    BY <1>1, <2>2 DEF LinkRow, Request
  <2>4. /\ req' \in [Requests -> Request]
        /\ \A q \in Requests : req'[q] = req[q] \/ RequestInStep(q)'
    BY <1>1, <2>1, NewOK, OverInStep
  <2> HIDE DEF row
  <2>5. QED
    BY <1>1, <2>1, <2>3, <2>4, SoundLink
<1>3. CASE ConsumeLink(r)
  <2> DEFINE l == req[r].via
  <2> DEFINE row == [links[l] EXCEPT !.state = "used"]
  <2> DEFINE x == [req[r] EXCEPT !.pc = "email_resolve"]
  <2>1. /\ req[r].pc = "link_mark" /\ l \in Links
        /\ UNCHANGED <<users, accounts, sessions, flows, codes, jar, events>>
    BY <1>1, <1>3 DEF ConsumeLink, At, RequestInStep
  <2>2. CASE MarkUsed(l)
    <3>1. links' = [links EXCEPT ![l] = row] /\ req' = [req EXCEPT ![r] = x]
      BY <1>3, <2>2 DEF ConsumeLink, Goes
    <3>2. links[l].state = "unused"
      BY <2>2 DEF MarkUsed
    <3>3. /\ row \in LinkRow /\ row.email = links[l].email /\ row.state = "used"
          /\ links[l].email \in Emails
      BY <1>1, <2>1, <3>2 DEF LinkRow
    <3>4. x \in Request
      BY <1>1 DEF Request, SignInPcs
    <3>5. RequestInStep(r)'
      BY <1>1, <2>1, <3>1 DEF RequestInStep, AddressPcs, Request
    <3>6. /\ req' \in [Requests -> Request]
          /\ \A q \in Requests : req'[q] = req[q] \/ RequestInStep(q)'
      BY <1>1, <3>1, <3>4, <3>5
    <3> HIDE DEF row, x, l
    <3>7. QED
      BY <1>1, <2>1, <3>1, <3>2, <3>3, <3>6, SoundLink
  <2>3. CASE ~MarkUsed(l)
    <3>1. UNCHANGED links /\ req' = [req EXCEPT ![r] = Over]
      BY <1>3, <2>3 DEF ConsumeLink, Goes
    <3>2. QED
      BY <1>1, <2>1, <3>1, NewOK, OverInStep, SoundRequest
  <2>4. QED
    BY <2>2, <2>3
<1>4. QED
  BY <1>2, <1>3

LEMMA SoundLinkExpires ==
    ASSUME TypeInv, NEW l \in Links, LinkExpires(l) PROVE StepSound
<1> DEFINE row == [links[l] EXCEPT !.expired = TRUE]
<1>1. /\ links[l].state = "unused" /\ links' = [links EXCEPT ![l] = row]
      /\ events' = events + 1 /\ events < MaxEvents
      /\ UNCHANGED <<users, accounts, sessions, flows, codes, jar, req>>
  BY DEF LinkExpires, Happens
<1>2. /\ links[l] \in LinkRow /\ links[l].email \in Emails
      /\ events \in 0..MaxEvents /\ req \in [Requests -> Request]
  BY <1>1 DEF TypeInv, TypeOK, Control, RowsInStep
<1>3. /\ row \in LinkRow /\ row.email = links[l].email
      /\ row.state = "unused"
  BY <1>1, <1>2 DEF LinkRow
<1>4. events' \in 0..MaxEvents
  BY <1>1, <1>2, AccountsAssumption
<1> HIDE DEF row
<1>5. QED
  BY <1>1, <1>2, <1>3, <1>4, SoundLink

-----------------------------------------------------------------------------
\* A step of a sign-in that writes the row of one user, or binds an identity.
LEMMA SoundBinding ==
    ASSUME TypeInv, NEW r \in Requests, NEW x \in Request,
           NEW u \in UserIds, NEW row \in UserRow,
           req' = [req EXCEPT ![r] = x],
           users' = [users EXCEPT ![u] = row],
           row.status # "none",
           users[u].status = "deleted" => row.status = "deleted",
           accounts' \in [Subjects -> UserIds \cup {None}],
           \A g \in Subjects :
              accounts'[g] = accounts[g] \/ users'[accounts'[g]].status # "none",
           UNCHANGED <<links, sessions, flows, codes, jar, events>>,
           RequestInStep(r)'
    PROVE  StepSound
<1> USE NamesAssumption
<1>1. /\ users \in [UserIds -> UserRow] /\ sessions \in [Sessions -> SessionRow]
      /\ accounts \in [Subjects -> UserIds \cup {None}] /\ RowsInStep
  BY DEF TypeInv, TypeOK, Control
<1>2. \A v \in UserIds : users[v].status # "none" => users'[v].status # "none"
  BY <1>1
<1>3. Grows
  BY <1>1, <1>2 DEF Grows, Usable
<1>4. \A g \in Subjects : accounts'[g] # None => users'[accounts'[g]].status # "none"
  BY <1>1, <1>2 DEF RowsInStep
<1>5. RowsInStep'
  BY <1>1, <1>2, <1>4 DEF RowsInStep
<1>6. TypeOK'
  BY DEF TypeInv, TypeOK
<1>7. QED
  BY <1>3, <1>5, <1>6, JarsSame DEF StepSound, TypeInv, TypeOK

LEMMA SoundUsers ==
    ASSUME TypeInv, NEW r \in Requests,
           \/ \E u \in UserIds : ResolveEmail(r, u) \/ CreateByEmail(r, u)
           \/ BindKnownUser(r)
           \/ \E u \in UserIds, verified \in BOOLEAN : BindNewUser(r, u, verified)
    PROVE  StepSound
<1> USE NamesAssumption
<1>1. /\ req[r] \in Request /\ RequestInStep(r) /\ req \in [Requests -> Request]
      /\ users \in [UserIds -> UserRow]
      /\ accounts \in [Subjects -> UserIds \cup {None}]
  BY DEF TypeInv, TypeOK, Control
<1> DEFINE issue(u) == [req[r] EXCEPT !.pc = "issue", !.user = u]
<1>2. ASSUME NEW u \in UserIds
      PROVE  /\ issue(u) \in Request /\ issue(u).pc = "issue" /\ issue(u).user = u
             /\ issue(u).via = req[r].via /\ issue(u).browser = req[r].browser
             /\ issue(u).session = req[r].session
  BY <1>1 DEF Request, SignInPcs
<1>0. ASSUME NEW u \in UserIds
      PROVE  [req EXCEPT ![r].pc = "issue", ![r].user = u] = [req EXCEPT ![r] = issue(u)]
  OBVIOUS
<1>3. ASSUME NEW u \in UserIds, req' = [req EXCEPT ![r] = issue(u)],
             users'[u].status # "none", UNCHANGED <<flows, sessions>>
      PROVE  RequestInStep(r)'
  <2>1. req'[r] = issue(u)
    BY <1>1, <1>3
  <2> HIDE DEF issue
  <2>2. QED
    BY <1>1, <1>2, <1>3, <2>1 DEF RequestInStep, AddressPcs
<1>4. ASSUME NEW u \in UserIds, ResolveEmail(r, u) PROVE StepSound
  <2> DEFINE row == [users[u] EXCEPT !.verified = TRUE]
  <2>1. /\ users' = [users EXCEPT ![u] = row] /\ req' = [req EXCEPT ![r] = issue(u)]
        /\ req[r].pc = "email_resolve" /\ u \in WithEmail(req[r].email)
        /\ UNCHANGED <<accounts, links, sessions, flows, codes, jar, events>>
    BY <1>4 DEF ResolveEmail, At
  <2>2. users[u].status = "active"
    BY <1>1, <2>1, Addressed DEF RequestInStep, AddressPcs
  <2>3. row \in UserRow /\ row.status = "active"
    BY <1>1, <2>2 DEF UserRow
  <2>4. RequestInStep(r)'
    BY <1>1, <1>3, <2>1, <2>3
  <2> HIDE DEF row, issue
  <2>5. QED
    BY <1>1, <1>2, <2>1, <2>2, <2>3, <2>4, SoundBinding
<1>5. ASSUME NEW e \in Emails, NEW verified \in BOOLEAN
      PROVE  NewUser(e, verified) \in UserRow /\ NewUser(e, verified).status = "active"
  BY DEF NewUser, UserRow
<1>6. ASSUME NEW u \in UserIds, CreateByEmail(r, u) PROVE StepSound
  <2> DEFINE row == NewUser(req[r].email, TRUE)
  <2>1. /\ users' = [users EXCEPT ![u] = row] /\ req' = [req EXCEPT ![r] = issue(u)]
        /\ req[r].pc = "email_insert" /\ users[u].status = "none"
        /\ UNCHANGED <<accounts, links, sessions, flows, codes, jar, events>>
    BY <1>6 DEF CreateByEmail, At
  <2>2. row \in UserRow /\ row.status = "active"
    BY <1>1, <1>5, <2>1 DEF RequestInStep, AddressPcs
  <2>3. RequestInStep(r)'
    BY <1>1, <1>3, <2>1, <2>2
  <2> HIDE DEF row, issue
  <2>4. QED
    BY <1>1, <1>2, <2>1, <2>2, <2>3, SoundBinding
<1>7. CASE BindKnownUser(r)
  <2> DEFINE u == req[r].user
  <2>1. /\ accounts' = [accounts EXCEPT ![req[r].subject] = u] /\ u # None
        /\ req' = [req EXCEPT ![r].pc = "issue"] /\ req[r].pc = "google_bind"
        /\ UNCHANGED <<users, links, sessions, flows, codes, jar, events>>
    BY <1>7 DEF BindKnownUser, At, Goes
  <2>2. u \in UserIds /\ users[u].status # "none"
    BY <1>1, <2>1 DEF RequestInStep, Request
  <2>3. issue(u) = [req[r] EXCEPT !.pc = "issue"]
    BY <1>1 DEF Request
  <2>4. req' = [req EXCEPT ![r] = issue(u)]
    BY <2>1, <2>3
  <2> DEFINE row == users[u]
  <2>5. /\ users' = [users EXCEPT ![u] = row] /\ row \in UserRow
        /\ row.status # "none" /\ (users[u].status = "deleted" => row.status = "deleted")
        /\ issue(u) \in Request
    BY <1>1, <1>2, <2>1, <2>2
  <2>6. RequestInStep(r)'
    BY <1>1, <1>3, <2>1, <2>2, <2>4
  <2>7. /\ accounts' \in [Subjects -> UserIds \cup {None}]
        /\ \A g \in Subjects :
              accounts'[g] = accounts[g] \/ users'[accounts'[g]].status # "none"
    BY <1>1, <2>1, <2>2
  <2> HIDE DEF issue, u, row
  <2>8. QED
    BY <2>1, <2>2, <2>4, <2>5, <2>6, <2>7, SoundBinding
<1>8. ASSUME NEW u \in UserIds, NEW verified \in BOOLEAN, BindNewUser(r, u, verified)
      PROVE  StepSound
  <2> DEFINE row == NewUser(req[r].email, verified)
  <2>1. /\ users' = [users EXCEPT ![u] = row] /\ req' = [req EXCEPT ![r] = issue(u)]
        /\ accounts' = [accounts EXCEPT ![req[r].subject] = u]
        /\ req[r].pc = "google_bind" /\ users[u].status = "none"
        /\ UNCHANGED <<links, sessions, flows, codes, jar, events>>
    <3>1. users' = [users EXCEPT ![u] = row] /\ users[u].status = "none"
      BY <1>8 DEF BindNewUser
    <3>2. req' = [req EXCEPT ![r] = issue(u)] /\ req[r].pc = "google_bind"
      <4>1. req' = [req EXCEPT ![r].pc = "issue", ![r].user = u]
        BY <1>8 DEF BindNewUser
      <4>2. req[r].pc = "google_bind"
        BY <1>8 DEF BindNewUser, At
      <4> HIDE DEF issue
      <4>3. QED
        BY <1>0, <4>1, <4>2
    <3>3. /\ accounts' = [accounts EXCEPT ![req[r].subject] = u]
          /\ UNCHANGED <<links, sessions, flows, codes, jar, events>>
      BY <1>8 DEF BindNewUser
    <3>4. QED
      BY <3>1, <3>2, <3>3
  <2>2. row \in UserRow /\ row.status = "active"
    BY <1>1, <1>5, <2>1 DEF RequestInStep, AddressPcs
  <2>3. RequestInStep(r)'
    BY <1>1, <1>3, <2>1, <2>2
  <2>4. /\ accounts' \in [Subjects -> UserIds \cup {None}]
        /\ \A g \in Subjects :
              accounts'[g] = accounts[g] \/ users'[accounts'[g]].status # "none"
    BY <1>1, <2>1, <2>2
  <2> HIDE DEF row, issue
  <2>5. QED
    BY <1>1, <1>2, <2>1, <2>2, <2>3, <2>4, SoundBinding
<1>9. QED
  BY <1>4, <1>6, <1>7, <1>8

-----------------------------------------------------------------------------
\* A step that writes sessions.
LEMMA SoundSessions ==
    ASSUME TypeInv,
           sessions' \in [Sessions -> SessionRow],
           \A s \in Sessions :
              IF sessions[s].state # "none"
              THEN /\ sessions'[s].state # "none"
                   /\ sessions'[s].user = sessions[s].user
                   /\ sessions'[s].via = sessions[s].via
                   /\ ~Usable(s) => ~Usable(s)'
              ELSE \/ sessions'[s] = sessions[s]
                   \/ /\ sessions'[s].state # "none"
                      /\ sessions'[s].user \in UserIds
                      /\ users[sessions'[s].user].status # "none",
           UNCHANGED <<users, accounts, links, flows, codes>>,
           events' \in 0..MaxEvents,
           jar' \in [Browsers -> Jar],
           \A b \in Browsers :
              /\ jar'[b].session # None => jar'[b].session = jar[b].session
              /\ jar'[b].flow # None => jar'[b].flow = jar[b].flow,
           req' \in [Requests -> Request],
           \A r \in Requests : req'[r] = req[r] \/ RequestInStep(r)'
    PROVE  StepSound
<1> USE NamesAssumption
<1>1. Grows
  BY DEF Grows
<1>2. RowsInStep'
  BY DEF RowsInStep, TypeInv, Control
<1>3. JarsInStep'
  <2> SUFFICES ASSUME NEW b \in Browsers
               PROVE  /\ jar'[b].session # None => sessions'[jar'[b].session].state # "none"
                      /\ jar'[b].flow # None => flows'[jar'[b].flow].browser = b
    BY DEF JarsInStep
  <2>1. jar[b] \in Jar
    BY DEF TypeInv, TypeOK
  <2>2. QED
    BY <2>1 DEF Jar, TypeInv, Control, JarsInStep
<1>4. TypeOK'
  BY DEF TypeInv, TypeOK
<1>5. QED
  BY <1>1, <1>2, <1>3, <1>4 DEF StepSound

\* Revoking, or deleting, the rows of a set of sessions.
Ends(S, state) ==
    sessions' = [s \in Sessions |-> IF s \in S THEN [sessions[s] EXCEPT !.state = state]
                                    ELSE sessions[s]]

LEMMA EndsSessions ==
    ASSUME TypeInv, NEW S \in SUBSET Sessions, NEW state \in {"revoked", "deleted"},
           Ends(S, state),
           \A s \in S : sessions[s].state # "none"
    PROVE  /\ sessions' \in [Sessions -> SessionRow]
           /\ \A s \in Sessions :
                 IF sessions[s].state # "none"
                 THEN /\ sessions'[s].state # "none"
                      /\ sessions'[s].user = sessions[s].user
                      /\ sessions'[s].via = sessions[s].via
                      /\ ~Usable(s) => ~Usable(s)'
                 ELSE sessions'[s] = sessions[s]
<1>1. sessions \in [Sessions -> SessionRow]
  BY DEF TypeInv, TypeOK
<1>2. ASSUME NEW s \in Sessions
      PROVE  [sessions[s] EXCEPT !.state = state] \in SessionRow
  BY <1>1 DEF SessionRow
<1>3. sessions' \in [Sessions -> SessionRow]
  BY <1>1, <1>2 DEF Ends
<1>4. ASSUME NEW s \in Sessions
      PROVE  IF sessions[s].state # "none"
             THEN /\ sessions'[s].state # "none"
                  /\ sessions'[s].user = sessions[s].user
                  /\ sessions'[s].via = sessions[s].via
                  /\ ~Usable(s) => ~Usable(s)'
             ELSE sessions'[s] = sessions[s]
  BY <1>1 DEF Ends, Usable, SessionRow
<1>5. QED
  BY <1>3, <1>4

LEMMA SoundRevocations ==
    ASSUME TypeInv, NEW r \in Requests, RevokeSessions(r) PROVE StepSound
<1> USE NamesAssumption
<1> DEFINE u == req[r].user
<1>1. /\ req[r] \in Request /\ RequestInStep(r) /\ req \in [Requests -> Request]
      /\ RowsInStep /\ events \in 0..MaxEvents /\ jar \in [Browsers -> Jar]
  BY DEF TypeInv, TypeOK, Control
<1>2. /\ req[r].pc = "handler" /\ req' = [req EXCEPT ![r] = Over]
      /\ UNCHANGED <<users, accounts, links, flows, codes, jar, events>>
  BY DEF RevokeSessions, At, Responds, Goes
<1>3. u \in UserIds
  BY <1>1, <1>2 DEF RequestInStep
<1>4. \E S \in SUBSET Sessions, state \in {"revoked", "deleted"} :
         Ends(S, state) /\ \A s \in S : sessions[s].state # "none"
  <2>1. ASSUME NEW S \in SUBSET Sessions,
               sessions' = [s \in Sessions |-> IF s \in S /\ sessions[s].state = "live"
                             THEN [sessions[s] EXCEPT !.state = "revoked"] ELSE sessions[s]]
        PROVE  \E T \in SUBSET Sessions :
                  Ends(T, "revoked") /\ \A s \in T : sessions[s].state # "none"
    <3> DEFINE T == {s \in S : sessions[s].state = "live"}
    <3>1. Ends(T, "revoked")
      BY <2>1 DEF Ends
    <3>2. QED
      BY <3>1
  <2>2. ASSUME NEW s \in Sessions, sessions' = RevokeById(s, u)
        PROVE  \E S \in SUBSET Sessions :
                  Ends(S, "revoked") /\ \A t \in S : sessions[t].state # "none"
    <3> DEFINE S == {t \in Sessions : t = s /\ sessions[t].user = u}
    <3>1. sessions' = [t \in Sessions |-> IF t \in S /\ sessions[t].state = "live"
                         THEN [sessions[t] EXCEPT !.state = "revoked"] ELSE sessions[t]]
      BY <2>2 DEF RevokeById, Revoked
    <3> HIDE DEF S
    <3>2. QED
      BY <2>1, <3>1 DEF S
  <2>3. ASSUME sessions' = RevokeOthers(u, req[r].session)
        PROVE  \E S \in SUBSET Sessions :
                  Ends(S, "revoked") /\ \A t \in S : sessions[t].state # "none"
    <3> DEFINE S == {t \in Sessions : t # req[r].session /\ sessions[t].user = u}
    <3>1. sessions' = [t \in Sessions |-> IF t \in S /\ sessions[t].state = "live"
                         THEN [sessions[t] EXCEPT !.state = "revoked"] ELSE sessions[t]]
      BY <2>3 DEF RevokeOthers, Revoked
    <3> HIDE DEF S
    <3>2. QED
      BY <2>1, <3>1 DEF S
  <2>4. ASSUME sessions' = RevokeAll(u)
        PROVE  \E S \in SUBSET Sessions :
                  Ends(S, "revoked") /\ \A t \in S : sessions[t].state # "none"
    <3> DEFINE S == {t \in Sessions : sessions[t].user = u}
    <3>1. sessions' = [t \in Sessions |-> IF t \in S /\ sessions[t].state = "live"
                         THEN [sessions[t] EXCEPT !.state = "revoked"] ELSE sessions[t]]
      BY <2>4 DEF RevokeAll, Revoked
    <3> HIDE DEF S
    <3>2. QED
      BY <2>1, <3>1 DEF S
  <2>5. ASSUME sessions' = [s \in Sessions |-> IF sessions[s].user = u
                       THEN [sessions[s] EXCEPT !.state = "deleted"] ELSE sessions[s]]
        PROVE  \E S \in SUBSET Sessions :
                  Ends(S, "deleted") /\ \A t \in S : sessions[t].state # "none"
    <3> DEFINE S == {t \in Sessions : sessions[t].user = u}
    <3>1. Ends(S, "deleted")
      BY <2>5 DEF Ends
    <3>2. \A t \in S : sessions[t].state # "none"
      BY <1>1, <1>3 DEF RowsInStep
    <3> HIDE DEF S
    <3>3. QED
      BY <3>1, <3>2 DEF S
  <2>6. QED
    BY <2>2, <2>3, <2>4, <2>5 DEF RevokeSessions
<1>5. \A q \in Requests : req'[q] = req[q] \/ RequestInStep(q)'
  BY <1>1, <1>2, OverInStep
<1>6. req' \in [Requests -> Request]
  BY <1>1, <1>2, NewOK
<1>7. QED
  BY <1>1, <1>2, <1>4, <1>5, <1>6, EndsSessions, SoundSessions

LEMMA SoundLogout ==
    ASSUME TypeInv, NEW r \in Requests, LogoutRevokes(r) PROVE StepSound
<1> USE NamesAssumption
<1> DEFINE b == req[r].browser
           S == {t \in Sessions : t = req[r].session /\ sessions[t].state = "live"}
<1>1. /\ req \in [Requests -> Request] /\ events \in 0..MaxEvents
      /\ jar \in [Browsers -> Jar]
  BY DEF TypeInv, TypeOK
<1>2. /\ req' = [req EXCEPT ![r] = Over] /\ jar' = [jar EXCEPT ![b].session = None]
      /\ UNCHANGED <<users, accounts, links, flows, codes, events>>
  BY DEF LogoutRevokes, Goes, ClearsSession
<1>3. Ends(S, "revoked")
  BY DEF LogoutRevokes, Revoked, Ends
<1>4. /\ \A q \in Requests : req'[q] = req[q] \/ RequestInStep(q)'
      /\ req' \in [Requests -> Request]
  BY <1>1, <1>2, OverInStep, NewOK
<1>5. /\ jar' \in [Browsers -> Jar]
      /\ \A c \in Browsers :
            /\ jar'[c].session # None => jar'[c].session = jar[c].session
            /\ jar'[c].flow # None => jar'[c].flow = jar[c].flow
  <2> HIDE DEF b
  <2>1. \A c \in Browsers : [jar[c] EXCEPT !.session = None] \in Jar
    BY <1>1 DEF Jar
  <2>2. QED
    BY <1>1, <1>2, <2>1 DEF Jar
<1>6. S \in SUBSET Sessions /\ \A s \in S : sessions[s].state # "none"
  OBVIOUS
<1> HIDE DEF S, b
<1>7. QED
  BY <1>1, <1>2, <1>3, <1>4, <1>5, <1>6, EndsSessions, SoundSessions

LEMMA SoundIssue ==
    ASSUME TypeInv, NEW r \in Requests, NEW s \in Sessions, IssueSession(r, s)
    PROVE  StepSound
<1> USE NamesAssumption
<1> DEFINE row == [state |-> "live", expired |-> FALSE, user |-> req[r].user, via |-> req[r].via]
           x == [req[r] EXCEPT !.pc = "establish", !.session = s]
<1>1. /\ req[r] \in Request /\ RequestInStep(r) /\ req \in [Requests -> Request]
      /\ events \in 0..MaxEvents /\ jar \in [Browsers -> Jar]
      /\ sessions \in [Sessions -> SessionRow]
  BY DEF TypeInv, TypeOK, Control
<1>2. /\ req[r].pc = "issue" /\ sessions[s].state = "none"
      /\ sessions' = [sessions EXCEPT ![s] = row] /\ req' = [req EXCEPT ![r] = x]
      /\ UNCHANGED <<users, accounts, links, flows, codes, jar, events>>
  BY DEF IssueSession, At, Spare
<1>3. req[r].user \in UserIds /\ users[req[r].user].status # "none"
  BY <1>1, <1>2 DEF RequestInStep
<1>4. row \in SessionRow /\ row.state = "live" /\ row.user = req[r].user
  BY <1>1 DEF SessionRow, Request
<1>5. x \in Request
  BY <1>1 DEF Request, SignInPcs
<1>6. RequestInStep(r)'
  BY <1>1, <1>2, <1>3, <1>4 DEF RequestInStep, AddressPcs, Request
<1> HIDE DEF row, x
<1>7. /\ req' \in [Requests -> Request]
      /\ \A q \in Requests : req'[q] = req[q] \/ RequestInStep(q)'
  BY <1>1, <1>2, <1>5, <1>6
<1>8. /\ sessions' \in [Sessions -> SessionRow]
      /\ sessions'[s] = row
      /\ \A t \in Sessions : t # s => sessions'[t] = sessions[t]
  BY <1>1, <1>2, <1>4
<1>9. \A t \in Sessions : t # s => (Usable(t) <=> Usable(t)')
  BY <1>8 DEF Usable
<1>10. QED
  BY <1>1, <1>2, <1>3, <1>4, <1>7, <1>8, <1>9, SoundSessions

LEMMA SoundExpiry ==
    ASSUME TypeInv, NEW s \in Sessions, SessionExpires(s) PROVE StepSound
<1>1. /\ sessions' = [sessions EXCEPT ![s].expired = TRUE] /\ sessions[s].state = "live"
      /\ events' = events + 1 /\ events < MaxEvents
      /\ UNCHANGED <<users, accounts, links, flows, codes, jar, req>>
  BY DEF SessionExpires, Happens
<1>2. /\ sessions \in [Sessions -> SessionRow] /\ req \in [Requests -> Request]
      /\ jar \in [Browsers -> Jar] /\ events \in 0..MaxEvents
  BY DEF TypeInv, TypeOK
<1>3. [sessions[s] EXCEPT !.expired = TRUE] \in SessionRow
  BY <1>2 DEF SessionRow
<1>4. sessions' \in [Sessions -> SessionRow]
  BY <1>1, <1>2, <1>3
<1>5. events' \in 0..MaxEvents
  BY <1>1, <1>2, AccountsAssumption
<1>6. \A t \in Sessions :
         /\ sessions'[t].state = sessions[t].state /\ sessions'[t].user = sessions[t].user
         /\ sessions'[t].via = sessions[t].via /\ (~Usable(t) => ~Usable(t)')
         /\ sessions[t].state = "none" => sessions'[t] = sessions[t]
  BY <1>1, <1>2 DEF Usable, SessionRow
<1>7. QED
  BY <1>1, <1>2, <1>4, <1>5, <1>6, SoundSessions

\* Deleting an account takes its rows, but no id is reused.
LEMMA SoundDeletion ==
    ASSUME TypeInv, NEW r \in Requests, DeleteAccount(r) PROVE StepSound
<1> USE NamesAssumption
<1> DEFINE u == req[r].user
           b == req[r].browser
           S == {t \in Sessions : sessions[t].user = u}
<1>1. /\ req[r] \in Request /\ RequestInStep(r) /\ req \in [Requests -> Request]
      /\ users \in [UserIds -> UserRow] /\ links \in [Links -> LinkRow]
      /\ accounts \in [Subjects -> UserIds \cup {None}]
      /\ jar \in [Browsers -> Jar] /\ RowsInStep /\ JarsInStep
  BY DEF TypeInv, TypeOK, Control
<1>2. /\ req[r].pc = "handler" /\ req' = [req EXCEPT ![r] = Over]
      /\ jar' = [jar EXCEPT ![b].session = None]
      /\ users' = [users EXCEPT ![u] = Anonymized(users[u])]
      /\ accounts' = [g \in Subjects |-> IF accounts[g] = u THEN None ELSE accounts[g]]
      /\ links' = [l \in Links |-> IF links[l].user = u
                     THEN [links[l] EXCEPT !.state = "deleted"] ELSE links[l]]
      /\ Ends(S, "deleted")
      /\ UNCHANGED <<flows, codes, events>>
  BY <1>1 DEF DeleteAccount, At, Goes, ClearsSession, Ends
<1>3. u \in UserIds
  BY <1>1, <1>2 DEF RequestInStep
<1>4. \A s \in S : sessions[s].state # "none"
  BY <1>1, <1>3 DEF RowsInStep
<1>5. Anonymized(users[u]) \in UserRow /\ Anonymized(users[u]).status = "deleted"
  BY DEF Anonymized, UserRow
<1> HIDE DEF S
<1>6. S \in SUBSET Sessions
  BY DEF S
<1>7. /\ sessions' \in [Sessions -> SessionRow]
      /\ \A s \in Sessions :
            IF sessions[s].state # "none"
            THEN /\ sessions'[s].state # "none"
                 /\ sessions'[s].user = sessions[s].user
                 /\ sessions'[s].via = sessions[s].via
                 /\ ~Usable(s) => ~Usable(s)'
            ELSE sessions'[s] = sessions[s]
  BY <1>2, <1>4, <1>6, EndsSessions
<1> HIDE DEF u, b
<1>8. /\ users' \in [UserIds -> UserRow]
      /\ \A v \in UserIds : /\ users[v].status # "none" => users'[v].status # "none"
                            /\ users[v].status = "deleted" => users'[v].status = "deleted"
  BY <1>1, <1>2, <1>5
<1>9. \A l \in Links : [links[l] EXCEPT !.state = "deleted"] \in LinkRow
  BY <1>1 DEF LinkRow
<1>10. /\ links' \in [Links -> LinkRow]
       /\ \A l \in Links : /\ links'[l].email = links[l].email
                           /\ IF links[l].user = u THEN links'[l].state = "deleted"
                              ELSE links'[l] = links[l]
  BY <1>1, <1>2, <1>9 DEF LinkRow
<1>11. ASSUME NEW l \in Links
       PROVE  /\ links[l].state # "none" =>
                    /\ links'[l].state # "none" /\ links'[l].email = links[l].email
                    /\ links[l].state # "unused" => links'[l].state # "unused"
              /\ IF links'[l].state = "none" THEN links'[l].user = None
                 ELSE links'[l].email \in Emails
  <2>1. u # None
    BY <1>3
  <2>2. IF links[l].state = "none" THEN links[l].user = None ELSE links[l].email \in Emails
    BY <1>1 DEF RowsInStep
  <2>3. CASE links[l].user = u
    BY <1>10, <2>1, <2>2, <2>3
  <2>4. CASE links[l].user # u
    BY <1>10, <2>2, <2>4
  <2>5. QED
    BY <2>3, <2>4
<1>12. Grows
  <2>1. \A s \in Sessions :
           sessions[s].state # "none" =>
              /\ sessions'[s].state # "none"
              /\ sessions'[s].user = sessions[s].user
              /\ sessions'[s].via = sessions[s].via
              /\ ~Usable(s) => ~Usable(s)'
    BY <1>7
  <2>2. flows' = flows
    BY <1>2
  <2>3. \A f \in Flows : flows[f].browser # None => flows'[f].browser = flows[f].browser
    BY <2>2
  <2>4. \A v \in UserIds : /\ users[v].status # "none" => users'[v].status # "none"
                           /\ users[v].status = "deleted" => users'[v].status = "deleted"
    BY <1>8
  <2>5. QED
    BY <1>11, <2>1, <2>3, <2>4, Zenon DEF Grows
<1>13. RowsInStep'
  <2>1. ASSUME NEW s \in Sessions
        PROVE  IF sessions'[s].state = "none"
               THEN sessions'[s].via = None /\ sessions'[s].user = None
               ELSE /\ sessions'[s].user \in UserIds
                    /\ users'[sessions'[s].user].status # "none"
    <3>1. CASE sessions[s].state = "none"
      BY <1>1, <1>7, <3>1 DEF RowsInStep
    <3>2. CASE sessions[s].state # "none"
      <4>1. sessions[s].user \in UserIds /\ users[sessions[s].user].status # "none"
        BY <1>1, <3>2 DEF RowsInStep
      <4>2. sessions'[s].state # "none" /\ sessions'[s].user = sessions[s].user
        BY <1>7, <3>2
      <4>3. users'[sessions[s].user].status # "none"
        BY <1>8, <4>1
      <4>4. QED
        BY <4>1, <4>2, <4>3
    <3>3. QED
      BY <3>1, <3>2
  <2>2. ASSUME NEW g \in Subjects, accounts'[g] # None
        PROVE  users'[accounts'[g]].status # "none"
    BY <1>1, <1>2, <1>8, <2>2 DEF RowsInStep
  <2>3. QED
    BY <1>11, <2>1, <2>2 DEF RowsInStep
<1>14. jar' \in [Browsers -> Jar]
  <2>1. \A c \in Browsers : [jar[c] EXCEPT !.session = None] \in Jar
    BY <1>1 DEF Jar
  <2>2. QED
    BY <1>1, <1>2, <2>1
<1>15. JarsInStep'
  BY <1>1, <1>2, <1>7 DEF JarsInStep, Jar
<1>16. accounts' \in [Subjects -> UserIds \cup {None}]
  BY <1>1, <1>2
<1>17. TypeOK'
  BY <1>1, <1>2, <1>7, <1>8, <1>10, <1>14, <1>16, NewOK DEF TypeInv, TypeOK
<1>18. QED
  BY <1>1, <1>2, <1>12, <1>13, <1>15, <1>17, OverInStep DEF StepSound

-----------------------------------------------------------------------------
LEMMA SoundBrowser ==
    ASSUME TypeInv,
           \/ \E b \in Browsers, f \in Flows : GoogleStart(b, f)
           \/ \E b \in Browsers : BrowserRestarts(b)
           \/ \E f \in Flows : FlowExpires(f)
    PROVE  StepSound
<1> USE NamesAssumption
<1>1. /\ flows \in [Flows -> FlowRow] /\ jar \in [Browsers -> Jar]
      /\ req \in [Requests -> Request] /\ events \in 0..MaxEvents
      /\ RowsInStep /\ JarsInStep
  BY DEF TypeInv, TypeOK, Control
<1>2. /\ UNCHANGED <<users, accounts, links, sessions, codes, req>>
      /\ events' \in 0..MaxEvents
  BY <1>1, AccountsAssumption
     DEF GoogleStart, BrowserRestarts, FlowExpires, Happens
<1>3. ASSUME flows' \in [Flows -> FlowRow], jar' \in [Browsers -> Jar],
             \A f \in Flows : flows[f].browser # None => flows'[f].browser = flows[f].browser,
             JarsInStep'
      PROVE  StepSound
  BY <1>1, <1>2, <1>3 DEF StepSound, Grows, RowsInStep, Usable, TypeInv, TypeOK
<1>4. ASSUME NEW b \in Browsers, NEW f \in Flows, GoogleStart(b, f) PROVE StepSound
  <2>1. /\ flows[f].browser = None /\ flows' = [flows EXCEPT ![f].browser = b]
        /\ jar' = [jar EXCEPT ![b].flow = f]
    BY <1>4 DEF GoogleStart
  <2>2. [flows[f] EXCEPT !.browser = b] \in FlowRow
    BY <1>1 DEF FlowRow
  <2>3. [jar[b] EXCEPT !.flow = f] \in Jar
    BY <1>1 DEF Jar
  <2>4. flows' \in [Flows -> FlowRow] /\ jar' \in [Browsers -> Jar]
    BY <1>1, <2>1, <2>2, <2>3
  <2>5. \A g \in Flows : flows[g].browser # None => flows'[g].browser = flows[g].browser
    BY <1>1, <2>1
  <2>6. flows'[f].browser = b
    BY <1>1, <2>1 DEF FlowRow
  <2>7. ASSUME NEW c \in Browsers
        PROVE  /\ jar'[c].session # None => sessions'[jar'[c].session].state # "none"
               /\ jar'[c].flow # None => flows'[jar'[c].flow].browser = c
    <3>1. CASE c = b
      BY <1>1, <1>2, <2>1, <2>6, <3>1 DEF JarsInStep, Jar
    <3>2. CASE c # b
      BY <1>1, <1>2, <2>1, <2>5, <3>2 DEF JarsInStep, Jar
    <3>3. QED
      BY <3>1, <3>2
  <2>8. QED
    BY <1>3, <2>4, <2>5, <2>7 DEF JarsInStep
<1>5. ASSUME NEW b \in Browsers, BrowserRestarts(b) PROVE StepSound
  <2>1. UNCHANGED flows /\ jar' = [jar EXCEPT ![b].csrf = FALSE]
    BY <1>5 DEF BrowserRestarts
  <2>2. [jar[b] EXCEPT !.csrf = FALSE] \in Jar
    BY <1>1 DEF Jar
  <2>3. jar' \in [Browsers -> Jar]
    BY <1>1, <2>1, <2>2
  <2>4. \A c \in Browsers : jar'[c].session = jar[c].session /\ jar'[c].flow = jar[c].flow
    BY <1>1, <2>1 DEF Jar
  <2>5. QED
    BY <1>1, <1>2, <1>3, <2>1, <2>3, <2>4 DEF JarsInStep
<1>6. ASSUME NEW f \in Flows, FlowExpires(f) PROVE StepSound
  <2>1. UNCHANGED jar /\ flows' = [flows EXCEPT ![f].expired = TRUE]
    BY <1>6 DEF FlowExpires
  <2>2. [flows[f] EXCEPT !.expired = TRUE] \in FlowRow
    BY <1>1 DEF FlowRow
  <2>3. flows' \in [Flows -> FlowRow]
    BY <1>1, <2>1, <2>2
  <2>4. \A g \in Flows : flows'[g].browser = flows[g].browser
    BY <1>1, <2>1 DEF FlowRow
  <2>5. JarsInStep'
    BY <1>1, <1>2, <2>1, <2>4 DEF JarsInStep, Jar
  <2>6. QED
    BY <1>1, <1>3, <2>1, <2>3, <2>4, <2>5
<1>7. QED
  BY <1>4, <1>5, <1>6

-----------------------------------------------------------------------------
LEMMA Sound == ASSUME TypeInv, Next PROVE StepSound
<1>1. ASSUME NEW r \in Requests, RequestStep(r) PROVE StepSound
  BY <1>1, SoundReads, SoundGuards, SoundAnswers, SoundLinks, SoundUsers, SoundRevocations,
     SoundLogout, SoundIssue, SoundDeletion DEF RequestStep
<1>2. ASSUME NEW r \in Requests, Arrival(r) PROVE StepSound
  BY <1>2, SoundArrival DEF Arrival
<1>3. QED
  BY <1>1, <1>2, SoundBrowser, SoundExpiry, SoundLinkExpires DEF Next

LEMMA TypeStep == TypeInv /\ [Next]_vars => TypeInv'
<1>1. ASSUME TypeInv, UNCHANGED vars PROVE TypeInv'
  BY <1>1 DEF vars, TypeInv, TypeOK, Control, RowsInStep, JarsInStep, RequestInStep
<1>2. QED
  BY <1>1, Sound, SoundStep

\* Types, and rows, cookies and requests in step: what a handler has read by
\* each of its awaits is there, whatever ran in between.
THEOREM TypesHold == Spec => []TypeInv
BY TypeInit, TypeStep, PTL DEF Spec

\* A Google sign-in ends in the browser that began it (OAuthStateService.verify).
THEOREM FlowStaysAlways == Spec => []FlowStaysInItsBrowser
<1>1. TypeInv => FlowStaysInItsBrowser
  BY DEF TypeInv, Control, RequestInStep, FlowStaysInItsBrowser
<1>2. QED
  BY <1>1, TypesHold, PTL

-----------------------------------------------------------------------------
\* A step moves one request.
LEMMA OneRequest ==
    ASSUME TypeInv, NEW q \in Requests, RequestStep(q) \/ Arrival(q),
           NEW r \in Requests, r # q
    PROVE  req'[r] = req[r]
<1>1. req \in [Requests -> Request]
  BY DEF TypeInv, TypeOK
<1>2. ASSUME Arrival(q) PROVE req'[r] = req[r]
  BY <1>1, <1>2 DEF Arrival, RequestMagicLink, OpenLink, GoogleCallback, RefuseCallback,
     Logout, Guarded, Arrives
<1>3. ASSUME \/ \E l \in Links : IssueLink(q, l)
             \/ ConsumeLink(q)
             \/ \E u \in UserIds : ResolveEmail(q, u) \/ CreateByEmail(q, u)
             \/ ResolveUnknownEmail(q)
             \/ EmailTaken(q)
      PROVE  req'[r] = req[r]
  BY <1>1, <1>3 DEF IssueLink, ConsumeLink, ResolveEmail, CreateByEmail, ResolveUnknownEmail,
     EmailTaken, Responds, Goes
<1>4. ASSUME \/ \E g \in Subjects : Exchange(q, g)
             \/ ExchangeFails(q)
             \/ ResolveAccount(q)
             \/ ResolveNewAccount(q)
             \/ BindKnownUser(q)
             \/ \E u \in UserIds, verified \in BOOLEAN : BindNewUser(q, u, verified)
             \/ BindFails(q)
      PROVE  req'[r] = req[r]
  BY <1>1, <1>4 DEF Exchange, ExchangeFails, ResolveAccount, ResolveNewAccount, BindKnownUser,
     BindNewUser, BindFails, CallbackFails, Goes
<1>5. ASSUME \/ \E s \in Sessions : IssueSession(q, s)
             \/ EstablishSession(q)
             \/ LogoutRevokes(q)
             \/ Authenticate(q)
             \/ LoadPrincipal(q)
             \/ RevokeSessions(q)
             \/ DeleteAccount(q)
      PROVE  req'[r] = req[r]
  BY <1>1, <1>5 DEF IssueSession, EstablishSession, LogoutRevokes, Authenticate, LoadPrincipal,
     RevokeSessions, DeleteAccount, Responds, Goes
<1>6. QED
  BY <1>2, <1>3, <1>4, <1>5 DEF RequestStep

LEMMA Moves ==
    ASSUME TypeInv, Next, NEW r \in Requests, req'[r] # req[r]
    PROVE  RequestStep(r) \/ Arrival(r)
<1>1. ASSUME NEW q \in Requests, RequestStep(q) \/ Arrival(q)
      PROVE  RequestStep(r) \/ Arrival(r)
  BY <1>1, OneRequest
<1>2. CASE \/ \E b \in Browsers, f \in Flows : GoogleStart(b, f)
           \/ \E b \in Browsers : BrowserRestarts(b)
           \/ \E s \in Sessions : SessionExpires(s)
           \/ \E l \in Links : LinkExpires(l)
           \/ \E f \in Flows : FlowExpires(f)
  BY <1>2 DEF GoogleStart, BrowserRestarts, SessionExpires, LinkExpires, FlowExpires
<1>3. QED
  BY <1>1, <1>2 DEF Next

\* A deleted account gives its address back: the email sign-in never resolves
\* to a deleted user (findOrCreateByEmail after deleteAccount).
THEOREM EmailFindsLivingUserAlways == Spec => EmailFindsLivingUser
<1> DEFINE P == \A r \in Requests :
                  At(r, "email_resolve") /\ req'[r].pc = "issue"
                     => users[req'[r].user].status = "active"
<1>1. ASSUME TypeInv, Next PROVE P
  <2> SUFFICES ASSUME NEW r \in Requests, At(r, "email_resolve"), req'[r].pc = "issue"
               PROVE  users[req'[r].user].status = "active"
    OBVIOUS
  <2>1. req \in [Requests -> Request] /\ req[r].pc = "email_resolve" /\ req[r].email \in Emails
    BY <1>1 DEF TypeInv, TypeOK, Control, RequestInStep, AddressPcs, At
  <2>2. RequestStep(r) \/ Arrival(r)
    BY <1>1, <2>1, Moves
  <2>3. ~Arrival(r)
    BY <2>1 DEF Arrival, RequestMagicLink, OpenLink, GoogleCallback, RefuseCallback, Logout,
       Guarded, Arrives, At
  <2>4. (\E u \in UserIds : ResolveEmail(r, u)) \/ ResolveUnknownEmail(r)
    BY <2>1, <2>2, <2>3
       DEF RequestStep, IssueLink, ConsumeLink, CreateByEmail, EmailTaken, Exchange,
           ExchangeFails, ResolveAccount, ResolveNewAccount, BindKnownUser, BindNewUser,
           BindFails, IssueSession, EstablishSession, LogoutRevokes, Authenticate,
           LoadPrincipal, RevokeSessions, DeleteAccount, At
  <2>5. ~ResolveUnknownEmail(r)
    BY <2>1 DEF ResolveUnknownEmail, Goes, Request
  <2>6. PICK u \in UserIds : ResolveEmail(r, u)
    BY <2>4, <2>5
  <2>7. req'[r].user = u /\ u \in WithEmail(req[r].email)
    BY <2>1, <2>6 DEF ResolveEmail, Request
  <2>8. QED
    BY <1>1, <2>1, <2>7, Addressed
<1>2. ASSUME UNCHANGED vars PROVE P \/ UNCHANGED vars
  BY <1>2
<1>3. QED
  BY <1>1, <1>2, TypesHold, PTL DEF Spec, EmailFindsLivingUser

-----------------------------------------------------------------------------
\* What binds an identity, or unbinds it.
LEMMA WhoBinds ==
    ASSUME TypeInv, Next, accounts' # accounts
    PROVE  \E r \in Requests :
              \/ BindKnownUser(r) \/ DeleteAccount(r)
              \/ \E u \in UserIds, verified \in BOOLEAN : BindNewUser(r, u, verified)
<1>1. ASSUME NEW q \in Requests, Arrival(q) PROVE FALSE
  BY <1>1 DEF Arrival, RequestMagicLink, OpenLink, GoogleCallback, RefuseCallback, Logout, Guarded
<1>2. ASSUME NEW q \in Requests, RequestStep(q)
      PROVE  \/ BindKnownUser(q) \/ DeleteAccount(q)
             \/ \E u \in UserIds, verified \in BOOLEAN : BindNewUser(q, u, verified)
  BY <1>2 DEF RequestStep, IssueLink, ConsumeLink, ResolveEmail, CreateByEmail,
     ResolveUnknownEmail, EmailTaken, Exchange, ExchangeFails, CallbackFails, ResolveAccount,
     ResolveNewAccount, BindFails, IssueSession, EstablishSession, LogoutRevokes,
     Authenticate, LoadPrincipal, RevokeSessions
<1>3. CASE \/ \E b \in Browsers, f \in Flows : GoogleStart(b, f)
           \/ \E b \in Browsers : BrowserRestarts(b)
           \/ \E s \in Sessions : SessionExpires(s)
           \/ \E l \in Links : LinkExpires(l)
           \/ \E f \in Flows : FlowExpires(f)
  BY <1>3 DEF GoogleStart, BrowserRestarts, SessionExpires, LinkExpires, FlowExpires
<1>4. QED
  BY <1>1, <1>2, <1>3 DEF Next

\* A Google identity is bound once and unbound only by the deletion of its
\* user (findOrCreateByGoogle under accounts_provider_account_unique).
THEOREM IdentityNeverMovesAlways == Spec => IdentityNeverMoves
<1> DEFINE P == \A g \in Subjects :
                  accounts[g] # None /\ accounts'[g] # accounts[g] =>
                     accounts'[g] = None /\ users'[accounts[g]].status = "deleted"
<1>1. ASSUME TypeInv, Next PROVE P
  <2> SUFFICES ASSUME NEW g \in Subjects, accounts[g] # None, accounts'[g] # accounts[g]
               PROVE  accounts'[g] = None /\ users'[accounts[g]].status = "deleted"
    OBVIOUS
  <2>1. /\ accounts \in [Subjects -> UserIds \cup {None}]
        /\ users \in [UserIds -> UserRow]
    BY <1>1 DEF TypeInv, TypeOK
  <2>2. PICK r \in Requests :
              \/ BindKnownUser(r) \/ DeleteAccount(r)
              \/ \E u \in UserIds, verified \in BOOLEAN : BindNewUser(r, u, verified)
    BY <1>1, WhoBinds
  <2>3. DeleteAccount(r)
    BY <2>1, <2>2 DEF BindKnownUser, BindNewUser, Binds
  <2>4. accounts[g] = req[r].user /\ accounts'[g] = None
    BY <2>1, <2>3 DEF DeleteAccount
  <2>5. users'[accounts[g]] = Anonymized(users[accounts[g]])
    BY <2>1, <2>3, <2>4 DEF DeleteAccount
  <2>6. QED
    BY <2>4, <2>5 DEF Anonymized
<1>2. ASSUME UNCHANGED vars PROVE P \/ UNCHANGED vars
  BY <1>2
<1>3. QED
  BY <1>1, <1>2, TypesHold, PTL DEF Spec, IdentityNeverMoves

-----------------------------------------------------------------------------
\* What writes a session.
LEMMA WhoWritesSessions ==
    ASSUME TypeInv, Next, sessions' # sessions
    PROVE  \/ \E s \in Sessions : SessionExpires(s)
           \/ \E r \in Requests :
                 \/ LogoutRevokes(r) \/ RevokeSessions(r) \/ DeleteAccount(r)
                 \/ \E s \in Sessions : IssueSession(r, s)
<1>1. ASSUME NEW q \in Requests, Arrival(q) PROVE FALSE
  BY <1>1 DEF Arrival, RequestMagicLink, OpenLink, GoogleCallback, RefuseCallback, Logout, Guarded
<1>2. ASSUME NEW q \in Requests, RequestStep(q)
      PROVE  \/ LogoutRevokes(q) \/ RevokeSessions(q) \/ DeleteAccount(q)
             \/ \E s \in Sessions : IssueSession(q, s)
  BY <1>2 DEF RequestStep, IssueLink, ConsumeLink, ResolveEmail, CreateByEmail,
     ResolveUnknownEmail, EmailTaken, Exchange, ExchangeFails, CallbackFails, ResolveAccount,
     ResolveNewAccount, BindKnownUser, BindNewUser, BindFails, EstablishSession, Authenticate,
     LoadPrincipal
<1>3. CASE \/ \E b \in Browsers, f \in Flows : GoogleStart(b, f)
           \/ \E b \in Browsers : BrowserRestarts(b)
           \/ \E l \in Links : LinkExpires(l)
           \/ \E f \in Flows : FlowExpires(f)
  BY <1>3 DEF GoogleStart, BrowserRestarts, LinkExpires, FlowExpires
<1>4. QED
  BY <1>1, <1>2, <1>3 DEF Next

\* A session ends only by a request of its own user, or with the session itself
\* (RevokeSessions, LogoutRevokes, DeleteAccount), or by time.
THEOREM OwnSessionsOnlyAlways == Spec => OwnSessionsOnly
<1> DEFINE P == \A s \in Sessions :
                  sessions[s].state = "live" /\ sessions'[s].state # "live" =>
                     \E r \in Requests : /\ req[r].pc \in {"handler", "logout"}
                                         /\ req'[r].pc = "done"
                                         /\ \/ req[r].user = sessions[s].user
                                            \/ req[r].session = s
<1>1. ASSUME TypeInv, Next PROVE P
  <2> SUFFICES ASSUME NEW s \in Sessions,
                      sessions[s].state = "live", sessions'[s].state # "live"
               PROVE  \E r \in Requests : /\ req[r].pc \in {"handler", "logout"}
                                          /\ req'[r].pc = "done"
                                          /\ \/ req[r].user = sessions[s].user
                                             \/ req[r].session = s
    OBVIOUS
  <2>1. sessions \in [Sessions -> SessionRow] /\ req \in [Requests -> Request]
    BY <1>1 DEF TypeInv, TypeOK
  <2>2. ~\E t \in Sessions : SessionExpires(t)
    BY <2>1 DEF SessionExpires, SessionRow
  <2>3. ~\E r \in Requests, t \in Sessions : IssueSession(r, t)
    BY <2>1 DEF IssueSession, Spare
  <2>4. PICK r \in Requests : LogoutRevokes(r) \/ RevokeSessions(r) \/ DeleteAccount(r)
    BY <1>1, <2>2, <2>3, WhoWritesSessions
  <2>5. req'[r].pc = "done" /\ req[r].pc \in {"handler", "logout"}
    BY <2>1, <2>4 DEF LogoutRevokes, RevokeSessions, DeleteAccount, Responds, Goes, Over,
       NewRequest, At
  <2>6. CASE LogoutRevokes(r)
    BY <2>1, <2>5, <2>6 DEF LogoutRevokes, Revoked
  <2>7. CASE RevokeSessions(r)
    BY <2>1, <2>5, <2>7 DEF RevokeSessions, RevokeById, RevokeOthers, RevokeAll, Revoked
  <2>8. CASE DeleteAccount(r)
    BY <2>1, <2>5, <2>8 DEF DeleteAccount
  <2>9. QED
    BY <2>4, <2>6, <2>7, <2>8
<1>2. ASSUME UNCHANGED vars PROVE P \/ UNCHANGED vars
  BY <1>2
<1>3. QED
  BY <1>1, <1>2, TypesHold, PTL DEF Spec, OwnSessionsOnly

-----------------------------------------------------------------------------
\* Where a request that has just arrived is.
LEMMA ArrivalPcs ==
    ASSUME TypeInv, NEW r \in Requests, Arrival(r)
    PROVE  \/ req'[r].pc \in {"link_create", "link_mark", "exchange", "done", "logout"}
           \/ req'[r].pc = "authenticate" /\ \E b \in Browsers : Guarded(r, b)
<1>0. req \in [Requests -> Request]
  BY DEF TypeInv, TypeOK
<1>1. PICK b \in Browsers :
         \/ \E e \in Emails : RequestMagicLink(r, b, e)
         \/ \E l \in Links : OpenLink(r, b, l)
         \/ \E f \in Flows : GoogleCallback(r, b, f)
         \/ RefuseCallback(r, b)
         \/ Logout(r, b)
         \/ Guarded(r, b)
  BY DEF Arrival
<1>2. ASSUME NEW e \in Emails, RequestMagicLink(r, b, e) PROVE req'[r].pc = "link_create"
  <2>1. PICK u : req' = [req EXCEPT ![r] =
                           [From(b, "link_create") EXCEPT !.email = e, !.user = u]]
    BY <1>2 DEF RequestMagicLink, Arrives
  <2>2. QED
    BY <1>0, <2>1 DEF From, NewRequest
<1>3. ASSUME NEW l \in Links, OpenLink(r, b, l) PROVE req'[r].pc \in {"link_mark", "done"}
  <2>1. CASE links[l].state = "unused" /\ ~links[l].expired
    BY <1>0, <1>3, <2>1 DEF OpenLink, Arrives, From, NewRequest
  <2>2. CASE ~(links[l].state = "unused" /\ ~links[l].expired)
    BY <1>0, <1>3, <2>2 DEF OpenLink, Arrives, Over, NewRequest
  <2>3. QED
    BY <2>1, <2>2
<1>4. ASSUME NEW f \in Flows, GoogleCallback(r, b, f) PROVE req'[r].pc = "exchange"
  BY <1>0, <1>4 DEF GoogleCallback, Arrives, From, NewRequest
<1>5. ASSUME RefuseCallback(r, b) PROVE req'[r].pc = "done"
  BY <1>0, <1>5 DEF RefuseCallback, Arrives, Over, NewRequest
<1>6. ASSUME Logout(r, b) PROVE req'[r].pc = "logout"
  BY <1>0, <1>6 DEF Logout, Arrives, From, NewRequest
<1>7. ASSUME Guarded(r, b) PROVE req'[r].pc = "authenticate"
  <2>1. PICK late : req' = [req EXCEPT ![r] = [From(b, "authenticate") EXCEPT
                      !.session = jar[b].session, !.csrf = jar[b].csrf, !.late = late]]
    BY <1>7 DEF Guarded, Arrives
  <2>2. QED
    BY <1>0, <2>1 DEF From, NewRequest
<1>8. QED
  BY <1>1, <1>2, <1>3, <1>4, <1>5, <1>6, <1>7

\* What a late request runs into: its session, or at the latest its user.
LateInStep(r) ==
    /\ req[r].late /\ At(r, "authenticate") =>
          \/ ~Usable(req[r].session)
          \/ users[sessions[req[r].session].user].status = "deleted"
    /\ req[r].late /\ At(r, "principal") => users[req[r].user].status = "deleted"
    /\ At(r, "handler") => ~req[r].late

LEMMA LateStep ==
    ASSUME TypeInv, Next, NEW r \in Requests, LateInStep(r)
    PROVE  LateInStep(r)'
<1> USE NamesAssumption
<1>1. /\ req[r] \in Request /\ RequestInStep(r) /\ req \in [Requests -> Request]
      /\ RowsInStep /\ users \in [UserIds -> UserRow]
  BY DEF TypeInv, TypeOK, Control
<1>2. Grows
  BY Sound DEF StepSound
<1>3. CASE req'[r] = req[r]
  <2>1. ASSUME req[r].late, req[r].pc = "authenticate"
        PROVE  \/ ~Usable(req[r].session)'
               \/ users'[sessions'[req[r].session].user].status = "deleted"
    <3>1. /\ req[r].session \in Sessions /\ sessions[req[r].session].state # "none"
      BY <1>1, <2>1 DEF RequestInStep
    <3>2. sessions[req[r].session].user \in UserIds
      BY <1>1, <3>1 DEF RowsInStep
    <3>3. /\ sessions'[req[r].session].user = sessions[req[r].session].user
          /\ (~Usable(req[r].session) => ~(sessions'[req[r].session].state = "live"
                                         /\ ~sessions'[req[r].session].expired))
      BY <1>2, <3>1 DEF Grows, Usable
    <3>4. CASE ~Usable(req[r].session)
      BY <1>3, <3>3, <3>4 DEF Usable
    <3>5. CASE users[sessions[req[r].session].user].status = "deleted"
      BY <1>2, <3>2, <3>3, <3>5 DEF Grows
    <3>6. QED
      BY <2>1, <3>4, <3>5 DEF LateInStep, At
  <2>2. ASSUME req[r].late, req[r].pc = "principal"
        PROVE  users'[req[r].user].status = "deleted"
    BY <1>1, <1>2, <2>2 DEF LateInStep, At, RequestInStep, Grows
  <2>3. QED
    BY <1>3, <2>1, <2>2 DEF LateInStep, At, Usable
<1>4. CASE req'[r] # req[r]
  <2>1. RequestStep(r) \/ Arrival(r)
    BY <1>4, Moves
  <2>2. ASSUME NEW b \in Browsers, Guarded(r, b) PROVE LateInStep(r)'
    <3> DEFINE s == jar[b].session
    <3>1. s # None /\ jar[b] \in Jar /\ UNCHANGED <<users, sessions>>
      BY <2>2 DEF Guarded, TypeInv, TypeOK
    <3>2. s \in Sessions /\ sessions[s].state # "none"
      BY <3>1 DEF Jar, TypeInv, Control, JarsInStep
    <3>3. users[sessions[s].user].status \in {"active", "deleted"}
      BY <1>1, <3>2 DEF RowsInStep, UserRow
    <3>4. PICK late \in BOOLEAN :
             /\ late = (~Usable(s) \/ users[sessions[s].user].status # "active")
             /\ req' = [req EXCEPT ![r] = [From(b, "authenticate") EXCEPT
                          !.session = s, !.csrf = jar[b].csrf, !.late = late]]
      BY <2>2 DEF Guarded, Arrives
    <3>5. /\ req'[r].pc = "authenticate" /\ req'[r].late = late
          /\ req'[r].session = s
      BY <1>1, <3>4 DEF From, NewRequest
    <3> HIDE DEF s
    <3>6. QED
      BY <3>1, <3>3, <3>4, <3>5 DEF LateInStep, At, Usable
  <2>3. CASE Authenticate(r)
    <3>1. req[r].pc = "authenticate" /\ UNCHANGED <<users, sessions>>
      BY <2>3 DEF Authenticate, At
    <3>2. CASE Usable(req[r].session)
      <4>1. /\ req'[r].pc = "principal" /\ req'[r].late = req[r].late
            /\ req'[r].user = sessions[req[r].session].user
        BY <1>1, <2>3, <3>2 DEF Authenticate, Request
      <4>2. QED
        BY <3>1, <3>2, <4>1 DEF LateInStep, At
    <3>3. CASE ~Usable(req[r].session)
      BY <1>1, <2>3, <3>3 DEF Authenticate, LateInStep, At, Over, NewRequest
    <3>4. QED
      BY <3>2, <3>3
  <2>4. CASE LoadPrincipal(r)
    <3>1. req[r].pc = "principal" /\ UNCHANGED <<users, sessions>>
      BY <2>4 DEF LoadPrincipal, At
    <3>2. CASE Principal(req[r].user) /\ req[r].csrf
      <4>1. req'[r].pc = "handler" /\ req'[r].late = req[r].late
        BY <1>1, <2>4, <3>2 DEF LoadPrincipal, Goes, Request
      <4>2. QED
        BY <3>1, <3>2, <4>1 DEF LateInStep, At, Principal
    <3>3. CASE ~(Principal(req[r].user) /\ req[r].csrf)
      BY <1>1, <2>4, <3>3 DEF LoadPrincipal, Goes, LateInStep, At, Over, NewRequest
    <3>4. QED
      BY <3>2, <3>3
  <2>5. ASSUME req'[r].pc \notin {"authenticate", "principal", "handler"}
        PROVE  LateInStep(r)'
    BY <2>5 DEF LateInStep, At
  <2>6. ASSUME Arrival(r), ~\E b \in Browsers : Guarded(r, b)
        PROVE  req'[r].pc \notin {"authenticate", "principal", "handler"}
    BY <2>6, ArrivalPcs
  <2>7. ASSUME RequestStep(r), ~Authenticate(r), ~LoadPrincipal(r)
        PROVE  req'[r].pc \notin {"authenticate", "principal", "handler"}
    <3>1. ASSUME NEW pc, Goes(r, pc) PROVE req'[r].pc = pc
      BY <1>1, <3>1 DEF Goes, Over, NewRequest, Request
    <3>2. CASE (\E l \in Links : IssueLink(r, l)) \/ EmailTaken(r) \/ ExchangeFails(r)
               \/ BindFails(r) \/ EstablishSession(r) \/ LogoutRevokes(r)
               \/ RevokeSessions(r) \/ DeleteAccount(r)
      <4>1. Goes(r, "done")
        BY <3>2 DEF IssueLink, EmailTaken, ExchangeFails, BindFails, CallbackFails,
           EstablishSession, LogoutRevokes, RevokeSessions, DeleteAccount, Responds
      <4>2. QED
        BY <3>1, <4>1
    <3>3. CASE ConsumeLink(r) \/ ResolveUnknownEmail(r) \/ BindKnownUser(r)
      <4>1. Goes(r, "done") \/ Goes(r, "email_resolve") \/ Goes(r, "email_insert")
               \/ Goes(r, "issue")
        BY <3>3 DEF ConsumeLink, ResolveUnknownEmail, BindKnownUser
      <4>2. QED
        BY <3>1, <4>1
    <3>4. CASE \E u \in UserIds : ResolveEmail(r, u) \/ CreateByEmail(r, u)
                  \/ \E verified \in BOOLEAN : BindNewUser(r, u, verified)
      <4>1. PICK u \in UserIds : req' = [req EXCEPT ![r].pc = "issue", ![r].user = u]
        BY <3>4 DEF ResolveEmail, CreateByEmail, BindNewUser
      <4>2. QED
        BY <1>1, <4>1 DEF Request
    <3>5. CASE \E g \in Subjects : Exchange(r, g)
      BY <1>1, <3>5 DEF Exchange, Request
    <3>6. CASE ResolveAccount(r)
      BY <1>1, <3>6 DEF ResolveAccount, Request
    <3>7. CASE ResolveNewAccount(r)
      <4>1. PICK u : req' = [req EXCEPT ![r].pc = "google_bind", ![r].user = u]
        BY <3>7 DEF ResolveNewAccount
      <4>2. QED
        BY <1>1, <4>1 DEF Request
    <3>8. CASE \E s \in Sessions : IssueSession(r, s)
      BY <1>1, <3>8 DEF IssueSession, Request
    <3>9. QED
      BY <2>7, <3>2, <3>3, <3>4, <3>5, <3>6, <3>7, <3>8 DEF RequestStep
  <2>8. QED
    BY <2>1, <2>2, <2>3, <2>4, <2>5, <2>6, <2>7
<1>5. QED
  BY <1>3, <1>4

\* No handler runs for a request that came after its session or its user had
\* ended (the two reads of SessionAuthGuard).
THEOREM LateNeverServedAlways == Spec => []LateNeverServed
<1> DEFINE Inv == TypeInv /\ \A r \in Requests : LateInStep(r)
<1>1. Init => Inv
  <2>1. Init => req = [r \in Requests |-> NewRequest]
    BY DEF Init
  <2>2. QED
    BY <2>1, TypeInit DEF LateInStep, At, NewRequest
<1>2. Inv /\ [Next]_vars => Inv'
  <2>1. ASSUME Inv, Next PROVE Inv'
    BY <2>1, TypeStep, LateStep
  <2>2. ASSUME Inv, UNCHANGED vars PROVE Inv'
    BY <2>2, TypeStep DEF vars, LateInStep, At, Usable
  <2>3. QED
    BY <2>1, <2>2
<1>3. Inv => LateNeverServed
  BY DEF LateInStep, LateNeverServed
<1>4. QED
  BY <1>1, <1>2, <1>3, PTL DEF Spec

-----------------------------------------------------------------------------
\* A request that has consumed a link, until its session is there.
Claiming == {"email_resolve", "email_insert", "issue"}

Claims(r) == req[r].pc \in Claiming /\ req[r].via \in Links

IsSpent(link) == link.state \notin {"none", "unused"}

Spent(l) == IsSpent(links[l])

\* A link that was consumed belongs to one request, and then to one session.
LinksInStep ==
    /\ \A s \in Sessions : sessions[s].via \in Links => Spent(sessions[s].via)
    /\ \A r \in Requests : Claims(r) => /\ Spent(req[r].via)
                                       /\ \A s \in Sessions : sessions[s].via # req[r].via
    /\ \A q, r \in Requests : Claims(q) /\ Claims(r) /\ req[q].via = req[r].via => q = r
    /\ LinkSignsInOnce

\* A request claims a link by consuming it, or goes on claiming it.
LEMMA ClaimStep ==
    ASSUME TypeInv, Next, NEW r \in Requests, Claims(r)'
    PROVE  /\ req'[r].via = req[r].via
           /\ \/ Claims(r)
              \/ ConsumeLink(r) /\ MarkUsed(req[r].via)
<1> USE NamesAssumption
<1>1. /\ req[r] \in Request /\ RequestInStep(r) /\ req \in [Requests -> Request]
  BY DEF TypeInv, TypeOK, Control
<1>2. CASE req'[r] = req[r]
  BY <1>2 DEF Claims
<1>3. CASE req'[r] # req[r]
  <2>1. RequestStep(r)
    BY <1>3, Moves, ArrivalPcs DEF Claims, Claiming
  <2>2. ASSUME NEW pc, Goes(r, pc)
        PROVE  req'[r].pc = pc /\ (pc # "done" => req'[r].via = req[r].via)
    BY <1>1, <2>2 DEF Goes, Over, NewRequest, Request
  <2>3. CASE (\E l \in Links : IssueLink(r, l)) \/ EmailTaken(r) \/ ExchangeFails(r)
             \/ BindFails(r) \/ EstablishSession(r) \/ LogoutRevokes(r)
             \/ RevokeSessions(r) \/ DeleteAccount(r)
    <3>1. Goes(r, "done")
      BY <2>3 DEF IssueLink, EmailTaken, ExchangeFails, BindFails, CallbackFails,
         EstablishSession, LogoutRevokes, RevokeSessions, DeleteAccount, Responds
    <3>2. QED
      BY <2>2, <3>1 DEF Claims, Claiming
  <2>4. CASE ConsumeLink(r)
    <3>1. CASE MarkUsed(req[r].via)
      BY <2>2, <2>4, <3>1 DEF ConsumeLink
    <3>2. CASE ~MarkUsed(req[r].via)
      <4>1. Goes(r, "done")
        BY <2>4, <3>2 DEF ConsumeLink
      <4>2. QED
        BY <2>2, <4>1 DEF Claims, Claiming
    <3>3. QED
      BY <3>1, <3>2
  <2>5. CASE ResolveUnknownEmail(r)
    <3>1. Goes(r, "email_insert") /\ req[r].pc = "email_resolve"
      BY <2>5 DEF ResolveUnknownEmail, At
    <3>2. QED
      BY <2>2, <3>1 DEF Claims, Claiming
  <2>6. CASE \E u \in UserIds : ResolveEmail(r, u) \/ CreateByEmail(r, u)
    <3>1. PICK u : req' = [req EXCEPT ![r].pc = "issue", ![r].user = u]
      BY <2>6 DEF ResolveEmail, CreateByEmail
    <3>2. req[r].pc \in Claiming
      BY <2>6 DEF ResolveEmail, CreateByEmail, At, Claiming
    <3>3. req'[r].via = req[r].via
      BY <1>1, <3>1 DEF Request
    <3>4. req[r].via \in Links
      BY <3>3 DEF Claims
    <3>5. QED
      BY <3>2, <3>3, <3>4 DEF Claims
  <2>7. CASE req[r].pc \in {"exchange", "google_resolve", "google_bind"}
    <3>1. req[r].via \notin Links
      BY <1>1, <2>7 DEF RequestInStep
    <3>2. req'[r].via = req[r].via \/ req'[r].via = None
      <4>1. CASE BindKnownUser(r)
        BY <2>2, <4>1 DEF BindKnownUser
      <4>2. CASE \E u \in UserIds, verified \in BOOLEAN : BindNewUser(r, u, verified)
        <5>1. PICK u : req' = [req EXCEPT ![r].pc = "issue", ![r].user = u]
          BY <4>2 DEF BindNewUser
        <5>2. QED
          BY <1>1, <5>1 DEF Request
      <4>3. CASE \E g \in Subjects : Exchange(r, g)
        BY <1>1, <4>3 DEF Exchange, Request
      <4>4. CASE ResolveAccount(r)
        BY <1>1, <4>4 DEF ResolveAccount, Request
      <4>5. CASE ResolveNewAccount(r)
        <5>1. PICK u : req' = [req EXCEPT ![r].pc = "google_bind", ![r].user = u]
          BY <4>5 DEF ResolveNewAccount
        <5>2. QED
          BY <1>1, <5>1 DEF Request
      <4>6. CASE ExchangeFails(r) \/ BindFails(r)
        BY <1>1, <4>6 DEF ExchangeFails, BindFails, CallbackFails, Goes, Over, NewRequest
      <4>7. QED
        BY <2>1, <2>7, <4>1, <4>2, <4>3, <4>4, <4>5, <4>6
           DEF RequestStep, IssueLink, ConsumeLink, ResolveEmail, CreateByEmail,
               ResolveUnknownEmail, EmailTaken, IssueSession, EstablishSession, LogoutRevokes,
               Authenticate, LoadPrincipal, RevokeSessions, DeleteAccount, At
    <3>3. QED
      BY <3>1, <3>2 DEF Claims
  <2>8. CASE \E s \in Sessions : IssueSession(r, s)
    BY <1>1, <2>8 DEF IssueSession, Request, Claims, Claiming
  <2>9. CASE Authenticate(r)
    <3>1. CASE Usable(req[r].session)
      BY <1>1, <2>9, <3>1 DEF Authenticate, Request, Claims, Claiming
    <3>2. CASE ~Usable(req[r].session)
      BY <1>1, <2>9, <3>2 DEF Authenticate, Over, NewRequest, Claims, Claiming
    <3>3. QED
      BY <3>1, <3>2
  <2>10. CASE LoadPrincipal(r)
    <3>1. Goes(r, "handler") \/ Goes(r, "done")
      BY <2>10 DEF LoadPrincipal
    <3>2. QED
      BY <2>2, <3>1 DEF Claims, Claiming
  <2>11. QED
    BY <2>1, <2>3, <2>4, <2>5, <2>6, <2>7, <2>8, <2>9, <2>10
       DEF RequestStep, Exchange, ResolveAccount, ResolveNewAccount, BindKnownUser,
           BindNewUser, At
<1>4. QED
  BY <1>2, <1>3

LEMMA LinksStep ==
    ASSUME TypeInv, LinksInStep, Next
    PROVE  LinksInStep'
<1> USE NamesAssumption
<1>1. /\ req \in [Requests -> Request] /\ links \in [Links -> LinkRow]
      /\ sessions \in [Sessions -> SessionRow]
      /\ \A r \in Requests : RequestInStep(r)
      /\ \A s \in Sessions : sessions[s].state = "none" => sessions[s].via = None
  BY DEF TypeInv, TypeOK, Control, RowsInStep
<1>2. ASSUME NEW l \in Links, Spent(l) PROVE IsSpent(links'[l])
  BY <1>2, Sound DEF StepSound, Grows, Spent, IsSpent
\* A link that is consumed in this step is nobody's yet.
<1>3. ASSUME NEW r \in Requests, ConsumeLink(r), MarkUsed(req[r].via)
      PROVE  /\ req[r].via \in Links /\ IsSpent(links'[req[r].via])
             /\ UNCHANGED sessions
             /\ \A q \in Requests : Claims(q) => req[q].via # req[r].via
             /\ \A s \in Sessions : sessions[s].via # req[r].via
             /\ \A q \in Requests : q # r => req'[q] = req[q]
  <2>1. req[r].via \in Links /\ links[req[r].via].state = "unused"
    BY <1>1, <1>3 DEF ConsumeLink, At, RequestInStep, MarkUsed
  <2>2. links' = [links EXCEPT ![req[r].via].state = "used"] /\ UNCHANGED sessions
    BY <1>3 DEF ConsumeLink
  <2>3. links'[req[r].via].state = "used"
    BY <1>1, <2>1, <2>2 DEF LinkRow
  <2>4. \A q \in Requests : q # r => req'[q] = req[q]
    BY <1>3, OneRequest DEF RequestStep
  <2>5. ~Spent(req[r].via)
    BY <2>1 DEF Spent, IsSpent
  <2>6. QED
    BY <2>1, <2>2, <2>3, <2>4, <2>5 DEF LinksInStep, IsSpent
\* A session gets its link from the request that claimed it.
<1>4. ASSUME NEW s \in Sessions, sessions'[s].via \in Links
      PROVE  \/ sessions'[s].via = sessions[s].via
             \/ \E r \in Requests : /\ Claims(r) /\ ~Claims(r)'
                                    /\ sessions'[s].via = req[r].via
                                    /\ \A t \in Sessions : t # s => sessions'[t] = sessions[t]
                                    /\ \A q \in Requests : q # r => req'[q] = req[q]
  <2>1. CASE sessions[s].state # "none"
    BY <2>1, Sound DEF StepSound, Grows
  <2>2. CASE sessions[s].state = "none" /\ sessions'[s] # sessions[s]
    <3>1. ~\E t \in Sessions : SessionExpires(t)
      BY <1>1, <2>2 DEF SessionExpires
    <3>2. ASSUME NEW r \in Requests, LogoutRevokes(r) PROVE FALSE
      BY <1>1, <2>2, <3>2 DEF LogoutRevokes, Revoked
    <3>3. ASSUME NEW r \in Requests, DeleteAccount(r) PROVE sessions'[s].via = sessions[s].via
      BY <1>1, <3>3 DEF DeleteAccount, SessionRow
    <3>4. ASSUME NEW r \in Requests, RevokeSessions(r) PROVE sessions'[s].via = sessions[s].via
      BY <1>1, <3>4 DEF RevokeSessions, RevokeById, RevokeOthers, RevokeAll, Revoked, SessionRow
    <3>5. ASSUME NEW r \in Requests, NEW t \in Sessions, IssueSession(r, t)
          PROVE  /\ Claims(r) /\ ~Claims(r)' /\ sessions'[s].via = req[r].via
                 /\ \A v \in Sessions : v # s => sessions'[v] = sessions[v]
                 /\ \A q \in Requests : q # r => req'[q] = req[q]
      <4>1. /\ t = s /\ sessions'[s].via = req[r].via
            /\ \A v \in Sessions : v # s => sessions'[v] = sessions[v]
        BY <1>1, <2>2, <3>5 DEF IssueSession
      <4>2. req[r].pc = "issue" /\ req'[r].pc = "establish"
        BY <1>1, <3>5 DEF IssueSession, At, Request
      <4>3. \A q \in Requests : q # r => req'[q] = req[q]
        BY <3>5, OneRequest DEF RequestStep
      <4>4. QED
        BY <1>4, <4>1, <4>2, <4>3 DEF Claims, Claiming
    <3>6. PICK r \in Requests : \/ LogoutRevokes(r) \/ RevokeSessions(r) \/ DeleteAccount(r)
                                \/ \E t \in Sessions : IssueSession(r, t)
      BY <2>2, <3>1, WhoWritesSessions
    <3>7. QED
      BY <3>2, <3>3, <3>4, <3>5, <3>6
  <2>3. CASE sessions'[s] = sessions[s]
    BY <2>3
  <2>4. QED
    BY <2>1, <2>2, <2>3
<1>5. ASSUME NEW s \in Sessions, sessions'[s].via \in Links
      PROVE  IsSpent(links'[sessions'[s].via])
  BY <1>2, <1>4, <1>5 DEF LinksInStep
<1>6. ASSUME NEW r \in Requests, Claims(r)' PROVE IsSpent(links'[req'[r].via])
  BY <1>2, <1>3, <1>6, ClaimStep DEF LinksInStep, Claims
<1>7. ASSUME NEW r \in Requests, Claims(r)', NEW s \in Sessions
      PROVE  sessions'[s].via # req'[r].via
  <2> SUFFICES ASSUME sessions'[s].via = req'[r].via PROVE FALSE
    OBVIOUS
  <2>1. req'[r].via = req[r].via /\ req[r].via \in Links
    BY <1>7, ClaimStep DEF Claims
  <2>2. sessions[s].via # req[r].via
    BY <1>3, <1>7, ClaimStep DEF LinksInStep
  <2>3. PICK q \in Requests : Claims(q) /\ ~Claims(q)' /\ sessions'[s].via = req[q].via
    BY <1>4, <2>1, <2>2
  <2>4. q # r
    BY <1>7, <2>3
  <2>5. CASE Claims(r)
    BY <2>1, <2>3, <2>4, <2>5 DEF LinksInStep
  <2>6. CASE ConsumeLink(r) /\ MarkUsed(req[r].via)
    BY <1>3, <2>1, <2>3, <2>6
  <2>7. QED
    BY <1>7, <2>5, <2>6, ClaimStep
<1>8. ASSUME NEW q \in Requests, NEW r \in Requests, Claims(q)', Claims(r)',
             req'[q].via = req'[r].via
      PROVE  q = r
  <2> SUFFICES ASSUME q # r PROVE FALSE
    OBVIOUS
  <2>1. /\ req[q].via = req[r].via
        /\ Claims(q) \/ (ConsumeLink(q) /\ MarkUsed(req[q].via))
        /\ Claims(r) \/ (ConsumeLink(r) /\ MarkUsed(req[r].via))
    <3>1. /\ req'[q].via = req[q].via
          /\ Claims(q) \/ (ConsumeLink(q) /\ MarkUsed(req[q].via))
      BY <1>8, ClaimStep
    <3>2. /\ req'[r].via = req[r].via
          /\ Claims(r) \/ (ConsumeLink(r) /\ MarkUsed(req[r].via))
      BY <1>8, ClaimStep
    <3>3. QED
      BY <1>8, <3>1, <3>2
  <2>2. CASE Claims(q) /\ Claims(r)
    BY <2>1, <2>2 DEF LinksInStep
  <2>3. ASSUME NEW p \in Requests, NEW o \in Requests, p # o, req[p].via = req[o].via,
               ConsumeLink(p), MarkUsed(req[p].via), Claims(o)'
        PROVE  FALSE
    <3>1. req'[o] = req[o]
      BY <1>3, <2>3
    <3>2. Claims(o)
      BY <2>3, <3>1 DEF Claims
    <3>3. QED
      BY <1>3, <2>3, <3>2
  <2>4. QED
    BY <1>8, <2>1, <2>2, <2>3
<1>9. LinkSignsInOnce'
  <2> SUFFICES ASSUME NEW s \in Sessions, NEW t \in Sessions, s # t,
                      sessions'[s].via \in Links, sessions'[s].via = sessions'[t].via
               PROVE  FALSE
    BY DEF LinkSignsInOnce
  <2>1. ASSUME NEW x \in Sessions, NEW y \in Sessions, x # y,
               sessions'[x].via \in Links, sessions'[x].via = sessions'[y].via,
               sessions'[x].via # sessions[x].via
        PROVE  FALSE
    <3>1. PICK r \in Requests : /\ Claims(r) /\ sessions'[x].via = req[r].via
                                /\ \A v \in Sessions : v # x => sessions'[v] = sessions[v]
      BY <1>4, <2>1
    <3>2. QED
      BY <2>1, <3>1 DEF LinksInStep
  <2>2. QED
    BY <2>1 DEF LinksInStep, LinkSignsInOnce
<1>10. QED
  BY <1>5, <1>6, <1>7, <1>8, <1>9 DEF LinksInStep, Spent

\* However many requests open a link at once, one session at most comes of it
\* (markUsed between the read and the sign-in).
THEOREM LinkSignsInOnceAlways == Spec => []LinkSignsInOnce
<1> DEFINE Inv == TypeInv /\ LinksInStep
<1>1. Init => Inv
  <2>1. ASSUME Init
        PROVE  /\ \A r \in Requests : ~Claims(r)
               /\ \A s \in Sessions : sessions[s].via = None
    BY <2>1 DEF Init, Claims, Claiming, NewRequest
  <2>2. QED
    BY <2>1, TypeInit, NamesAssumption DEF LinksInStep, LinkSignsInOnce
<1>2. Inv /\ [Next]_vars => Inv'
  <2>1. ASSUME Inv, Next PROVE Inv'
    BY <2>1, TypeStep, LinksStep
  <2>2. ASSUME Inv, UNCHANGED vars PROVE Inv'
    BY <2>2, TypeStep DEF vars, LinksInStep, LinkSignsInOnce, Claims, Spent, IsSpent
  <2>3. QED
    BY <2>1, <2>2
<1>3. Inv => LinkSignsInOnce
  BY DEF LinksInStep
<1>4. QED
  BY <1>1, <1>2, <1>3, PTL DEF Spec
=============================================================================
