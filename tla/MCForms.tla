------------------------------- MODULE MCForms -------------------------------
(***************************************************************************)
(* The forms and pages of the web application over small inputs: facts     *)
(* about the operators of ProfileForms that TLC evaluates before a run.    *)
(***************************************************************************)
LOCAL INSTANCE ProfileForms
LOCAL INSTANCE Integers
LOCAL INSTANCE Sequences
LOCAL INSTANCE FiniteSets
LOCAL INSTANCE SequencesExt

LOCAL Texts == [word : {"", "a", "b"}, upper : BOOLEAN, space : BOOLEAN]
LOCAL Word(w) == [word |-> w, upper |-> FALSE, space |-> FALSE]

LOCAL ChipStates[n \in 0..6] ==
  IF n = 0 THEN {[values |-> <<>>, draft |-> Blank]}
  ELSE ChipStates[n - 1]
       \cup UNION {ChipEdits(c, Texts) : c \in ChipStates[n - 1]}

\* A chip list never holds a blank, an untrimmed or a repeated value, whatever
\* is typed, committed and removed (chip-input.tsx).
ASSUME ChipsAreDistinct ==
  \A c \in ChipStates[6] :
    /\ \A i \in DOMAIN c.values : c.values[i].word # "" /\ ~c.values[i].space
    /\ \A i, j \in DOMAIN c.values :
         i # j => ~SameWord(c.values[i], c.values[j])

\* Leaving a field keeps what was typed in it, once.
ASSUME DraftsAreKept ==
  \A c \in ChipStates[4] :
    c.draft.word # "" =>
      /\ \E v \in ToSet(Commit(c).values) : SameWord(v, c.draft)
      /\ Commit(Commit(c)) = Commit(c)

LOCAL Options(S) == {{}} \cup {{v} : v \in S}
LOCAL StoredRights ==
  {<< >>, [sponsorship |-> {FALSE}], [note |-> Word("n")],
   [visas |-> <<Word("v")>>, sponsorship |-> {TRUE}]}
LOCAL StoredPlaces ==
  {<<>>, <<[value |-> Word("a"), isPrimary |-> TRUE]>>,
   <<[value |-> Word("a"), isPrimary |-> FALSE],
     [value |-> Word("b"), isPrimary |-> TRUE]>>}
LOCAL StoredTitles ==
  {<<>>, <<[kind |-> "excluded", value |-> Word("x")],
           [kind |-> "target", value |-> Word("a")],
           [kind |-> "target", value |-> Word("b")]>>}
LOCAL StoredRows ==
  {[EmptyRow EXCEPT !.name = Word("a"), !.min = m, !.max = x, !.currency = c,
                    !.period = p, !.workRights = w, !.locations = l,
                    !.titles = t] :
     m \in Options({0, 5}), x \in Options({5}), c \in Options({"AUD"}),
     p \in Options({"year"}), w \in Options(StoredRights),
     l \in StoredPlaces, t \in StoredTitles}
LOCAL Resaved(row) == Updated(row, Payload(FormOf(ToDetail(row))))

\* Opening a stored profile in the editor and saving it unchanged loses
\* nothing but the primary flag of its locations, which the editor does not
\* carry: every location comes back not primary (profile-form.tsx:69, :154).
ASSUME SavingUnchangedKeeps ==
  \A row \in StoredRows :
    LET before == ToDetail(row)
        after == ToDetail(Resaved(row))
    IN /\ [after EXCEPT !.locations = before.locations] = before
       /\ after.locations = [i \in DOMAIN before.locations |->
                               [value |-> before.locations[i].value,
                                isPrimary |-> FALSE]]

LOCAL Amounts == {Unspecified, Str(-1), Str(0), Str(5), [kind |-> "other", n |-> 5]}
LOCAL FormRights ==
  [enabled : BOOLEAN,
   value : [sponsorship : {{}, {TRUE}}, visas : {<<>>, <<Word("v")>>},
            note : {Blank, [Blank EXCEPT !.space = TRUE],
                    [Word("n") EXCEPT !.space = TRUE]}]]
LOCAL SomeForms ==
  UNION {SalaryEdits([NewForm EXCEPT !.name = n, !.rights = r, !.target = t,
                                     !.min = m],
                     Amounts, {"AUD"}, {"year"}) :
           n \in {Blank, [Word("a") EXCEPT !.space = TRUE]}, r \in FormRights,
           t \in {<<>>, <<Word("a"), Word("b")>>}, m \in Amounts}

\* An amount is stored only when it was entered as one: blank, negative and
\* unreadable amounts stay unspecified and never become zero, on creation and
\* when they replace a stored amount (Req 15.3).
ASSUME BlankIsNeverZero ==
  \A form \in {f \in SomeForms : Submits(f)} :
    \A row \in {EmptyRow, [EmptyRow EXCEPT !.min = {7}, !.max = {9}]} :
      LET saved == Updated(row, Payload(form)) IN
      /\ saved.min = IF form.min \in {Str(0), Str(5)} THEN {form.min.n} ELSE {}
      /\ saved.max = IF form.max \in {Str(0), Str(5)} THEN {form.max.n} ELSE {}

\* What a new profile was created with is what its editor shows the next time,
\* up to trimming, amounts that were not numbers and an empty rights section.
ASSUME EditorShowsWhatWasSaved ==
  \A form \in {f \in SomeForms : Submits(f)} :
    LET shown == FormOf(ToDetail(Updated(EmptyRow, Payload(form))))
        Kept(raw) == IF ParseAmount(raw) = Nil THEN Unspecified ELSE raw
    IN [shown EXCEPT !.rights = form.rights]
         = [form EXCEPT !.name = Trim(@), !.min = Kept(@), !.max = Kept(@)]
       /\ ValueToWorkRights(shown.rights) = ValueToWorkRights(form.rights)

\* Work rights that are stored stay stored: removing them in the editor, or
\* emptying every field, leaves the field out of the request, and the API
\* keeps a column the request does not name (role-profile.repository.ts:232).
ASSUME WorkRightsStay ==
  \A row \in StoredRows, rights \in FormRights :
    LET form == [FormOf(ToDetail(row)) EXCEPT !.rights = rights] IN
    ValueToWorkRights(rights) = Nil
      => Updated(row, Payload(form)).workRights = row.workRights

LOCAL Listed ==
  {list \in UNION {[1..n -> [id : 1..3, status : {"active", "paused"},
                             isActive : BOOLEAN]] : n \in 1..3} :
     /\ \A i \in DOMAIN list : list[i].id = i
     /\ Cardinality({i \in DOMAIN list : list[i].isActive}) <= 1}

\* While the list is fresh, the page never sends a pause the API refuses:
\* it asks for a replacement exactly when the API requires one.
ASSUME FreshPauseIsAccepted ==
  \A list \in Listed : \A p \in ToSet(list) :
    "pause" \in Offered(p) =>
      LET asked == OnPause(list, p) IN
      IF "asks" \in DOMAIN asked
      THEN /\ PauseAnswer(list, [id |-> p.id, replacement |-> Nil]) = "conflict"
           /\ \A q \in ToSet(asked.asks) :
                PauseAnswer(list, ConfirmsPause(p, Clicked(q.id))) = "paused"
      ELSE PauseAnswer(list, asked) = "paused"

\* A pause that failed forgets the replacement the user had chosen: the page
\* renders while the request is pending, that makes a new candidates array,
\* and the next confirmation sends the first candidate (select-active-dialog
\* .tsx:45-47, profile-list.tsx:211).
ASSUME FailedPauseForgetsChoice ==
  \E list \in Listed : \E p \in ToSet(list) :
    /\ "asks" \in DOMAIN OnPause(list, p)
    /\ \E q \in ToSet(OnPause(list, p).asks) :
         Rendered(Others(list, p)) # Clicked(q.id)

\* The sidebar shows at most one profile, and none only if the pointer is
\* stale or nothing is active; after deleting the active profile the user is
\* offered every other one.
ASSUME OneIndicated ==
  \A list \in Listed : \A pointer \in Options(0..3) :
    /\ Cardinality(Indicated(pointer, list)) <= 1
    /\ Indicated(pointer, list) = {} =>
         \/ pointer # Nil /\ \A p \in ToSet(list) : pointer # {p.id}
         \/ pointer = Nil /\ \A p \in ToSet(list) : ~p.isActive
    /\ \A p \in ToSet(list) : \A choice \in Reselects(list, p, p.isActive) :
         ToSet(choice) = ToSet(list) \ {p} /\ choice # <<>>

-----------------------------------------------------------------------------
(***************************************************************************)
(* Connecting a source.                                                    *)
(***************************************************************************)
LOCAL CF == INSTANCE ConnectionForms
LOCAL C == INSTANCE Connectors WITH
  None <- {}, Unclear <- "unclear", BoardUrl <- LAMBDA s : s,
  DetailUrl <- LAMBDA s, i : <<s, i>>

LOCAL SomeTexts ==
  {[kind |-> "word", space |-> TRUE], [kind |-> "web", space |-> TRUE],
   [kind |-> "web", space |-> FALSE], [kind |-> "blank", space |-> TRUE]}
LOCAL WizardStates[n \in 0..5] ==
  IF n = 0 THEN {CF!Opened}
  ELSE WizardStates[n - 1]
       \cup UNION {CF!WizardEdits(w, SomeTexts) : w \in WizardStates[n - 1]}
LOCAL Posts == {CF!Submitted(w) : w \in {v \in WizardStates[5] : CF!CanSubmit(v)}}

\* What the connectors read of a config: a blank text counts as absent.
LOCAL Read(config) ==
  [f \in {"slug", "url", "pageUrl"} |->
     IF CF!Has(config, f) /\ ~CF!IsBlank(config[f]) THEN {CF!Trim(config[f])} ELSE {}]

\* The API accepts what the wizard submits, except a career page that is not
\* a web address, which the wizard does not check; back and another type
\* carry the entered slug along, and it is accepted for that type too.
ASSUME WizardIsAccepted ==
  /\ \A r \in Posts :
       CF!ValidateConnectionConfig(r.sourceType, r.config) = {}
         <=> r.sourceType = "jsonld" /\ r.config.url.kind # "web"
  /\ \E w \in WizardStates[5] : w.selected = {"lever"} /\ CF!CanSubmit(w)

LOCAL Configs ==
  UNION {[D -> CF!Texts] : D \in SUBSET {"slug", "url", "pageUrl"}}

\* A config the API accepted is one the connector can discover and fetch
\* with; the stored texts need no more trimming except an address, which the
\* fetcher's URL parser trims.
ASSUME AcceptedIsConfigured ==
  \A t \in CF!Registered : \A config \in Configs :
    \A stored \in CF!ValidateConnectionConfig(t, config) :
      /\ C!Configured(t, Read(stored))
      /\ t \in CF!Ats => stored.slug = CF!Trim(stored.slug)
      /\ CF!ValidateConnectionConfig(t, stored) = {stored}

\* The save-a-URL form never sends an address the API refuses.
ASSUME SavedUrlIsAccepted ==
  \A text \in CF!Texts : \A sent \in CF!ManualUrlRequest(text) :
    CF!ManualUrlAccepted(sent)

\* A label given in the wizard is stored and named on the privacy page, but
\* never on the sources page: that reads a display name the API does not send
\* and then the slug or address (connection-options.ts:77-92).
ASSUME SourcesForgetTheLabel ==
  \A r \in Posts :
    CF!Has(r.config, "displayName") =>
      /\ CF!PrivacyLabel(r.config) = {"displayName"}
      /\ CF!SourcesLabel(r.config) # {"displayName"}

\* Nothing is offered for a removed connection; for any other the switch
\* changes its status, and a run is offered on a paused one as well, which
\* the worker will skip.
ASSUME CardsOfferWhatWorks ==
  \A c \in [status : {"active", "paused", "removed"}] : \A busy \in BOOLEAN :
    /\ c \notin CF!Listed({c}) => CF!CardOffers(c, busy) = {}
    /\ CF!CardOffers(c, busy) # {} =>
         /\ CF!TogglesTo(c) # c.status
         /\ "run now" \in CF!CardOffers(c, busy)
    /\ CF!LastRunShown("running") = "running"
    /\ CF!DeepLink({"connect", "save-url"}) = "wizard"

-----------------------------------------------------------------------------
(***************************************************************************)
(* Confirmation dialogs.                                                   *)
(***************************************************************************)
LOCAL D == INSTANCE Dialogs
LOCAL DialogStates[n \in 0..7] ==
  [busy \in BOOLEAN |->
     IF n = 0 THEN {D!Closed}
     ELSE DialogStates[n - 1][busy]
          \cup UNION {D!DialogSteps(d, {"a", "b"}, busy) :
                      d \in {e \in DialogStates[n - 1][busy] : Len(e.sent) < 3}}]
LOCAL Shown[busy \in BOOLEAN] == DialogStates[7][busy]

\* A request in flight is the last one sent and no other can join it.  Where
\* the page disables its buttons meanwhile, its success only ever closes the
\* dialog it was confirmed in; elsewhere (sessions, sources, privacy) it can
\* close one just opened for another target, which is then not acted upon.
ASSUME SuccessClosesItsOwn ==
  /\ \A busy \in BOOLEAN : \A d \in Shown[busy] :
       d.pending # {} => d.sent # <<>> /\ d.pending = {d.sent[Len(d.sent)]}
  /\ \A d \in Shown[TRUE] :
       d.pending # {} => d.target \in {{}, d.pending}
  /\ \E d \in Shown[FALSE] : d.pending # {} /\ d.target \notin {{}, d.pending}

\* The current session is never among those offered for revocation.
ASSUME CurrentStays ==
  \A sessions \in SUBSET [id : 1..2, current : BOOLEAN] :
    /\ \A s \in D!Revocable(sessions) : ~s.current
    /\ D!OffersOthers(sessions) <=> \E s \in sessions : ~s.current

LOCAL DeleteStates[n \in 0..8] ==
  IF n = 0 THEN {D!Unticked}
  ELSE DeleteStates[n - 1]
       \cup UNION {D!DeleteSteps(d, {"role_profiles", "sessions"}) :
                   d \in DeleteStates[n - 1]}

\* Nothing is deleted without a category ticked and the dialog open; but a
\* dialog left before the answer lets the user tick others, and the success
\* of the first deletion clears those as well.
ASSUME DeletesWhatWasTicked ==
  /\ \A d \in DeleteStates[8] :
       /\ \A p \in d.pending : p # {}
       /\ d.open => d.selected # {}
  /\ \E d \in DeleteStates[8] : \E p \in d.pending : d.selected \ p # {}

LOCAL AccountStates[n \in 0..7] ==
  IF n = 0 THEN {D!Unasked}
  ELSE AccountStates[n - 1]
       \cup UNION {D!AccountSteps(d, {"", "DELET", "delete", "DELETE"}) :
                   d \in AccountStates[n - 1]}

\* The account goes only after an unlocking phrase was typed in the open
\* dialog: a step to a pending deletion starts from such a state, and a
\* closed dialog remembers no phrase.
ASSUME PhraseFirst ==
  \A d \in AccountStates[6] :
    /\ ~d.open => d.phrase = ""
    /\ \A e \in D!AccountSteps(d, {"", "DELET", "delete", "DELETE"}) :
         e.pending /\ ~d.pending => d.open /\ D!Unlocks(d.phrase)

-----------------------------------------------------------------------------
(***************************************************************************)
(* The operations page.                                                    *)
(***************************************************************************)
LOCAL A == INSTANCE AdminView

\* A limit is always between 1 and 200 and what lies between is kept.
ASSUME LimitsAreClamped ==
  \A n \in -2..205 :
    /\ A!ClampLimit({n}) \in 1..A!MaxLimit
    /\ n \in 1..A!MaxLimit => A!ClampLimit({n}) = n
    /\ A!ClampLimit({}) = A!DefaultLimit

\* A listing is the newest rows in order: no row left out is newer than one
\* that is listed.
ASSUME ListsTheNewest ==
  \A times \in SUBSET (1..4) : \A n \in {0, 1, 2, 9} :
    LET rows == {[at |-> t, status |-> IF t = 2 THEN "succeeded" ELSE "parse_failed"] :
                 t \in times}
        failures == A!ParserFailures(rows, {n})
        runs == A!RecentRuns(rows, {n})
    IN /\ \A i, j \in DOMAIN runs : i < j => runs[i].at > runs[j].at
       /\ \A r \in rows \ ToSet(runs) : \A i \in DOMAIN runs : runs[i].at > r.at
       /\ Len(runs) = IF Cardinality(rows) < A!ClampLimit({n})
                      THEN Cardinality(rows) ELSE A!ClampLimit({n})
       /\ \A i \in DOMAIN failures : failures[i].status # "succeeded"

\* How a rejected record reaches the operator: one that cannot be parsed is
\* listed twice among the failures; one that parses to nothing was not a
\* parse failure for the pipeline but is shown as one, because its text says
\* "parsed"; one that normalization rejects is in the review queue only.
LOCAL FailureRows(rejection) ==
  Cardinality({i \in DOMAIN rejection.runs : rejection.runs[i] # "succeeded"})
ASSUME RejectionsAreListed ==
  /\ \A r \in {A!ParseThrows, A!ParsesToNothing, A!NormalizeRejects} :
       Len(A!ReviewQueue({[at |-> 1, kind |-> r.kind, text |-> r.text,
                           status |-> "open"]}, {})) = 1
  /\ FailureRows(A!ParseThrows) = 2
  /\ FailureRows(A!NormalizeRejects) = 0
  /\ A!ParsesToNothing.runs = <<"validation_failed">>
  /\ A!MapReviewReason(A!ParsesToNothing.kind, A!ParsesToNothing.text) = "parse_failed"
  /\ A!MapReviewReason(A!NormalizeRejects.kind, A!NormalizeRejects.text)
       = "validation_failed"
=============================================================================
