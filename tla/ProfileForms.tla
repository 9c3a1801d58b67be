---------------------------- MODULE ProfileForms ----------------------------
(***************************************************************************)
(* The role-profile editor of the web application, the request it sends,   *)
(* and what the API makes of that request: columns, child rows, and the    *)
(* detail the editor is opened on the next time.                           *)
(*                                                                         *)
(* A request and an update are partial functions from field names: a field *)
(* outside the domain was not provided.  A nullable column and an optional *)
(* field are the empty set or a singleton.  Typed text is a word with or   *)
(* without capitals and surrounding space; the word "" is blank.           *)
(***************************************************************************)
EXTENDS Integers, Sequences, FiniteSets
LOCAL INSTANCE SequencesExt

Nil == {}
Only(option) == CHOOSE v \in option : TRUE

(***************************************************************************)
(* Chip input: values committed from a draft.                              *)
(***************************************************************************)
Blank == [word |-> "", upper |-> FALSE, space |-> FALSE]
Trim(text) == [text EXCEPT !.space = FALSE]
SameWord(a, b) == a.word = b.word

\* Enter, a comma and leaving the field commit the draft.  A blank draft
\* stays; one the list has in other capitals is dropped.
Commit(chips) ==
  LET value == Trim(chips.draft) IN
  IF value.word = "" THEN chips
  ELSE IF \E i \in DOMAIN chips.values : SameWord(chips.values[i], value)
       THEN [chips EXCEPT !.draft = Blank]
       ELSE [values |-> Append(chips.values, value), draft |-> Blank]

RemovedAt(chips, i) == [chips EXCEPT !.values = RemoveAt(@, i)]

\* What one key or click makes of the control.
KeyDown(chips, key) ==
  CASE key \in {"Enter", ","} -> Commit(chips)
    [] key = "Backspace" /\ chips.draft = Blank /\ chips.values # <<>> ->
         RemovedAt(chips, Len(chips.values))
    [] OTHER -> chips

ChipEdits(chips, texts) ==
       {[chips EXCEPT !.draft = text] : text \in texts}
  \cup {KeyDown(chips, key) : key \in {"Enter", ",", "Backspace"}}
  \cup {RemovedAt(chips, i) : i \in DOMAIN chips.values}

\* A toggle group keeps the order in which options were switched on.
Toggle(values, v) ==
  IF Contains(values, v) THEN SelectSeq(values, LAMBDA w : w # v)
                         ELSE Append(values, v)

(***************************************************************************)
(* Work rights: hidden until the user opts in.                             *)
(***************************************************************************)
EmptyWorkRights == [sponsorship |-> Nil, visas |-> <<>>, note |-> Blank]

WorkRightsToValue(stored) ==
  IF stored = Nil THEN [enabled |-> FALSE, value |-> EmptyWorkRights]
  ELSE LET wr == Only(stored)
           At(f, default) == IF f \in DOMAIN wr THEN wr[f] ELSE default
       IN [enabled |-> TRUE,
           value |-> [sponsorship |-> At("sponsorship", Nil),
                      visas |-> At("visas", <<>>),
                      note |-> At("note", Blank)]]

\* Undefined, and so left out of the request, when off or empty.
ValueToWorkRights(wr) ==
  LET said == {f \in {"sponsorship", "visas", "note"} :
                 CASE f = "sponsorship" -> wr.value.sponsorship # Nil
                   [] f = "visas" -> wr.value.visas # <<>>
                   [] f = "note" -> wr.value.note.word # ""}
      dto == [f \in said |-> IF f = "note" THEN Trim(wr.value.note)
                                            ELSE wr.value[f]]
  IN IF wr.enabled /\ said # {} THEN {dto} ELSE Nil

WorkRightsEdits(wr, visas, notes) ==
  IF ~wr.enabled THEN {[wr EXCEPT !.enabled = TRUE]}
  ELSE      {[wr EXCEPT !.value.sponsorship = s] : s \in {{TRUE}, {FALSE}, Nil}}
       \cup {[wr EXCEPT !.value.visas = v] : v \in visas}
       \cup {[wr EXCEPT !.value.note = n] : n \in notes}
       \cup {[enabled |-> FALSE, value |-> EmptyWorkRights]}

(***************************************************************************)
(* The editor's state and its request.                                     *)
(***************************************************************************)
Unspecified == [kind |-> "blank", n |-> 0]
Str(n) == [kind |-> "number", n |-> n]

\* Only a number that is not negative counts as an amount.
ParseAmount(raw) == IF raw.kind = "number" /\ raw.n >= 0 THEN {raw.n} ELSE Nil

NewForm ==
  [name |-> Blank, target |-> <<>>, excluded |-> <<>>, required |-> <<>>,
   preferred |-> <<>>, locations |-> <<>>, arrangements |-> <<>>,
   employment |-> <<>>, seniority |-> <<>>, min |-> Unspecified,
   max |-> Unspecified, currency |-> "", period |-> "",
   rights |-> [enabled |-> FALSE, value |-> EmptyWorkRights]]

FormOf(detail) ==
  LET salary == IF detail.salary = Nil THEN << >> ELSE Only(detail.salary)
      Amount(f) == IF f \in DOMAIN salary THEN Str(salary[f]) ELSE Unspecified
      Word(f) == IF f \in DOMAIN salary THEN salary[f] ELSE ""
  IN [name |-> detail.name,
      target |-> detail.titles.target, excluded |-> detail.titles.excluded,
      required |-> detail.skills.required,
      preferred |-> detail.skills.preferred,
      locations |-> [i \in DOMAIN detail.locations |-> detail.locations[i].value],
      arrangements |-> detail.preferences.arrangements,
      employment |-> detail.preferences.employment,
      seniority |-> detail.preferences.seniority,
      min |-> Amount("min"), max |-> Amount("max"),
      currency |-> Word("currency"), period |-> Word("period"),
      rights |-> WorkRightsToValue(detail.workRights)]

BuildSalary(form) ==
  LET given == [min |-> ParseAmount(form.min), max |-> ParseAmount(form.max),
                currency |-> IF form.currency = "" THEN Nil ELSE {form.currency},
                period |-> IF form.period = "" THEN Nil ELSE {form.period}]
  IN [f \in {g \in DOMAIN given : given[g] # Nil} |-> Only(given[f])]

\* One keystroke or choice in each card of the page.
TitleEdits(form, lists) ==
       {[form EXCEPT !.target = l] : l \in lists}
  \cup {[form EXCEPT !.excluded = l] : l \in lists}
SkillEdits(form, lists) ==
       {[form EXCEPT !.required = l] : l \in lists}
  \cup {[form EXCEPT !.preferred = l] : l \in lists}
PlaceEdits(form, lists, arrangements) ==
       {[form EXCEPT !.locations = l] : l \in lists}
  \cup {[form EXCEPT !.arrangements = Toggle(@, a)] : a \in arrangements}
KindEdits(form, kinds, levels) ==
       {[form EXCEPT !.employment = Toggle(@, k)] : k \in kinds}
  \cup {[form EXCEPT !.seniority = Toggle(@, l)] : l \in levels}
SalaryEdits(form, amounts, currencies, periods) ==
       {[form EXCEPT !.min = a] : a \in amounts}
  \cup {[form EXCEPT !.max = a] : a \in amounts}
  \cup {[form EXCEPT !.currency = c] : c \in currencies \cup {""}}
  \cup {[form EXCEPT !.period = p] : p \in periods \cup {""}}

Submits(form) == form.name.word # ""

Payload(form) ==
  LET always == [name |-> Trim(form.name),
                 titles |-> [target |-> form.target, excluded |-> form.excluded],
                 skills |-> [required |-> form.required,
                             preferred |-> form.preferred],
                 locations |-> [i \in DOMAIN form.locations |->
                                  [value |-> form.locations[i]]],
                 preferences |-> [arrangements |-> form.arrangements,
                                  employment |-> form.employment,
                                  seniority |-> form.seniority],
                 salary |-> BuildSalary(form)]
      rights == ValueToWorkRights(form.rights)
  IN [f \in DOMAIN always \cup (IF rights = Nil THEN {} ELSE {"workRights"}) |->
        IF f = "workRights" THEN Only(rights) ELSE always[f]]

(***************************************************************************)
(* The API: from the request to the stored profile and back.               *)
(***************************************************************************)
\* The columns a request writes; a salary writes all four, null where it
\* says nothing.
ScalarsFromDto(dto) ==
  LET Column(f) == IF f \in DOMAIN dto.salary THEN {dto.salary[f]} ELSE Nil
      written == (IF "name" \in DOMAIN dto THEN {"name"} ELSE {})
            \cup (IF "salary" \in DOMAIN dto
                  THEN {"min", "max", "currency", "period"} ELSE {})
            \cup (IF "workRights" \in DOMAIN dto THEN {"workRights"} ELSE {})
  IN [c \in written |-> CASE c = "name" -> dto.name
                          [] c = "workRights" -> {dto.workRights}
                          [] OTHER -> Column(c)]

Rows(kind, values) == [i \in DOMAIN values |-> [kind |-> kind, value |-> values[i]]]

\* The child collections a request replaces.
ChildrenFromDto(dto) ==
  [c \in {"titles", "skills", "locations", "preferences"} \cap DOMAIN dto |->
     CASE c = "titles" -> Rows("target", dto.titles.target)
                          \o Rows("excluded", dto.titles.excluded)
       [] c = "skills" -> Rows("required", dto.skills.required)
                          \o Rows("preferred", dto.skills.preferred)
       [] c = "locations" ->
            [i \in DOMAIN dto.locations |->
               LET l == dto.locations[i] IN
               [value |-> l.value,
                isPrimary |-> "isPrimary" \in DOMAIN l /\ l.isPrimary]]
       [] c = "preferences" -> dto.preferences]

EmptyRow ==
  [name |-> Blank, min |-> Nil, max |-> Nil, currency |-> Nil,
   period |-> Nil, workRights |-> Nil, titles |-> <<>>, skills |-> <<>>,
   locations |-> <<>>,
   preferences |-> [arrangements |-> <<>>, employment |-> <<>>, seniority |-> <<>>]]

\* Columns and collections that were provided replace the stored ones.
Updated(row, dto) ==
  LET scalars == ScalarsFromDto(dto)
      children == ChildrenFromDto(dto)
  IN [c \in DOMAIN row |-> IF c \in DOMAIN scalars THEN scalars[c]
                           ELSE IF c \in DOMAIN children THEN children[c]
                           ELSE row[c]]

\* The salary of the detail, when one of its columns is set.
ToSalary(row) ==
  LET set == {f \in {"min", "max", "currency", "period"} : row[f] # Nil}
  IN IF set = {} THEN Nil ELSE {[f \in set |-> Only(row[f])]}

ToDetail(row) ==
  LET Of(rows, kind) ==
        LET kept == SelectSeq(rows, LAMBDA r : r.kind = kind)
        IN [i \in DOMAIN kept |-> kept[i].value]
  IN [name |-> row.name,
      titles |-> [target |-> Of(row.titles, "target"),
                  excluded |-> Of(row.titles, "excluded")],
      skills |-> [required |-> Of(row.skills, "required"),
                  preferred |-> Of(row.skills, "preferred")],
      locations |-> row.locations, preferences |-> row.preferences,
      salary |-> ToSalary(row), workRights |-> row.workRights]

(***************************************************************************)
(* The list of profiles: what a card offers, and the two dialogs.          *)
(***************************************************************************)
\* What the card of p offers while no request of the page is pending.
Offered(p) ==
  {"edit", "duplicate", "delete"}
  \cup (IF p.isActive THEN {} ELSE {"activate"})
  \cup (IF p.status = "paused" THEN {"resume"} ELSE {"pause"})

Others(list, p) == SelectSeq(list, LAMBDA q : q.id # p.id)

\* Pausing the active profile first asks for a replacement, if there is one.
OnPause(list, p) ==
  IF p.isActive /\ Others(list, p) # <<>>
  THEN [asks |-> Others(list, p)]
  ELSE [id |-> p.id, replacement |-> Nil]

\* The API's answer to a pause request, given the owner's profiles.
PauseAnswer(list, request) ==
  LET p == CHOOSE q \in ToSet(list) : q.id = request.id IN
  IF p.isActive /\ Others(list, p) # <<>>
  THEN CASE request.replacement \in {Nil, {p.id}} -> "conflict"
         [] \A q \in ToSet(list) : request.replacement # {q.id} -> "not found"
         [] OTHER -> "paused"
  ELSE "paused"

ConfirmsPause(target, selected) == [id |-> target.id, replacement |-> selected]

\* The selection of the dialog: the first candidate whenever the dialog
\* opens or its parent renders a new candidates array, which it does each time.
Rendered(candidates) ==
  IF candidates = <<>> THEN Nil ELSE {candidates[1].id}
Clicked(id) == {id}

\* The profile the sidebar shows as active: the pointer of the session's
\* user, else the flag of the list.
Indicated(pointer, list) ==
  LET flagged == SelectSeq(list, LAMBDA p : p.isActive)
      id == IF pointer # Nil THEN pointer
            ELSE IF flagged # <<>> THEN {flagged[1].id} ELSE Nil
  IN {p \in ToSet(list) : id = {p.id}}

\* After deleting the active profile, the others are offered to choose from.
Reselects(list, deleted, requiresActiveSelection) ==
  IF requiresActiveSelection /\ Others(list, deleted) # <<>>
  THEN {Others(list, deleted)} ELSE Nil
=============================================================================
