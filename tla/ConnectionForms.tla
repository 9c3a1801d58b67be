--------------------------- MODULE ConnectionForms ---------------------------
(***************************************************************************)
(* Connecting a source: what the wizard and the save-a-URL form of the web *)
(* application let through, what the API accepts, and how a connection is  *)
(* named and offered for operation afterwards.                             *)
(*                                                                         *)
(* A config is a partial function from field names to typed text.  A text  *)
(* is blank, a web address (http or https), another address or a word,     *)
(* with or without surrounding space.                                      *)
(***************************************************************************)
EXTENDS Sequences
LOCAL INSTANCE SequencesExt

Texts == [kind : {"blank", "web", "other address", "word"}, space : BOOLEAN]
Trim(text) == [text EXCEPT !.space = FALSE]
IsBlank(text) == text.kind = "blank"

Ats == {"greenhouse", "lever", "ashby"}
Registered == Ats \cup {"jsonld", "manual_url"}

(***************************************************************************)
(* The API.                                                                *)
(***************************************************************************)
\* Whether text is an address; a URL parser drops surrounding space.
IsValidUrl(text) == text.kind = "web"

Has(config, f) == f \in DOMAIN config
With(config, f, text) ==
  [g \in DOMAIN config \cup {f} |-> IF g = f THEN text ELSE config[g]]

\* The config that is stored, or none when it is rejected.
ValidateConnectionConfig(sourceType, config) ==
  CASE sourceType \in Ats ->
         IF Has(config, "slug") /\ ~IsBlank(config.slug)
         THEN {With(config, "slug", Trim(config.slug))} ELSE {}
    [] sourceType = "jsonld" ->
         LET given == SelectSeq(<<"url", "pageUrl">>, LAMBDA f : Has(config, f))
         IN IF given # <<>> /\ IsValidUrl(config[Head(given)])
            THEN {With(config, "url", config[Head(given)])} ELSE {}
    [] sourceType = "manual_url" ->
         IF Has(config, "url") /\ IsValidUrl(config.url) THEN {config} ELSE {}
    [] OTHER -> {}

(***************************************************************************)
(* The wizard and the save-a-URL form.                                     *)
(***************************************************************************)
Connectable == Ats \cup {"jsonld"}
ConfigFields(sourceType) == IF sourceType \in Ats THEN {"slug"} ELSE {"url"}

\* The wizard: the chosen type, the texts entered so far under their field's
\* key, and a label.  Opening resets it; going back keeps what was entered.
Opened == [selected |-> {}, values |-> << >>, label |-> [kind |-> "blank", space |-> FALSE]]
Offered(exposed) == exposed \cap Connectable
Picks(w, sourceType) == [w EXCEPT !.selected = {sourceType}]
Back(w) == [w EXCEPT !.selected = {}]
Enters(w, f, text) == [w EXCEPT !.values = With(@, f, text)]
Labels(w, text) == [w EXCEPT !.label = text]

CanSubmit(w) ==
  \E t \in w.selected :
    \A f \in ConfigFields(t) : Has(w.values, f) /\ ~IsBlank(w.values[f])

Submitted(w) ==
  LET t == CHOOSE s \in w.selected : TRUE
      config == [f \in ConfigFields(t) |-> Trim(w.values[f])]
  IN [sourceType |-> t,
      config |-> IF IsBlank(w.label) THEN config
                 ELSE With(config, "displayName", Trim(w.label))]

WizardEdits(w, texts) ==
  IF w.selected = {} THEN {Picks(w, t) : t \in Offered(Registered)}
  ELSE UNION {{Enters(w, f, x) : f \in ConfigFields(t)} : t \in w.selected, x \in texts}
       \cup {Labels(w, x) : x \in texts} \cup {Back(w)}

\* The form sends a trimmed address; the contract asks for an address of any
\* scheme, the service for a web address.
LooksLikeUrl(text) == text.kind = "web"
ManualUrlRequest(text) == IF LooksLikeUrl(text) THEN {Trim(text)} ELSE {}
ManualUrlAccepted(text) ==
  /\ text.kind \in {"web", "other address"}
  /\ ValidateConnectionConfig("manual_url", [url |-> text]) # {}

(***************************************************************************)
(* How a connection is named: the sources page and the privacy page.       *)
(***************************************************************************)
FirstField(config, fields) ==
  LET set == SelectSeq(fields, LAMBDA f : Has(config, f) /\ ~IsBlank(config[f]))
  IN IF set = <<>> THEN {} ELSE {Head(set)}

\* The API's connection has no display name of its own.
SourcesLabel(config) == FirstField(config, <<"slug", "board", "url", "domain">>)
PrivacyLabel(config) ==
  FirstField(config, <<"displayName", "board", "slug", "domain", "url">>)

(***************************************************************************)
(* What the sources page offers for a connection.                          *)
(***************************************************************************)
Listed(connections) == {c \in connections : c.status # "removed"}

CardOffers(c, busy) ==
  IF c.status = "removed" \/ busy THEN {}
  ELSE {"view runs", "run now", "remove"}
       \cup (IF c.status = "paused" THEN {"resume"} ELSE {"pause"})

\* The status the card's switch asks for.
TogglesTo(c) == IF c.status = "paused" THEN "active" ELSE "paused"

\* How the card words the latest run.
LastRunShown(status) ==
  CASE status = "succeeded" -> "saved"
    [] status = "failed" -> "failed"
    [] OTHER -> "running"

\* The flow a link into the page opens; the query is then dropped.
DeepLink(query) ==
  IF "connect" \in query THEN "wizard"
  ELSE IF "save-url" \in query THEN "manual url" ELSE "none"
=============================================================================
