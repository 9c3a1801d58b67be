------------------------------- MODULE Dialogs -------------------------------
(***************************************************************************)
(* The confirmation dialogs of the web application: a dialog about one     *)
(* target, whose confirmation sends a request and whose buttons are        *)
(* disabled until it is answered.  Escape and a click outside close it     *)
(* all the same, and a page that does not disable the buttons that open it *)
(* can show it for another target before the first answer arrives.         *)
(***************************************************************************)
EXTENDS Naturals, Sequences, FiniteSets

Nil == {}

\* target: what the dialog is open for; pending: the request's target;
\* sent: what was requested.
Closed == [target |-> Nil, pending |-> Nil, sent |-> <<>>]

\* The page's list behind the dialog: its buttons.  Those of the profile
\* cards are disabled while any request of the page is pending.
Opens(d, t, busyDisables) ==
  IF d.target # Nil \/ (busyDisables /\ d.pending # Nil) THEN {}
  ELSE {[d EXCEPT !.target = {t}]}

Dismisses(d) == IF d.target = Nil THEN {} ELSE {[d EXCEPT !.target = Nil]}

\* Cancel is a dismissal that waits for the answer.
Cancels(d) == IF d.pending # Nil THEN {} ELSE Dismisses(d)

Confirms(d) ==
  IF d.target = Nil \/ d.pending # Nil THEN {}
  ELSE {[d EXCEPT !.pending = d.target,
                  !.sent = Append(@, CHOOSE t \in d.target : TRUE)]}

\* Success closes the dialog, whatever it is open for by now.
Succeeds(d) ==
  IF d.pending = Nil THEN {} ELSE {[d EXCEPT !.pending = Nil, !.target = Nil]}
Fails(d) == IF d.pending = Nil THEN {} ELSE {[d EXCEPT !.pending = Nil]}

DialogSteps(d, targets, busyDisables) ==
  UNION {Opens(d, t, busyDisables) : t \in targets}
  \cup Dismisses(d) \cup Cancels(d) \cup Confirms(d) \cup Succeeds(d) \cup Fails(d)

(***************************************************************************)
(* The sessions page.                                                      *)
(***************************************************************************)
Revocable(sessions) == {s \in sessions : ~s.current}
OffersOthers(sessions) == Revocable(sessions) # {}

(***************************************************************************)
(* Deleting data: the categories ticked behind the dialog.                 *)
(***************************************************************************)
Unticked == [selected |-> {}, open |-> FALSE, pending |-> Nil]

Ticks(d, c) ==
  IF d.open THEN {}
  ELSE {[d EXCEPT !.selected = IF c \in @ THEN @ \ {c} ELSE @ \cup {c}]}
AsksDelete(d) == IF d.open \/ d.selected = {} THEN {} ELSE {[d EXCEPT !.open = TRUE]}
LeavesDelete(d) == IF d.open THEN {[d EXCEPT !.open = FALSE]} ELSE {}
ConfirmsDelete(d) ==
  IF ~d.open \/ d.pending # Nil THEN {} ELSE {[d EXCEPT !.pending = {d.selected}]}
DeleteSucceeds(d) ==
  IF d.pending = Nil THEN {}
  ELSE {[selected |-> {}, open |-> FALSE, pending |-> Nil]}
DeleteFails(d) == IF d.pending = Nil THEN {} ELSE {[d EXCEPT !.pending = Nil]}

DeleteSteps(d, categories) ==
  UNION {Ticks(d, c) : c \in categories}
  \cup AsksDelete(d) \cup LeavesDelete(d) \cup ConfirmsDelete(d)
  \cup DeleteSucceeds(d) \cup DeleteFails(d)

(***************************************************************************)
(* Deleting the account: a phrase to type, in capitals or not.             *)
(***************************************************************************)
Unasked == [open |-> FALSE, phrase |-> "", pending |-> FALSE, gone |-> FALSE]

\* "DELETE", "delete" and " delete " unlock the button.
Unlocks(phrase) == phrase \in {"DELETE", "delete", " delete "}

AccountSteps(d, phrases) ==
  IF d.gone THEN {}
  ELSE {[d EXCEPT !.open = TRUE]}
       \cup {[d EXCEPT !.open = FALSE, !.phrase = ""]}
       \cup (IF d.open THEN {[d EXCEPT !.phrase = p] : p \in phrases} ELSE {})
       \cup (IF d.open /\ Unlocks(d.phrase) /\ ~d.pending
             THEN {[d EXCEPT !.pending = TRUE]} ELSE {})
       \cup (IF d.pending THEN {[d EXCEPT !.pending = FALSE, !.gone = TRUE],
                                [d EXCEPT !.pending = FALSE]} ELSE {})
=============================================================================
