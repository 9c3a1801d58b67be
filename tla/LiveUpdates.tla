---------------------------- MODULE LiveUpdates ----------------------------
(***************************************************************************)
(* The live-updates stream of one user and one page: the bus and the       *)
(* per-user streams of the API (apps/api/src/events), the EventSource the  *)
(* app shell keeps (apps/web/src/lib/api/use-live-updates.ts).             *)
(*                                                                         *)
(* Of an event only its type matters: the page reads what it names anew.   *)
(* The bus keeps nothing: an event that finds no open stream, or is under  *)
(* way when a stream breaks, is lost, and opening a stream reads nothing   *)
(* anew.  The waits between attempts have an upper bound, so only that     *)
(* they end is kept.                                                       *)
(***************************************************************************)

VARIABLES
    stream,     \* whether the shell is mounted and signed in, its source, its timer
    sent        \* the type of the event under way to the page, or "nothing"

liveVars == <<stream, sent>>

LiveInit ==
    /\ stream = [enabled |-> FALSE, source |-> "none", timer |-> FALSE]
    /\ sent = "nothing"

\* handleEvent: the queries an event makes the page ask again.
Affected(type) ==
    CASE type = "run.status"          -> {"health", "runs", "connections", "opportunities"}
      [] type = "opportunity.changed" -> {"opportunities"}
      [] type = "export.status"       -> {"export"}
      [] OTHER                        -> {}

\* subscribe: the streams of the user that are open get the event.  emitToUser is
\* called before the response is sent, so the page may have it too early to know what
\* it is about.
Emit(type) ==
    sent' \in {"nothing", IF stream.source = "open" THEN type ELSE "nothing"}

\* liveEventSchema accepts it and the handler runs.
Deliver ==
    /\ sent # "nothing" /\ stream.source = "open"
    /\ sent' = "nothing"
    /\ UNCHANGED stream

\* connect().
Connected(s) == [s EXCEPT !.source = "connecting", !.timer = FALSE]

\* The effect runs: the user is known.
Mount ==
    /\ ~stream.enabled
    /\ stream' = Connected([stream EXCEPT !.enabled = TRUE])
    /\ UNCHANGED sent

\* The API has answered: from here its bus has a subscription.
Opens ==
    /\ stream.source = "connecting"
    /\ stream' = [stream EXCEPT !.source = "open"]
    /\ UNCHANGED sent

\* Mutation: the source is closed, and left to reconnect on its own.
BreaksForGood ==
    /\ stream.source # "none"
    /\ stream' = [stream EXCEPT !.source = "none"]
    /\ sent' = "nothing"

\* onerror: the source is closed, and a timer set to connect again.
Breaks ==
    /\ stream.source # "none"
    /\ stream' = [stream EXCEPT !.source = "none", !.timer = stream.enabled]
    /\ sent' = "nothing"

\* The timer runs out.
Reconnect ==
    /\ stream.timer
    /\ stream' = IF stream.enabled THEN Connected(stream) ELSE [stream EXCEPT !.timer = FALSE]
    /\ UNCHANGED sent

\* The cleanup of the effect: the shell unmounts, or the user is no longer known.
Unmount ==
    /\ stream.enabled
    /\ stream' = [enabled |-> FALSE, source |-> "none", timer |-> FALSE]
    /\ sent' = "nothing"
=============================================================================
