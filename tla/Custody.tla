------------------------------ MODULE Custody -------------------------------
(***************************************************************************)
(* What the front half of the pipeline promises of every artifact it       *)
(* fetches, without its handlers, queues and failures (the headers of      *)
(* apps/worker/src/stages/{fetch,parse,retention}.ts): the body is kept    *)
(* before the artifact is recorded, only a recorded artifact is parsed,    *)
(* what does not parse is reviewed and never handed on, and a body is      *)
(* given up only when an artifact that has it is past its retention.       *)
(* Artifacts of two URLs may have one body: each is given up with the      *)
(* other.  Repeating a step changes nothing here: a retry is a stutter.    *)
(***************************************************************************)
CONSTANTS
    Urls,           \* where artifacts come from
    Bodies,         \* what they hold
    Unparsable      \* bodies that no record comes out of

VARIABLES
    objects,        \* bodies kept
    stored,         \* artifacts recorded
    queued,         \* artifacts given to parse at least once
    handed,         \* artifacts whose record was handed on
    reviewed,       \* artifacts shown to a reviewer
    expired,        \* artifacts past their retention
    reclaimed       \* artifacts marked as reclaimed

vars == <<objects, stored, queued, handed, reviewed, expired, reclaimed>>

Artifacts == Urls \X Bodies

Init ==
    /\ objects = {} /\ stored = {} /\ queued = {} /\ handed = {}
    /\ reviewed = {} /\ expired = {} /\ reclaimed = {}

Keep(b) ==
    /\ objects' = objects \union {b}
    /\ UNCHANGED <<stored, queued, handed, reviewed, expired, reclaimed>>

\* Some artifact with body b is past its retention.
Forfeit(b) == \E a \in expired : a[2] = b

Record(a) ==
    /\ a[2] \in objects \/ Forfeit(a[2])
    /\ stored' = stored \union {a}
    /\ UNCHANGED <<objects, queued, handed, reviewed, expired, reclaimed>>

\* An artifact is given to parse while its body must still be there.
Queue(a) ==
    /\ a \in stored \ expired
    /\ queued' = queued \union {a}
    /\ UNCHANGED <<objects, stored, handed, reviewed, expired, reclaimed>>

HandOver(a) ==
    /\ a \in queued
    /\ a[2] \notin Unparsable
    /\ handed' = handed \union {a}
    /\ UNCHANGED <<objects, stored, queued, reviewed, expired, reclaimed>>

Review(a) ==
    /\ a \in queued
    /\ a[2] \in Unparsable
    /\ reviewed' = reviewed \union {a}
    /\ UNCHANGED <<objects, stored, queued, handed, expired, reclaimed>>

Expire(a) ==
    /\ a \in stored
    /\ expired' = expired \union {a}
    /\ UNCHANGED <<objects, stored, queued, handed, reviewed, reclaimed>>

GiveUp(b) ==
    /\ Forfeit(b)
    /\ objects' = objects \ {b}
    /\ UNCHANGED <<stored, queued, handed, reviewed, expired, reclaimed>>

Reclaim(a) ==
    /\ a \in expired
    /\ reclaimed' = reclaimed \union {a}
    /\ UNCHANGED <<objects, stored, queued, handed, reviewed, expired>>

Next ==
    \/ \E b \in Bodies : Keep(b) \/ GiveUp(b)
    \/ \E a \in Artifacts : Record(a) \/ Queue(a) \/ HandOver(a) \/ Review(a)
                              \/ Expire(a) \/ Reclaim(a)

Safety == Init /\ [][Next]_vars
=============================================================================
