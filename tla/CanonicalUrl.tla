---------------------------- MODULE CanonicalUrl ----------------------------
(***************************************************************************)
(* The identity of a URL (packages/security/src/canonical-url.ts).         *)
(*                                                                         *)
(* A URL as the parser leaves it, host and scheme in lower case: scheme,   *)
(* host, port (0 when the text has none), path (its segments; a trailing   *)
(* slash is an empty last one), params (pairs of a name and a value, both  *)
(* numbers, compared as the texts they stand for) and whether there is a   *)
(* fragment.  What the parser refuses is Malformed.                        *)
(***************************************************************************)
EXTENDS Naturals, Sequences, TLC

CONSTANTS
    Malformed,
    Tracking        \* names that isTrackingParam knows

ASSUME TrackingAssumption == Tracking \subseteq Nat

Schemes == {"http", "https"}

\* No default port is left, whether the parser or canonicalizeUrl drops it.
DefaultPort(scheme) == IF scheme = "http" THEN 80 ELSE 443

IsTrackingParam(param) == param[1] \in Tracking

IsWebUrl(url) == url # Malformed /\ url.scheme \in Schemes

Port(url) == IF url.port = DefaultPort(url.scheme) THEN 0 ELSE url.port

\* A path without the slashes it ends with; the root keeps its one.
TrimmedPath(path) ==
    LET full == {i \in DOMAIN path : path[i] # ""} IN
    IF full = {} THEN <<>>
    ELSE SubSeq(path, 1, CHOOSE i \in full : \A k \in full : k <= i)

Before(p, q) == p[1] < q[1] \/ (p[1] = q[1] /\ p[2] < q[2])

Params(params) == SortSeq(SelectSeq(params, LAMBDA p : ~IsTrackingParam(p)), Before)

\* canonicalizeUrl, of a web URL; it throws for any other.
Canonical(url) ==
    [scheme |-> url.scheme, host |-> url.host, port |-> Port(url),
     path |-> TrimmedPath(url.path), params |-> Params(url.params), fragment |-> FALSE]
=============================================================================
