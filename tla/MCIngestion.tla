---------------------------- MODULE MCIngestion -----------------------------
(***************************************************************************)
(* Instance of Ingestion for TLC: greenhouse, lever, ashby, manual_url.    *)
(* Every posting has a URL of its own, so postings and URLs are the same   *)
(* set here.  Bodies of different URLs differ, or, where they all answer   *)
(* with one error page, do not.                                            *)
(***************************************************************************)
EXTENDS Ingestion

OwnBodies == Refs \X Contents
OwnUrl    == [r \in Refs |-> r]
OwnNarrow == [r \in Refs |-> [c \in Contents |-> <<r, c>>]]

SharedBodies == Contents
SharedNarrow == [r \in Refs |-> [c \in Contents |-> c]]

NoUrls == {}

OneUnparsable == {CHOOSE b \in Bodies : TRUE}

\* Bounds on the environment.
Bound(c, t, d, e, f) ==
    [change |-> c, toggle |-> t, due |-> d, evict |-> e, fail |-> f]
LiveBudget   == Bound(1, 1, 1, 1, 1)
SharedBudget == Bound(0, 0, 1, 0, 0)
=============================================================================
