---------------------------- MODULE MCExplorer ----------------------------
(***************************************************************************)
(* Instances of Explorer for TLC.                                          *)
(***************************************************************************)
EXTENDS Explorer, TLC

Row(present, seen, closing) ==
    [present |-> present, seen |-> seen, closing |-> closing, updated |-> seen, review |-> FALSE]

\* Three rows, two of them discovered in the same millisecond, and one that
\* comes later.
Tied == {1 :> Row(TRUE, 1, None) @@ 2 :> Row(TRUE, 1, None) @@ 3 :> Row(FALSE, 2, None)}

\* One closing date, the others unknown.
Closing == {1 :> Row(TRUE, 1, 1) @@ 2 :> Row(TRUE, 1, None) @@ 3 :> Row(TRUE, 2, None)}

\* The user has saved one of them.
OneSaved == {1 :> "none" @@ 2 :> "saved" @@ 3 :> "none"}

Symmetric == Permutations(Muts)
=============================================================================
