----------------------------- MODULE MCAccounts -----------------------------
(***************************************************************************)
(* Instances of Accounts for TLC.                                          *)
(***************************************************************************)
EXTENDS Accounts, TLC

CONSTANTS u1, u2, s1, s2, s3, b1, b2, g1, e1, e2

\* One browser is signed in: the address of the Google identity has a user, or
\* has none.
Either == {{b1}, {b2}}

People  == b1 :> u1 @@ b2 :> u2
Address == u1 :> e1 @@ u2 :> e2
Cookies == b1 :> s1 @@ b2 :> s2
Google  == g1 :> e2

Symmetric == Permutations(Requests) \cup Permutations(Links) \cup Permutations(Flows)
=============================================================================
