--------------------------- MODULE MCRoleProfiles ---------------------------
(***************************************************************************)
(* Instances of RoleProfiles for TLC.                                      *)
(***************************************************************************)
EXTENDS RoleProfiles, MCForms, TLC

Symmetric == Permutations(Requests) \cup Permutations(Bodies)
=============================================================================
