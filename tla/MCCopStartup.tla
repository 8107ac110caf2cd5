---------------------------- MODULE MCCopStartup ----------------------------
(* Small instances of CopStartup for TLC. *)
EXTENDS CopStartup, TLC

CONSTANTS org, dept, team, unit, root, auditor

(* Three levels as in testdata/cop.json, with two groups on one of them,   *)
(* and a user that needs a group besides one that does not.                *)
MCGroups == {org, dept, team, unit}

MCParent ==
    (org :> None) @@ (dept :> org) @@ (unit :> org) @@ (team :> dept)

MCBootUsers == {root, auditor}

MCGroupOf == (root :> team) @@ (auditor :> None)

ServerSymmetry == Permutations(Servers)
=============================================================================
