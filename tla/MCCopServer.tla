---------------------------- MODULE MCCopServer ----------------------------
(* Small instances of CopServer for TLC. *)
EXTENDS CopServer, TLC

MCAdminAttrs == [roles |-> {"client"}, revoker |-> TRUE]

NoAttrs == [roles |-> {}, revoker |-> FALSE]

OnlyNoAttrs == {NoAttrs}

(* What lib/client.go and lib/identity.go send: basic authentication to    *)
(* enroll, a token to everything else.                                     *)
LibraryHeaders ==
    [op \in AllOps |-> IF op = "enroll" THEN {"basic"} ELSE {"token"}]

(* What any client may send: no header, or any header anywhere. *)
AnyHeaders == [op \in AllOps |-> HeaderKinds]

Symmetry ==
    Permutations(Procs) \cup Permutations(Tokens \ {AdminToken})
        \cup Permutations(Serials \ {AdminSerial})
=============================================================================
