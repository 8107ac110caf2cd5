---------------------------- MODULE MCCopKeyTree ----------------------------
(* Small instances of CopKeyTree for TLC. *)
EXTENDS CopKeyTree

(* The paths of the DNs "cn=bank", "ou=hr,cn=bank", "ou=it,cn=bank" and    *)
(* "cn=bank/ou=hr", the last of which is joined as the second is.          *)
MCPaths ==
    {<< <<"cn=bank">> >>,
     << <<"cn=bank">>, <<"ou=hr">> >>,
     << <<"cn=bank">>, <<"ou=it">> >>,
     << <<"cn=bank", "ou=hr">> >>}
=============================================================================
