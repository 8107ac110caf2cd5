----------------------------- MODULE MCCopParts -----------------------------
(* Small instances of the parts that do not touch each other: CopTCert,    *)
(* CopCrypt, CopRandom, CopLdap and CopClient.  A behaviour is one of one  *)
(* of them, and the others stand still.                                    *)
EXTENDS CopTCert, CopCrypt, CopRandom, CopLdap, CopClient, TLC

(* A user with two attributes, one of which has the name of an entry of    *)
(* ks, who asks for a third one as well.                                   *)
MCNames == {"role", "enrollmentId", "site"}

MCUserAttrs ==
    [n \in MCNames |-> IF n = "role" THEN "client"
                       ELSE IF n = "enrollmentId" THEN "42" ELSE ""]

MCCounts == 0..3

MCPeriods == {-1, 0, 1, 2, 3}

MCBytes == 0..3

(* Words of five bits, two letters and a bit left over, in which an index  *)
(* is rejected in the first, in the second, in both places or in none.     *)
MCWords ==
    {[i \in 0..(WordBits - 1) |-> (n \div 2 ^ i) % 2] : n \in {4, 7, 13, 15, 22}}

(* The connections of LDAP and the keys of the client are the same three   *)
(* model values, so that one set of permutations serves both.              *)
MCSymmetry == Permutations(Conns \cup ClientKeys)

(* Which part a behaviour is about. *)
VARIABLE subject

NoBatch ==
    /\ pc = "off" /\ req = None /\ looked = 0 /\ attrs = <<>>
    /\ num = 0 /\ period = 0 /\ set = <<>>

NoCrypt == src = <<>> /\ cipher = NoText /\ plain = NoText /\ number = NoText

MCInit ==
    /\ subject \in {"batch", "crypt", "string", "ldap", "client"}
    /\ IF subject = "batch" THEN Init ELSE NoBatch
    /\ IF subject = "crypt" THEN CryptInit ELSE NoCrypt
    /\ RandomInit /\ LdapInit /\ ClientInit

MCNext ==
    /\ UNCHANGED subject
    /\ \/ /\ subject = "batch" /\ Next
          /\ UNCHANGED <<cryptVars, randomVars, ldapVars, clientVars>>
       \/ /\ subject = "crypt" /\ CryptNext
          /\ UNCHANGED <<vars, randomVars, ldapVars, clientVars>>
       \/ /\ subject = "string" /\ RandomNext
          /\ UNCHANGED <<vars, cryptVars, ldapVars, clientVars>>
       \/ /\ subject = "ldap" /\ LdapNext
          /\ UNCHANGED <<vars, cryptVars, randomVars, clientVars>>
       \/ /\ subject = "client" /\ ClientNext
          /\ UNCHANGED <<vars, cryptVars, randomVars, ldapVars>>

MCSpec ==
    MCInit /\ [][MCNext]_<<vars, cryptVars, randomVars, ldapVars, clientVars, subject>>
=============================================================================
