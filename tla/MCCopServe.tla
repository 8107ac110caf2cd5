----------------------------- MODULE MCCopServe -----------------------------
(* A small instance of CopServe for TLC. *)
EXTENDS CopServe

(* The configuration of testdata/cop.json: a SQLite database, a signing    *)
(* policy without authentication or remotes, and TLS with the CA's own     *)
(* certificate and key.                                                    *)
Plain ==
    [valid |-> TRUE, ldap |-> FALSE, driver |-> "sqlite3", caFlags |-> TRUE,
     remotes |-> {}, responder |-> FALSE, broken |-> {"authsign"}, tlsDisable |-> FALSE,
     tlsCert |-> "", tlsKey |-> "", mutual |-> ""]

(* One thing is different in each of the others. *)
MCConfigs ==
    {Plain,
     [Plain EXCEPT !.valid = FALSE],
     [Plain EXCEPT !.ldap = TRUE],
     [Plain EXCEPT !.driver = ""],
     [Plain EXCEPT !.driver = "other"],
     [Plain EXCEPT !.caFlags = FALSE],
     [Plain EXCEPT !.caFlags = FALSE, !.remotes = Profiles],
     [Plain EXCEPT !.remotes = {"other"}],
     [Plain EXCEPT !.responder = TRUE, !.broken = {"sign", "newcert", "/"}],
     [Plain EXCEPT !.tlsDisable = TRUE],
     [Plain EXCEPT !.tlsCert = "tls-cert", !.tlsKey = "tls-key", !.mutual = "good"],
     [Plain EXCEPT !.tlsCert = "tls-cert"],
     [Plain EXCEPT !.mutual = "bad"]}
=============================================================================
