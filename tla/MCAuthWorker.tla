---------------------------- MODULE MCAuthWorker ----------------------------
(* Two clients and two emails: registrations of one email race, one      *)
(* client's password is the other's wrong one, and a client can try to  *)
(* revoke a token of the other's user.                                  *)
EXTENDS AuthWorker

CONSTANTS c1, c2, e1, e2, k1, k2, k3, k4

MCClients == {c1, c2}
MCEmails == {e1, e2}
MCTokens == {k1, k2, k3, k4}
MCAllTables == Tables
====
