------------------------------- MODULE MCAuth -------------------------------
(* Three overlapping calls against one installation and one new user. *)
EXTENDS Auth

CONSTANTS u1, u2

MCUsers == {u1, u2}
MCInsts == 1 .. 3
MCMixes == { {"verify", "analytics", "delete"},
             {"verify", "byok", "dropByok"},
             {"rotate", "delete", "playground", "issue"}, {"rotate", "verify"},
             {"login", "dashboard"},
             {"aliases", "byok"}, {"verify", "settings"},
             {"resolve"} }
=============================================================================
