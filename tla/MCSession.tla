----------------------------- MODULE MCSession -----------------------------
(* One browser with two requests at a time, and two users.                 *)
EXTENDS Session

CONSTANTS u1, u2, b1, r1, r2

MCUsers == {u1, u2}
MCBrowsers == {b1}
MCRequests == {r1, r2}
MCSids == 1 .. 7

Login(u) == [op |-> "login", as |-> u]
Discord(u) == [op |-> "discord", as |-> u]
Logout == [op |-> "logout"]
Query == [op |-> "act"]

MCDocuments ==
  {<<Query>>, <<Logout, Query>>, <<Logout, Login(u1)>>,
   <<Login(u1), Query>>, <<[op |-> "authorize"]>>, <<Discord(u2)>>}
=============================================================================
