------------------------------- MODULE MCCli -------------------------------
(* Two runs of the tool beside a server, and two users.                    *)
EXTENDS Cli

CONSTANTS u1, u2, s1, s2

MCUsers == {u1, u2}
MCShells == {s1, s2}
=============================================================================
