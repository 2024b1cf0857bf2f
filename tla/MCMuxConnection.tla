-------------------------- MODULE MCMuxConnection --------------------------
(* Model-checking instance of MuxConnection: two clients, payloads in      *)
(* units, and windows small enough that they fill.                         *)
EXTENDS MuxConnection, TLC

CONSTANTS c1, c2

MCClients == {c1, c2}

\* the two clients play the same role
MCSymmetry == Permutations(MCClients)

=============================================================================
