----------------------------- MODULE MCPremium -----------------------------
(* Model-checking instance of Premium. *)
EXTENDS Premium

CONSTANTS u1, c1, c2, h1, h2, w1, w2
=============================================================================
