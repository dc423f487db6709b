----------------------------- MODULE MCRequestPool -----------------------------
(* RequestPool on small instances *)
EXTENDS RequestPool

CONSTANTS r1, r2, r3, w1, w2
===============================================================================
