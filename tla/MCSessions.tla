----------------------------- MODULE MCSessions -----------------------------
(***************************************************************************)
(* A small instance of Sessions: two users and two pairs of tokens.        *)
(***************************************************************************)
EXTENDS Sessions, TLC

CONSTANTS u1, u2

============================================================================
