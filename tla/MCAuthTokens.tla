----------------------------- MODULE MCAuthTokens -----------------------------
(* One account in one of two roles, clocks that are off by up to a unit, and *)
(* enough time for a renewed pair to expire.                                 *)
EXTENDS AuthTokens

CONSTANTS u1, user, admin
=============================================================================
