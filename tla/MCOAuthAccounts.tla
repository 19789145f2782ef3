--------------------------- MODULE MCOAuthAccounts ---------------------------
(***************************************************************************)
(* Two threads and two browser sessions over one account and three grants. *)
(***************************************************************************)
EXTENDS OAuthAccounts

CONSTANTS a1, a2, s1, s2, t1, t2, f1, f2
=============================================================================
