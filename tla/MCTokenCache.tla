---------------------------- MODULE MCTokenCache ----------------------------
(* TLC instance of TokenCache.  A call fetches at most once, so the number *)
(* of refreshes is bounded by the number of requests.                      *)
EXTENDS TokenCache, TLC

Symmetry == Permutations(Request)
=============================================================================
