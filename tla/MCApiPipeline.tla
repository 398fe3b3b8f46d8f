---------------------------- MODULE MCApiPipeline ----------------------------
EXTENDS ApiPipeline, TLC

\* Of one caller: a request with a nonce, and one with a token.  Of another:
\* one with the same nonce, without the permission, and one that is too big.
\* And a Reset.
Api(key, nonce, time) ==
  [path |-> "api", big |-> FALSE, key |-> key, scheme |-> "wsse",
   nonce |-> nonce, time |-> time, genuine |-> TRUE, permitted |-> TRUE]

CONSTANTS k1, k2, n1
MixedRequests == {
  Api(k1, n1, 2),
  [Api(k1, n1, 3) EXCEPT !.scheme = "bearer"],
  [Api(k2, n1, 2) EXCEPT !.permitted = FALSE],
  [Api(k2, n1, 2) EXCEPT !.path = "reset"]
}
Symmetry == Permutations(Clients)
=============================================================================
