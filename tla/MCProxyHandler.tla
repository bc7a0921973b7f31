--------------------------- MODULE MCProxyHandler ---------------------------
EXTENDS ProxyHandler, TLC

MCChar == {"*", ".", "s", "k", "-", "a", "b", "1", "2", "3", "4"}
MCUrl == {"u1", "u2"}
Ep(url, key) == [url |-> url, key |-> key, weight |-> 1]
Short(c) == <<"s", "k", c>>
Long(c) == <<"s", "k", "-", "1", c, c, "1", "2", "3", "4">>

\* Two models that share an endpoint, with keys the router recognises.
ShortKeyed ==
  "m1" :> <<Ep("u1", Short("a")), Ep("u2", Short("b"))>>
  @@ "m2" :> <<Ep("u2", Short("b"))>>
\* One model with keys of the usual length.
LongKeyed == "m1" :> <<Ep("u1", Long("a")), Ep("u2", Long("b"))>>

MCFailPatterns == {[min |-> 500, max |-> 599]}
MCStatus == {200, 503}
Symmetry == Permutations(Request)
=============================================================================
