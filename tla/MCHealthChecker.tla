--------------------------- MODULE MCHealthChecker ---------------------------
EXTENDS HealthChecker, TLC
MCChar == {"*", ".", "s", "k", "a", "b"}
MCUrl == {"u1", "u2"}
Ep(url, key) == [url |-> url, key |-> <<"s", "k", key>>, weight |-> 1]
\* Two models that share an endpoint: the checker probes it twice per sweep.
MCEndpoints ==
  "m1" :> <<Ep("u1", "a"), Ep("u2", "b")>> @@ "m2" :> <<Ep("u2", "b")>>
MCSweep == <<<<"m1", 0>>, <<"m1", 1>>, <<"m2", 0>>>>
OneEndpoint == "m1" :> <<Ep("u1", "a")>>
OneSweep == <<<<"m1", 0>>>>
MCFailPatterns == {[min |-> 500, max |-> 599]}
=============================================================================
