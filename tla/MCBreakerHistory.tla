-------------------------- MODULE MCBreakerHistory --------------------------
EXTENDS BreakerHistory
MCFailPatterns == {[min |-> 500, max |-> 599], [min |-> 429, max |-> 429]}
MCStatus == {404, 503}
=============================================================================
