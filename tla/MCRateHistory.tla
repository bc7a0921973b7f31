---------------------------- MODULE MCRateHistory ----------------------------
EXTENDS RateHistory, TLC
MCLimits == {[rpm |-> 2, tpm |-> 3], [rpm |-> 1, tpm |-> 0]}
TwoAndThree == {[rpm |-> 2, tpm |-> 3]}
\* A request that has ended holds nothing any step or property looks at.
View ==
  <<now, limits, limiter, pairs, pc, historyVars,
    [r \in Request |-> IF pc[r] \in {"done", "rpm_refused", "tpm_refused"} THEN <<>> ELSE call[r]]>>
Symmetry == Permutations(Request)
=============================================================================
