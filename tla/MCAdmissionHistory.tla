------------------------- MODULE MCAdmissionHistory -------------------------
(* A model with two endpoints, whose keys are short enough for exclusions  *)
(* to be seen by the router (EndpointKeys), and one that has none; a token *)
(* with limits of its own in a team.                                       *)
EXTENDS AdmissionHistory
MCChar == {"*", ".", "a", "b", "1"}
MCEndpoints ==
  [m |-> <<[url |-> "u1", key |-> <<"a", "1">>, weight |-> 1],
           [url |-> "u2", key |-> <<"b", "1">>, weight |-> 1]>>,
   none |-> <<>>]
MCTeamOf == [t \in Token |-> "team"]
MCTeamLimits == [g \in Team |-> [rpm |-> 2, tpm |-> 1]]
MCTokenLimits == [t \in Token |-> [rpm |-> 0, tpm |-> 1]]
MCEndpointLimits == [m |-> <<[rpm |-> 1, tpm |-> 0], [rpm |-> 0, tpm |-> 0]>>, none |-> <<>>]
=============================================================================
