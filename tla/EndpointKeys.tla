---------------------------- MODULE EndpointKeys ----------------------------
(***************************************************************************)
(* The strings under which the router names an endpoint: the URL, a colon  *)
(* and the masked API key.  Two functions called mask_key make them: the   *)
(* one of src/proxy/handler.rs (the health checker and the dashboard use a *)
(* copy of it) and the one of src/router/balancer.rs.  An API key is a     *)
(* sequence of characters, and so is a masked one.                         *)
(***************************************************************************)
EXTENDS Integers, Sequences

CONSTANT Char   \* the characters keys and masks are made of

ASSUME CharAssumption == {"*", "."} \subseteq Char

Stars == <<"*", "*", "*">>
Dots == <<".", ".", ".">>

\* The first and the last n characters of a key.
Ends(key, n) ==
  SubSeq(key, 1, n) \o Dots \o SubSeq(key, Len(key) - n + 1, Len(key))

handler_mask_key(key) == IF Len(key) <= 8 THEN Stars ELSE Ends(key, 4)

router_mask_key(key) == IF Len(key) <= 6 THEN Stars ELSE Ends(key, 3)
=============================================================================
