-------------------------- MODULE MCAccessControl --------------------------
EXTENDS AccessControl, TLC

Inherits == [team |-> "team", inherits |-> TRUE, models |-> {}]
Own(models) == [team |-> "team", inherits |-> FALSE, models |-> models]
Elsewhere == [team |-> "gone", inherits |-> TRUE, models |-> {}]
Model(name, aliases, e) == [name |-> name, aliases |-> aliases, endpoints |-> e]
File(tokens, allowed, models) ==
  [tokens |-> tokens, teams |-> "team" :> allowed, models |-> models]

a == Model("a", {"n"}, {"ea"})
b == Model("b", {}, {"eb"})
\* The team's models, all of them for one token and one of them for the other.
Base == File("t1" :> Inherits @@ "t2" :> Own({"b"}), {"*"}, <<a, b>>)
\* A list that names an alias, which allows nothing.
ByAlias == File("t1" :> Own({"n"}) @@ "t2" :> Inherits, {"b"}, <<b, a>>)
\* A token is revoked and a model is gone.
Smaller == File("t1" :> Inherits, {"a"}, <<Model("a", {"n"}, {"ea", "ea2"})>>)
\* Refused by the validation: a team is missing, or a model has no endpoint.
Teamless == File("t1" :> Elsewhere, {"*"}, <<a>>)
Endless == File("t1" :> Inherits, {"*"}, <<a, Model("b", {}, {})>>)
\* No models at all, which the validation lets pass.
Empty == File("t2" :> Inherits, {"*"}, <<>>)

MCContents == {Base, ByAlias, Smaller, Empty, Teamless, Endless}
=============================================================================
