--------------------------- MODULE AccessControl ---------------------------
(***************************************************************************)
(* Who may use which model while the configuration is being reloaded: the  *)
(* watcher of src/config/watcher.rs that replaces the configuration, and   *)
(* the requests of proxy_handler and proxy_generic, which load it afresh   *)
(* when they are authenticated (src/auth/middleware.rs), when access is    *)
(* checked (src/config/types.rs) and at every selection of an endpoint     *)
(* (src/router/balancer.rs).                                               *)
(*                                                                         *)
(* The configurations that were in force are kept in the order they came;  *)
(* a place in that order stands for the pointer a request holds.  Limits,  *)
(* costs, bans and the choice among a model's endpoints are left out.      *)
(***************************************************************************)
EXTENDS Naturals, Sequences, FiniteSetsExt

CONSTANTS
  Token, Name, Team, Endpoint,
  Contents,       \* what the configuration file may contain, parsed
  Broken,         \* a file that does not parse, or names an unset variable
  Request,
  MaxEdits        \* bound: changes of the file

Wildcard == "*"
NoModel == 0
NoName == "no name"
NoEndpoint == "no endpoint"
NoReply == "none"

Models == [name : Name, aliases : SUBSET Name, endpoints : SUBSET Endpoint]
Configs ==
  [tokens : UNION {[T -> [team : Team, inherits : BOOLEAN,
                          models : SUBSET (Name \cup {Wildcard})]] : T \in SUBSET Token},
   teams : UNION {[T -> SUBSET (Name \cup {Wildcard})] : T \in SUBSET Team},
   models : Seq(Models)]

ASSUME AccessAssumption ==
  /\ Contents \subseteq Configs
  /\ Broken \notin Contents
  /\ NoName \notin Name
  /\ NoEndpoint \notin Endpoint
  /\ MaxEdits \in Nat

VARIABLES
  file,       \* what the file holds
  edits,      \* how often it has changed
  pending,    \* events of the file the reloader has not received
  reloader,   \* where the reloading task stands
  loaded,     \* the configuration it is about to put in force
  versions,   \* the configurations that were in force, the last one still is
  pc, call

watcherVars == <<file, edits, pending, reloader, loaded>>
vars == <<watcherVars, versions, pc, call>>

-----------------------------------------------------------------------------
(* What a configuration says. *)

\* Mutant: tokens of unknown teams pass.
Valid_AnyTeam(c) ==
  /\ c # Broken
  /\ \A i \in DOMAIN c.models : c.models[i].endpoints # {}

\* Mutant: models without endpoints pass.
Valid_AnyModel(c) ==
  /\ c # Broken
  /\ \A t \in DOMAIN c.tokens : c.tokens[t].team \in DOMAIN c.teams

\* validate_config, of a file that parses.
Valid(c) ==
  /\ c # Broken
  /\ \A t \in DOMAIN c.tokens : c.tokens[t].team \in DOMAIN c.teams
  /\ \A i \in DOMAIN c.models : c.models[i].endpoints # {}

\* The models a token may use: its own list, or else its team's.
EffectiveModels(c, t) ==
  IF ~c.tokens[t].inherits THEN c.tokens[t].models
  ELSE IF c.tokens[t].team \in DOMAIN c.teams THEN c.teams[c.tokens[t].team]
  ELSE {Wildcard}

token_has_model_access(c, t, m) ==
  /\ t \in DOMAIN c.tokens
  /\ {m, Wildcard} \cap EffectiveModels(c, t) # {}

\* The first model with this name or alias.
find_model(c, n) ==
  LET hits == {i \in DOMAIN c.models : n = c.models[i].name \/ n \in c.models[i].aliases}
  IN  IF hits = {} THEN NoModel ELSE Min(hits)

canonical_model_name(c, n) ==
  IF find_model(c, n) = NoModel THEN n ELSE c.models[find_model(c, n)].name

Servable(c, t, n) ==
  /\ find_model(c, n) # NoModel
  /\ token_has_model_access(c, t, canonical_model_name(c, n))

-----------------------------------------------------------------------------

InForce == Len(versions)
Config(r) == versions[call[r].config]

Points == {"idle", "authenticated", "loaded", "admitted", "picked", "retry", "done"}
Replies == {NoReply, "unauthorized", "no_models", "forbidden", "no_endpoint", "all_banned",
            "bad_request", "rate_limited", "upstream_error", "answered"}
Calls == [token : Token, wanted : Name \cup {NoName}, generic : BOOLEAN,
          arrived : Nat, config : Nat, model : Name \cup {NoName},
          endpoint : Endpoint \cup {NoEndpoint}, reply : Replies]

(* Every configuration that was in force had passed the validation.        *)
TypeOK ==
  /\ file \in Contents \cup {Broken}
  /\ edits \in 0..MaxEdits /\ pending \in 0..MaxEdits
  /\ reloader \in {"waiting", "sleeping", "storing"}
  /\ loaded \in Contents
  /\ versions \in Seq(Contents) /\ versions # <<>>
  /\ \A v \in DOMAIN versions :
       \A t \in DOMAIN versions[v].tokens :
         versions[v].tokens[t].team \in DOMAIN versions[v].teams
  /\ pc \in [Request -> Points]
  /\ call \in [Request -> Calls]

\* Requests may ask for anything, those of the generic proxy for no model by name.
Requests ==
  {a \in [token : Token, wanted : Name \cup {NoName}, generic : BOOLEAN] :
     a.wanted = NoName => a.generic}

\* The service starts with a file it can load.
Init ==
  /\ file \in Contents /\ Valid(file)
  /\ edits = 0 /\ pending = 0
  /\ reloader = "waiting"
  /\ loaded = file
  /\ versions = <<file>>
  /\ pc = [r \in Request |-> "idle"]
  /\ \E asked \in [Request -> Requests] :
       call = [r \in Request |->
         [token |-> asked[r].token, wanted |-> asked[r].wanted, generic |-> asked[r].generic,
          arrived |-> 1, config |-> 1, model |-> NoName, endpoint |-> NoEndpoint,
          reply |-> NoReply]]

-----------------------------------------------------------------------------
(* The watcher. *)

\* Mutant: an event that finds the reloader at work is dropped.
notify_TrySend ==
  pending' = IF reloader = "waiting" THEN pending + 1 ELSE pending

\* blocking_send: an event waits for room in the channel, and is never dropped.
notify == pending' = pending + 1

\* The file is written.  A save in several writes is several changes, the
\* first of which may leave anything there.
Edit(c) ==
  /\ edits < MaxEdits
  /\ edits' = edits + 1
  /\ file' = c
  /\ notify
  /\ UNCHANGED <<reloader, loaded, versions, pc, call>>

Receive ==
  /\ reloader = "waiting" /\ pending > 0
  /\ pending' = pending - 1
  /\ reloader' = "sleeping"
  /\ UNCHANGED <<file, edits, loaded, versions, pc, call>>

\* After the delay: load_config, whose errors leave the configuration as it is.
Load ==
  /\ reloader = "sleeping"
  /\ \/ /\ Valid(file)
        /\ loaded' = file
        /\ reloader' = "storing"
     \/ /\ ~Valid(file)
        /\ reloader' = "waiting"
        /\ UNCHANGED loaded
  /\ UNCHANGED <<file, edits, pending, versions, pc, call>>

Store ==
  /\ reloader = "storing"
  /\ versions' = Append(versions, loaded)
  /\ reloader' = "waiting"
  /\ UNCHANGED <<file, edits, pending, loaded, pc, call>>

-----------------------------------------------------------------------------
(* A request. *)

GoTo(r, point) == pc' = [pc EXCEPT ![r] = point]

Reply(r, reply) ==
  /\ GoTo(r, "done")
  /\ call' = [call EXCEPT ![r].reply = reply]

\* The middleware resolves the token; the handler refuses a request without
\* the context this leaves.
Authenticate(r) ==
  /\ pc[r] = "idle"
  /\ GoTo(r, IF call[r].token \in DOMAIN versions[InForce].tokens THEN "authenticated" ELSE "done")
  /\ call' = [call EXCEPT ![r].arrived = InForce,
       ![r].reply = IF call[r].token \in DOMAIN versions[InForce].tokens THEN @ ELSE "unauthorized"]
  /\ UNCHANGED <<watcherVars, versions>>

\* Mutant: access is checked for the name as asked, before aliases are resolved.
CheckAccess_AsAsked(r, v, n) ==
  LET granted == token_has_model_access(versions[v], call[r].token, n)
  IN  /\ GoTo(r, IF granted THEN "admitted" ELSE "done")
      /\ call' = [call EXCEPT ![r].config = v, ![r].wanted = n,
                              ![r].model = canonical_model_name(versions[v], n),
                              ![r].reply = IF granted THEN @ ELSE "forbidden"]

\* Access under the configuration at place v, for the model asked for as n.
CheckAccess(r, v, n) ==
  LET m == canonical_model_name(versions[v], n)
      granted == token_has_model_access(versions[v], call[r].token, m)
  IN  /\ GoTo(r, IF granted THEN "admitted" ELSE "done")
      /\ call' = [call EXCEPT ![r].config = v, ![r].wanted = n, ![r].model = m,
                              ![r].reply = IF granted THEN @ ELSE "forbidden"]

\* proxy_handler loads the configuration when it has read the body.
Admit(r) ==
  /\ pc[r] = "authenticated" /\ ~call[r].generic
  /\ CheckAccess(r, InForce, call[r].wanted)
  /\ UNCHANGED <<watcherVars, versions>>

\* proxy_generic loads it first, then waits for limits and body.
LoadConfig(r) ==
  /\ pc[r] = "authenticated" /\ call[r].generic
  /\ call' = [call EXCEPT ![r].config = InForce]
  /\ GoTo(r, "loaded")
  /\ UNCHANGED <<watcherVars, versions>>

\* A body that names no model means the first one of the type the path implies,
\* or the first one there is.
AdmitGeneric(r) ==
  /\ pc[r] = "loaded"
  /\ \/ /\ call[r].wanted # NoName
        /\ CheckAccess(r, call[r].config, call[r].wanted)
     \/ /\ call[r].wanted = NoName
        /\ \E i \in DOMAIN Config(r).models :
             CheckAccess(r, call[r].config, Config(r).models[i].name)
     \/ /\ call[r].wanted = NoName
        /\ Config(r).models = <<>>
        /\ Reply(r, "no_models")
  /\ UNCHANGED <<watcherVars, versions>>

\* The endpoints of the request's model under the configuration at place v.
Offered(r, v) ==
  LET i == find_model(versions[v], call[r].model)
  IN  IF i = NoModel THEN {} ELSE versions[v].models[i].endpoints

Pick(r, v) ==
  /\ \E e \in Offered(r, v) : call' = [call EXCEPT ![r].endpoint = e]
  /\ GoTo(r, "picked")

\* The binding of a session is followed within the configuration access was
\* checked under.
FollowBinding(r) ==
  /\ pc[r] = "admitted" /\ ~call[r].generic
  /\ Pick(r, call[r].config)
  /\ UNCHANGED <<watcherVars, versions>>

\* select_available and select_endpoint load the configuration themselves.  The
\* endpoints it offers may all be banned ("all_banned" stands for both messages
\* this leads to); a retry may also find every one tried, and answers the last error.
Select(r) ==
  /\ pc[r] \in {"admitted", "retry"}
  /\ \/ Pick(r, InForce)
     \/ /\ pc[r] = "admitted"
        /\ Offered(r, InForce) = {}
        /\ Reply(r, "no_endpoint")
     \/ /\ pc[r] = "admitted" /\ ~call[r].generic
        /\ Reply(r, "all_banned")
     \/ /\ pc[r] = "retry"
        /\ \E reply \in {"upstream_error", "rate_limited"} : Reply(r, reply)
  /\ UNCHANGED <<watcherVars, versions>>

\* The request is malformed, limits refuse it, or the upstream has the last word.
Finish(r) ==
  /\ \/ pc[r] \in {"authenticated", "loaded"} /\ Reply(r, "bad_request")
     \/ pc[r] \in {"loaded", "picked"} /\ Reply(r, "rate_limited")
     \/ pc[r] = "picked" /\ \E reply \in {"answered", "upstream_error"} : Reply(r, reply)
  /\ UNCHANGED <<watcherVars, versions>>

Retry(r) ==
  /\ pc[r] = "picked" /\ ~call[r].generic
  /\ GoTo(r, "retry")
  /\ UNCHANGED <<watcherVars, versions, call>>

-----------------------------------------------------------------------------

Watcher == Receive \/ Load \/ Store

Next ==
  \/ \E c \in Contents \cup {Broken} : Edit(c)
  \/ Receive \/ Load \/ Store
  \/ \E r \in Request :
       \/ Authenticate(r) \/ Admit(r) \/ LoadConfig(r) \/ AdmitGeneric(r)
       \/ FollowBinding(r) \/ Select(r) \/ Finish(r) \/ Retry(r)

Spec == Init /\ [][Next]_vars

(* The reloading task is polled while it has something to do.              *)
FairSpec == Spec /\ WF_vars(Watcher)

-----------------------------------------------------------------------------
(* The configuration files agree on what a name means: a model's name finds *)
(* that model; a name that two files both know, as a name or an alias,      *)
(* means the model of the same name; and no list of models names an alias   *)
(* its own file does not define.  validate_config asks for none of this.    *)
Unambiguous ==
  /\ \A c \in Contents : \A i \in DOMAIN c.models : find_model(c, c.models[i].name) = i
  /\ \A c, d \in Contents : \A n \in Name :
       find_model(d, n) # NoModel =>
         \/ canonical_model_name(c, n) = canonical_model_name(d, n)
         \/ /\ find_model(c, n) = NoModel
            /\ \A t \in DOMAIN c.tokens : n \notin EffectiveModels(c, t)

Since(r) == call[r].arrived..InForce

\* The endpoint is one of a model the token had access to.
Served(r) ==
  \E v, w \in Since(r) : \E i \in DOMAIN versions[w].models :
    /\ call[r].endpoint \in versions[w].models[i].endpoints
    /\ token_has_model_access(versions[v], call[r].token, versions[w].models[i].name)

\* One configuration would have refused the request.
Refusable(r) ==
  \E v \in Since(r) : ~Servable(versions[v], call[r].token, call[r].wanted)

(* README.md line 15, "access control": a request is sent with the key of   *)
(* an endpoint only if, under configurations in force since it arrived, the *)
(* endpoint was one of a model and its token had access to this model,      *)
(* whatever was reloaded between authentication, access check, selection    *)
(* and each retry.  A token revoked before the request arrived reaches      *)
(* nothing.                                                                 *)
ServedModelGranted ==
  Unambiguous => \A r \in Request : pc[r] = "picked" => Served(r)

(* Reloading refuses no one for nothing: a request is refused for its token *)
(* or its model only if some single configuration in force since it arrived *)
(* would have refused it, or served no such model.                          *)
RefusalExplained ==
  Unambiguous =>
    \A r \in Request :
      call[r].reply \in {"unauthorized", "forbidden", "no_endpoint"} => Refusable(r)

(* README.md line 17, "edit config.yaml and changes apply": a file that can *)
(* be loaded comes into force, unless it is changed again before, however   *)
(* its changes fall between the steps of the reload.                        *)
ReloadSettles ==
  \A c \in Contents : Valid(c) => (file = c ~> versions[InForce] = c \/ file # c)
=============================================================================
