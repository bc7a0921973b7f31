---------------------------- MODULE AccessProofs ----------------------------
(* Theorems about AccessControl: its types, and that access is granted and *)
(* refused as configurations in force say, for every set of files that     *)
(* agree on the meaning of names and any number of requests and edits.     *)
EXTENDS AccessControl, SequenceTheorems, WellFoundedInduction, TLAPS

-----------------------------------------------------------------------------
(* Looking names up. *)

LEMMA LeastElement ==
  ASSUME NEW S \in SUBSET Nat, S # {}
  PROVE  Min(S) \in S
<1>1. IsWellFoundedOn(OpToRel(<, Nat), Nat)
  BY NatLessThanWellFounded
<1>2. PICK o \in S : \A p \in S : <<p, o>> \notin OpToRel(<, Nat)
  BY <1>1, WFMin
<1>3. \A p \in S : ~(p < o)
  BY <1>2 DEF OpToRel
<1>4. \A p \in S : o <= p
  BY <1>3
<1>5. QED
  BY <1>4 DEF Min

(* A model that is found is in the list, and has the name or the alias; a  *)
(* name of a model in the list is always found.                            *)
LEMMA FoundModel ==
  ASSUME NEW c \in Contents, NEW n
  PROVE  /\ find_model(c, n) # NoModel =>
              /\ find_model(c, n) \in DOMAIN c.models
              /\ c.models[find_model(c, n)] \in Models
              /\ canonical_model_name(c, n) = c.models[find_model(c, n)].name
              /\ canonical_model_name(c, n) \in Name
         /\ find_model(c, n) = NoModel => canonical_model_name(c, n) = n
<1> DEFINE hits == {i \in DOMAIN c.models : n = c.models[i].name \/ n \in c.models[i].aliases}
<1>1. c.models \in Seq(Models)
  BY AccessAssumption DEF Configs
<1>2. DOMAIN c.models = 1..Len(c.models) /\ Len(c.models) \in Nat
  BY <1>1
<1>3. hits \in SUBSET Nat /\ hits \subseteq DOMAIN c.models
  BY <1>2
<1>4. find_model(c, n) = IF hits = {} THEN NoModel ELSE Min(hits)
  BY DEF find_model
<1>5. CASE hits = {}
  BY <1>4, <1>5 DEF canonical_model_name
<1>6. CASE hits # {}
  <2>1. find_model(c, n) \in DOMAIN c.models
    BY <1>3, <1>4, <1>6, LeastElement
  <2>2. c.models[find_model(c, n)] \in Models
    BY <1>1, <1>2, <2>1
  <2>3. find_model(c, n) # NoModel
    BY <1>2, <2>1 DEF NoModel
  <2>4. QED
    BY <2>1, <2>2, <2>3 DEF canonical_model_name, Models
<1>7. QED
  BY <1>5, <1>6

(* Where names agree, a model's name is its own canonical name.            *)
LEMMA CanonicalIsStable ==
  ASSUME Unambiguous, NEW c \in Contents, NEW n, find_model(c, n) # NoModel
  PROVE  LET m == canonical_model_name(c, n)
         IN  find_model(c, m) # NoModel /\ canonical_model_name(c, m) = m
<1> DEFINE i == find_model(c, n)
           m == canonical_model_name(c, n)
<1>1. i \in DOMAIN c.models /\ m = c.models[i].name
  BY FoundModel
<1>2. find_model(c, m) = i
  BY <1>1 DEF Unambiguous
<1>3. QED
  BY <1>1, <1>2 DEF canonical_model_name

(* A request admitted under c is served under d, if at all, by the model of *)
(* the name access was granted to, or by one its token has access to too.  *)
LEMMA AgreedName ==
  ASSUME Unambiguous, NEW c \in Contents, NEW d \in Contents,
         NEW n \in Name, NEW t, NEW m, m = canonical_model_name(c, n),
         token_has_model_access(c, t, m), find_model(d, m) # NoModel
  PROVE  token_has_model_access(c, t, canonical_model_name(d, m))
<1>1. m \in Name
  BY FoundModel
<1>2. CASE canonical_model_name(c, m) = canonical_model_name(d, m)
  <2>1. canonical_model_name(c, m) = m
    <3>1. CASE find_model(c, n) = NoModel
      <4>1. m = n
        BY <3>1, FoundModel
      <4>2. QED
        BY <4>1, m = canonical_model_name(c, n)
    <3>2. CASE find_model(c, n) # NoModel
      BY <3>2, CanonicalIsStable
    <3>3. QED
      BY <3>1, <3>2
  <2>2. QED
    BY <1>2, <2>1
<1>3. CASE \A s \in DOMAIN c.tokens : m \notin EffectiveModels(c, s)
  <2>1. Wildcard \in EffectiveModels(c, t) /\ t \in DOMAIN c.tokens
    BY <1>3 DEF token_has_model_access
  <2>2. QED
    BY <2>1 DEF token_has_model_access
<1>4. QED
  BY <1>1, <1>2, <1>3 DEF Unambiguous

-----------------------------------------------------------------------------
(* Types, and the validation every configuration in force has passed. *)

LoadedInv ==
  /\ Valid(loaded)
  /\ \A v \in DOMAIN versions : Valid(versions[v])

\* All of TypeOK but the teams, which LoadedInv implies.
Types ==
  /\ file \in Contents \cup {Broken}
  /\ edits \in 0..MaxEdits /\ pending \in 0..MaxEdits
  /\ reloader \in {"waiting", "sleeping", "storing"}
  /\ loaded \in Contents
  /\ versions \in Seq(Contents) /\ versions # <<>>
  /\ pc \in [Request -> Points]
  /\ call \in [Request -> Calls]

\* Which requests name a model, and which configurations they can hold.
Holds(r) ==
  /\ ~call[r].generic => call[r].wanted # NoName
  /\ pc[r] # "idle" => call[r].arrived \in 1..InForce
  /\ pc[r] \in {"loaded", "admitted", "picked", "retry"} =>
       call[r].config \in call[r].arrived..InForce /\ call[r].config \in 1..InForce

HoldsInv == \A r \in Request : Holds(r)

\* No event outlives its edit uncounted: what bounds the pending ones.
TypeInv == Types /\ LoadedInv /\ pending <= edits

LEMMA InitTypes == Init => TypeInv
<1> SUFFICES ASSUME Init PROVE TypeInv
  OBVIOUS
<1>1. call \in [Request -> Calls]
  <2>1. \A a \in Requests :
          [token |-> a.token, wanted |-> a.wanted, generic |-> a.generic,
           arrived |-> 1, config |-> 1, model |-> NoName, endpoint |-> NoEndpoint,
           reply |-> NoReply] \in Calls
    BY DEF Requests, Calls, Replies
  <2>2. QED
    BY <2>1 DEF Init
<1>2. MaxEdits \in Nat
  BY AccessAssumption
<1>3. QED
  BY <1>1, <1>2 DEF Init, TypeInv, Types, LoadedInv, Points

\* The steps of a file and its reload.
LEMMA WatcherTypes ==
  ASSUME TypeInv, (\E c \in Contents \cup {Broken} : Edit(c)) \/ Receive \/ Load \/ Store
  PROVE  TypeInv'
<1> USE DEF TypeInv
<1>1. CASE \E c \in Contents \cup {Broken} : Edit(c)
  BY <1>1, AccessAssumption DEF Edit, notify, Types, LoadedInv
<1>2. CASE Receive
  BY <1>2, AccessAssumption DEF Receive, Types, LoadedInv
<1>3. CASE Load
  BY <1>3 DEF Load, Types, LoadedInv, Valid
<1>4. CASE Store
  <2>1. /\ versions' \in Seq(Contents) /\ versions' # <<>>
        /\ \A v \in DOMAIN versions' : Valid(versions'[v])
    BY <1>4 DEF Store, Types, LoadedInv
  <2>2. QED
    BY <1>4, <2>1 DEF Store, Types, LoadedInv
<1>5. QED
  BY <1>1, <1>2, <1>3, <1>4

\* The steps of a request.
Handle(r) ==
  \/ Authenticate(r) \/ Admit(r) \/ LoadConfig(r) \/ AdmitGeneric(r)
  \/ FollowBinding(r) \/ Select(r) \/ Finish(r) \/ Retry(r)

LEMMA ReplyTypes ==
  ASSUME Types, NEW r \in Request, NEW reply \in Replies, Reply(r, reply)
  PROVE  pc' \in [Request -> Points] /\ call' \in [Request -> Calls]
<1>1. [call[r] EXCEPT !.reply = reply] \in Calls
  BY DEF Types, Calls
<1>2. QED
  BY <1>1 DEF Types, Reply, GoTo, Points

LEMMA CheckAccessTypes ==
  ASSUME Types, NEW r \in Request, NEW v \in DOMAIN versions, NEW n \in Name, CheckAccess(r, v, n)
  PROVE  pc' \in [Request -> Points] /\ call' \in [Request -> Calls]
<1> DEFINE m == canonical_model_name(versions[v], n)
           granted == token_has_model_access(versions[v], call[r].token, m)
<1>1. versions[v] \in Contents /\ v \in Nat
  BY DEF Types
<1>2. m \in Name
  BY <1>1, FoundModel
<1> HIDE DEF m, granted
<1>3. /\ pc' = [pc EXCEPT ![r] = IF granted THEN "admitted" ELSE "done"]
      /\ call' = [call EXCEPT ![r].config = v, ![r].wanted = n, ![r].model = m,
                              ![r].reply = IF granted THEN @ ELSE "forbidden"]
  BY DEF CheckAccess, GoTo, m, granted
<1>4. call'[r] \in Calls
  BY <1>1, <1>2, <1>3 DEF Types, Calls, Replies
<1>5. QED
  BY <1>3, <1>4 DEF Types, Points

LEMMA PickTypes ==
  ASSUME Types, NEW r \in Request, NEW v \in DOMAIN versions, Pick(r, v)
  PROVE  pc' \in [Request -> Points] /\ call' \in [Request -> Calls]
<1>1. versions[v] \in Contents
  BY DEF Types
<1>2. PICK e \in Offered(r, v) : call' = [call EXCEPT ![r].endpoint = e]
  BY DEF Pick
<1>3. e \in Endpoint
  BY <1>1, <1>2, FoundModel DEF Offered, Models
<1>4. [call[r] EXCEPT !.endpoint = e] \in Calls
  BY <1>3 DEF Types, Calls
<1>5. QED
  BY <1>2, <1>4 DEF Types, Pick, GoTo, Points

LEMMA ListedName ==
  ASSUME Types, NEW r \in Request, call[r].config \in DOMAIN versions,
         NEW i \in DOMAIN Config(r).models
  PROVE  Config(r).models[i].name \in Name
<1> DEFINE models == Config(r).models
<1>1. models \in Seq(Models) /\ i \in DOMAIN models
  BY AccessAssumption DEF Config, Configs, Types
<1>2. models[i] \in Models
  <2> HIDE DEF models
  <2>1. QED
    BY <1>1
<1>3. QED
  BY <1>2 DEF Models

LEMMA HandleTypes ==
  ASSUME TypeInv, NEW r \in Request, Handle(r), HoldsInv
  PROVE  TypeInv'
<1>1. Types
  BY DEF TypeInv
<1>2. /\ versions \in Seq(Contents) /\ InForce \in DOMAIN versions /\ InForce \in Nat
      /\ InForce = Len(versions) /\ DOMAIN versions = 1..InForce
  BY <1>1 DEF Types, InForce
<1>3. UNCHANGED <<watcherVars, versions>>
  BY DEF Handle, Authenticate, Admit, LoadConfig, AdmitGeneric, FollowBinding, Select, Finish, Retry
<1>4. pc' \in [Request -> Points] /\ call' \in [Request -> Calls]
  <2>1. CASE Authenticate(r)
    <3>1. call'[r] \in Calls
      BY <1>1, <1>2, <2>1 DEF Authenticate, Types, Calls, Replies
    <3>2. QED
      BY <1>1, <2>1, <3>1 DEF Authenticate, GoTo, Types, Points
  <2>2. CASE Admit(r)
    <3>1. call[r].wanted \in Name
      BY <1>1, <2>2 DEF Admit, Types, Calls, HoldsInv, Holds
    <3>2. QED
      BY <1>1, <1>2, <2>2, <3>1, CheckAccessTypes DEF Admit
  <2>3. CASE LoadConfig(r)
    <3>1. call'[r] \in Calls
      BY <1>1, <1>2, <2>3 DEF LoadConfig, Types, Calls
    <3>2. QED
      BY <1>1, <2>3, <3>1 DEF LoadConfig, GoTo, Types, Points
  <2>4. CASE AdmitGeneric(r)
    <3>1. call[r].config \in DOMAIN versions
      BY <2>4, <1>2 DEF AdmitGeneric, HoldsInv, Holds
    <3>2. CASE call[r].wanted # NoName /\ CheckAccess(r, call[r].config, call[r].wanted)
      <4>1. call[r].wanted \in Name
        BY <1>1, <3>2 DEF Types, Calls
      <4>2. QED
        BY <1>1, <3>1, <3>2, <4>1, CheckAccessTypes
    <3>3. CASE \E i \in DOMAIN Config(r).models :
                 CheckAccess(r, call[r].config, Config(r).models[i].name)
      <4>1. PICK i \in DOMAIN Config(r).models :
              CheckAccess(r, call[r].config, Config(r).models[i].name)
        BY <3>3
      <4>2. Config(r).models[i].name \in Name
        BY <1>1, <3>1, <4>1, ListedName
      <4>3. QED
        BY <1>1, <3>1, <4>1, <4>2, CheckAccessTypes
    <3>4. CASE Reply(r, "no_models")
      BY <1>1, <3>4, ReplyTypes DEF Replies
    <3>5. QED
      BY <2>4, <3>2, <3>3, <3>4 DEF AdmitGeneric
  <2>5. CASE FollowBinding(r)
    <3>1. call[r].config \in DOMAIN versions
      BY <2>5, <1>2 DEF FollowBinding, HoldsInv, Holds
    <3>2. QED
      BY <1>1, <2>5, <3>1, PickTypes DEF FollowBinding
  <2>6. CASE Select(r)
    BY <1>1, <1>2, <2>6, PickTypes, ReplyTypes DEF Select, Replies
  <2>7. CASE Finish(r)
    BY <1>1, <2>7, ReplyTypes DEF Finish, Replies
  <2>8. CASE Retry(r)
    BY <1>1, <2>8 DEF Retry, GoTo, Types, Points
  <2>9. QED
    BY <2>1, <2>2, <2>3, <2>4, <2>5, <2>6, <2>7, <2>8 DEF Handle
<1>5. QED
  BY <1>1, <1>3, <1>4 DEF TypeInv, Types, LoadedInv, watcherVars

-----------------------------------------------------------------------------
(* What requests hold, and what they were granted or refused. *)

\* A request that was let in has access under the configuration it holds.
Admitted(r) ==
  /\ call[r].wanted \in Name
  /\ call[r].model = canonical_model_name(Config(r), call[r].wanted)
  /\ token_has_model_access(Config(r), call[r].token, call[r].model)

Refusals == {"unauthorized", "forbidden", "no_endpoint"}

Explained(r) ==
  /\ call[r].reply # NoReply => pc[r] = "done"
  /\ pc[r] \in {"admitted", "picked", "retry"} => Admitted(r)
  /\ pc[r] = "picked" => (Unambiguous => Served(r))
  /\ call[r].reply \in Refusals => pc[r] = "done" /\ (Unambiguous => Refusable(r))

RequestInv == \A r \in Request : Explained(r)

AccessInv == TypeInv /\ HoldsInv /\ RequestInv

LEMMA InitHolds == Init => HoldsInv /\ RequestInv
<1> SUFFICES ASSUME Init, NEW r \in Request
    PROVE  /\ ~call[r].generic => call[r].wanted # NoName
           /\ pc[r] = "idle" /\ call[r].reply = NoReply
  BY DEF HoldsInv, Holds, RequestInv, Explained, NoReply, Refusals
<1>1. QED
  BY DEF Init, Requests

\* More configurations change nothing for what requests already hold.
LEMMA StoreHolds ==
  ASSUME TypeInv, HoldsInv, RequestInv, Store
  PROVE  HoldsInv' /\ RequestInv'
<1>1. /\ versions \in Seq(Contents) /\ loaded \in Contents
      /\ versions' = Append(versions, loaded)
      /\ pc' = pc /\ call' = call
  BY DEF TypeInv, Types, Store
<1>2. /\ InForce' = InForce + 1 /\ InForce \in Nat
      /\ \A v \in 1..InForce : versions'[v] = versions[v]
  BY <1>1 DEF InForce
<1>3. ASSUME NEW r \in Request, pc[r] # "idle"
      PROVE  /\ \A v \in Since(r) : v \in Since(r)' /\ versions'[v] = versions[v]
             /\ call[r].arrived \in 1..InForce'
  <2>1. call[r].arrived \in 1..InForce
    BY <1>3 DEF HoldsInv, Holds
  <2>2. Since(r) = call[r].arrived..InForce /\ Since(r)' = call[r].arrived..(InForce + 1)
    BY <1>1, <1>2 DEF Since
  <2>3. call[r].arrived \in Nat
    BY <1>2, <2>1
  <2>4. QED
    BY <1>2, <2>1, <2>2, <2>3
<1>4. HoldsInv'
  BY <1>1, <1>2 DEF HoldsInv, Holds
<1>5. ASSUME NEW r \in Request
      PROVE  Explained(r)'
  <2>1. pc[r] \in {"admitted", "picked", "retry"} => Admitted(r)'
    <3>1. pc[r] \in {"admitted", "picked", "retry"} => Config(r)' = Config(r)
      BY <1>1, <1>2 DEF HoldsInv, Holds, Config
    <3>2. QED
      BY <1>1, <3>1 DEF RequestInv, Explained, Admitted
  <2>2. pc[r] = "picked" => (Unambiguous => Served(r)')
    <3>1. SUFFICES ASSUME pc[r] = "picked", Unambiguous PROVE Served(r)'
      OBVIOUS
    <3>2. PICK v \in Since(r), w \in Since(r) : \E i \in DOMAIN versions[w].models :
            /\ call[r].endpoint \in versions[w].models[i].endpoints
            /\ token_has_model_access(versions[v], call[r].token, versions[w].models[i].name)
      BY <3>1 DEF RequestInv, Explained, Served
    <3>3. /\ v \in Since(r)' /\ versions'[v] = versions[v]
          /\ w \in Since(r)' /\ versions'[w] = versions[w]
      BY <1>3, <3>1, <3>2
    <3>4. QED
      BY <1>1, <3>2, <3>3 DEF Served
  <2>3. call[r].reply \in Refusals =>
          pc[r] = "done" /\ (Unambiguous => Refusable(r)')
    BY <1>1, <1>3 DEF RequestInv, Explained, Refusable
  <2>4. QED
    BY <1>1, <2>1, <2>2, <2>3 DEF RequestInv, Explained
<1>6. QED
  BY <1>4, <1>5 DEF RequestInv

\* A step of one request leaves the others alone.
Elsewhere(r) == \A q \in Request \ {r} : pc'[q] = pc[q] /\ call'[q] = call[q]

LEMMA ReplyHolds ==
  ASSUME TypeInv, HoldsInv, RequestInv, NEW r \in Request, NEW reply, Reply(r, reply),
         pc[r] # "idle", versions' = versions, reply \in Refusals => (Unambiguous => Refusable(r))
  PROVE  Elsewhere(r) /\ Holds(r)' /\ Explained(r)'
<1>1. /\ pc' = [pc EXCEPT ![r] = "done"]
      /\ call' = [call EXCEPT ![r].reply = reply]
      /\ pc \in [Request -> Points] /\ call \in [Request -> Calls]
  BY DEF Reply, GoTo, TypeInv, Types
<1>2. /\ pc'[r] = "done" /\ call'[r] = [call[r] EXCEPT !.reply = reply]
      /\ Elsewhere(r)
  BY <1>1 DEF Elsewhere
<1>3. /\ call'[r].reply = reply /\ call'[r].generic = call[r].generic
      /\ call'[r].wanted = call[r].wanted /\ call'[r].token = call[r].token
      /\ call'[r].arrived = call[r].arrived
  BY <1>1, <1>2 DEF Calls
<1>4. InForce' = InForce
  BY DEF InForce
<1>5. Holds(r)'
  BY <1>2, <1>3, <1>4 DEF HoldsInv, Holds
<1>6. Refusable(r) => Refusable(r)'
  BY <1>3, <1>4 DEF Refusable, Since
<1>7. QED
  BY <1>2, <1>3, <1>5, <1>6 DEF Explained

LEMMA CheckAccessHolds ==
  ASSUME TypeInv, HoldsInv, RequestInv, NEW r \in Request,
         NEW v \in call[r].arrived..InForce, NEW n \in Name, CheckAccess(r, v, n),
         pc[r] \in {"authenticated", "loaded"}, versions' = versions
  PROVE  Elsewhere(r) /\ Holds(r)' /\ Explained(r)'
<1> DEFINE m == canonical_model_name(versions[v], n)
           granted == token_has_model_access(versions[v], call[r].token, m)
<1>1. /\ pc' = [pc EXCEPT ![r] = IF granted THEN "admitted" ELSE "done"]
      /\ call' = [call EXCEPT ![r].config = v, ![r].wanted = n, ![r].model = m,
                              ![r].reply = IF granted THEN @ ELSE "forbidden"]
      /\ pc \in [Request -> Points] /\ call \in [Request -> Calls]
  BY DEF CheckAccess, GoTo, TypeInv, Types
<1>2. m = canonical_model_name(versions[v], n)
  OBVIOUS
<1>3. granted = token_has_model_access(versions[v], call[r].token, m)
  OBVIOUS
<1> HIDE DEF m, granted
<1>4. call[r].reply = NoReply
  BY DEF RequestInv, Explained
<1>5. /\ pc'[r] = IF granted THEN "admitted" ELSE "done"
      /\ call'[r].config = v /\ call'[r].wanted = n /\ call'[r].model = m
      /\ call'[r].reply = IF granted THEN NoReply ELSE "forbidden"
      /\ call'[r].generic = call[r].generic /\ call'[r].token = call[r].token
      /\ call'[r].arrived = call[r].arrived
      /\ Elsewhere(r)
  BY <1>1, <1>4 DEF Calls, Elsewhere
<1>6. /\ InForce' = InForce /\ InForce \in Nat
      /\ call[r].arrived \in 1..InForce /\ v \in 1..InForce
      /\ Since(r)' = call[r].arrived..InForce
  <2>1. InForce' = InForce /\ InForce \in Nat
    BY DEF InForce, TypeInv, Types
  <2>2. call[r].arrived \in 1..InForce
    BY DEF HoldsInv, Holds
  <2>3. QED
    BY <1>5, <2>1, <2>2 DEF Since
<1>7. Holds(r)'
  BY <1>5, <1>6, AccessAssumption DEF Holds
<1>8. CASE granted
  <2>1. Config(r)' = versions[v]
    BY <1>5 DEF Config
  <2>2. Admitted(r)'
    BY <1>2, <1>3, <1>5, <1>8, <2>1 DEF Admitted
  <2>3. QED
    BY <1>5, <1>7, <1>8, <2>2 DEF Explained, Refusals, NoReply
<1>9. CASE ~granted
  <2>1. ~Servable(versions[v], call[r].token, n)
    BY <1>2, <1>3, <1>9 DEF Servable
  <2>2. Refusable(r)'
    BY <1>5, <1>6, <2>1 DEF Refusable
  <2>3. QED
    BY <1>5, <1>7, <1>9, <2>2 DEF Explained
<1>10. QED
  BY <1>8, <1>9

(* The step the types and the guards do not explain: an endpoint offered by *)
(* a later configuration is still one of a model the token has access to.  *)
LEMMA PickHolds ==
  ASSUME TypeInv, HoldsInv, RequestInv, NEW r \in Request,
         NEW v \in call[r].config..InForce, Pick(r, v),
         pc[r] \in {"admitted", "retry"}, versions' = versions
  PROVE  Elsewhere(r) /\ Holds(r)' /\ Explained(r)'
<1>1. PICK e \in Offered(r, v) : call' = [call EXCEPT ![r].endpoint = e]
  BY DEF Pick
<1>2. /\ pc' = [pc EXCEPT ![r] = "picked"]
      /\ pc \in [Request -> Points] /\ call \in [Request -> Calls]
  BY DEF Pick, GoTo, TypeInv, Types
<1>3. /\ pc'[r] = "picked" /\ call'[r].endpoint = e
      /\ call'[r].config = call[r].config /\ call'[r].wanted = call[r].wanted
      /\ call'[r].model = call[r].model /\ call'[r].token = call[r].token
      /\ call'[r].generic = call[r].generic /\ call'[r].reply = call[r].reply
      /\ call'[r].arrived = call[r].arrived
      /\ Elsewhere(r)
  BY <1>1, <1>2 DEF Calls, Elsewhere
<1>4. /\ InForce \in Nat /\ DOMAIN versions = 1..InForce
      /\ call[r].arrived \in 1..InForce
      /\ call[r].config \in call[r].arrived..InForce /\ call[r].config \in 1..InForce
  BY DEF HoldsInv, Holds, InForce, TypeInv, Types
<1>5. /\ v \in 1..InForce
      /\ v \in call[r].arrived..InForce
      /\ InForce' = InForce /\ Since(r)' = call[r].arrived..InForce
  BY <1>3, <1>4 DEF InForce, Since
<1> DEFINE c == versions[call[r].config]
           d == versions[v]
           i == find_model(d, call[r].model)
<1>6. c \in Contents /\ d \in Contents
  BY <1>4, <1>5 DEF TypeInv, Types
<1>7. /\ call[r].wanted \in Name
      /\ call[r].model = canonical_model_name(c, call[r].wanted)
      /\ token_has_model_access(c, call[r].token, call[r].model)
      /\ call[r].reply = NoReply
  BY DEF RequestInv, Explained, Admitted, Config
<1>8. i # NoModel /\ e \in d.models[i].endpoints
  BY <1>1 DEF Offered
<1>9. /\ i \in DOMAIN d.models
      /\ canonical_model_name(d, call[r].model) = d.models[i].name
  BY <1>6, <1>8, FoundModel
<1>10. Unambiguous => token_has_model_access(c, call[r].token, d.models[i].name)
  BY <1>6, <1>7, <1>8, <1>9, AgreedName
<1>11. Unambiguous => Served(r)'
  <2> HIDE DEF i
  <2>1. QED
    BY <1>3, <1>4, <1>5, <1>8, <1>9, <1>10 DEF Served
<1>12. Admitted(r)'
  BY <1>3, <1>7 DEF Admitted, Config
<1>13. Holds(r)'
  BY <1>3, <1>4, <1>5 DEF Holds, HoldsInv
<1>14. QED
  BY <1>3, <1>7, <1>11, <1>12, <1>13 DEF Explained, Refusals, NoReply

(* A request told that no endpoint serves its model would not have been    *)
(* served under the configuration it was let in by, or under the present.  *)
LEMMA NothingOffered ==
  ASSUME Unambiguous, TypeInv, HoldsInv, RequestInv, NEW r \in Request,
         pc[r] = "admitted", Offered(r, InForce) = {}
  PROVE  Refusable(r)
<1> DEFINE c == Config(r)
           d == versions[InForce]
           n == call[r].wanted
           m == call[r].model
<1>1. /\ InForce \in Nat /\ DOMAIN versions = 1..InForce /\ InForce \in DOMAIN versions
      /\ call[r].arrived \in 1..InForce /\ call[r].config \in 1..InForce
      /\ call[r].config \in Since(r) /\ InForce \in Since(r)
  BY DEF HoldsInv, Holds, InForce, Since, TypeInv, Types
<1>2. c \in Contents /\ d \in Contents
  BY <1>1 DEF Config, TypeInv, Types
<1>3. n \in Name /\ m = canonical_model_name(c, n)
  BY DEF RequestInv, Explained, Admitted
<1>4. CASE find_model(c, n) = NoModel \/ find_model(d, n) = NoModel
  <2>1. ~Servable(c, call[r].token, n) \/ ~Servable(d, call[r].token, n)
    BY <1>4 DEF Servable
  <2>2. QED
    BY <1>1, <2>1 DEF Refusable, Config
<1>5. CASE find_model(c, n) # NoModel /\ find_model(d, n) # NoModel
  <2>1. m = canonical_model_name(d, n)
    BY <1>2, <1>3, <1>5 DEF Unambiguous
  <2>2. find_model(d, m) # NoModel
    BY <1>2, <1>5, <2>1, CanonicalIsStable
  <2>3. Offered(r, InForce) = d.models[find_model(d, m)].endpoints
    BY <2>2 DEF Offered
  <2>4. find_model(d, m) \in DOMAIN d.models
    BY <1>2, <2>2, FoundModel
  <2>5. Valid(d)
    BY <1>1 DEF TypeInv, LoadedInv
  <2>6. d.models[find_model(d, m)].endpoints # {}
    BY <2>4, <2>5 DEF Valid
  <2>7. QED
    BY <2>3, <2>6
<1>6. QED
  BY <1>4, <1>5

LEMMA HandleHolds ==
  ASSUME TypeInv, HoldsInv, RequestInv, NEW r \in Request, Handle(r)
  PROVE  HoldsInv' /\ RequestInv'
<1>1. /\ InForce \in Nat /\ InForce \in 1..InForce /\ DOMAIN versions = 1..InForce
      /\ pc \in [Request -> Points] /\ call \in [Request -> Calls]
  BY DEF InForce, TypeInv, Types
<1>2. versions' = versions /\ InForce' = InForce
  BY DEF Handle, Authenticate, Admit, LoadConfig, AdmitGeneric, FollowBinding, Select, Finish, Retry, InForce
<1>3. pc[r] # "idle" => call[r].arrived \in 1..InForce /\ InForce \in call[r].arrived..InForce
  BY <1>1 DEF HoldsInv, Holds
<1>4. pc[r] \in {"loaded", "admitted", "picked", "retry"} =>
        /\ call[r].config \in call[r].arrived..InForce /\ call[r].config \in 1..InForce
        /\ InForce \in call[r].config..InForce
        /\ call[r].config \in call[r].config..InForce
  BY <1>1 DEF HoldsInv, Holds
<1>5. Elsewhere(r) /\ Holds(r)' /\ Explained(r)'
  <2>1. CASE Authenticate(r)
    <3> DEFINE known == call[r].token \in DOMAIN versions[InForce].tokens
    <3>1. call[r].reply = NoReply
      BY <2>1 DEF Authenticate, RequestInv, Explained
    <3>2. /\ pc' = [pc EXCEPT ![r] = IF known THEN "authenticated" ELSE "done"]
          /\ call' = [call EXCEPT ![r].arrived = InForce,
                                  ![r].reply = IF known THEN @ ELSE "unauthorized"]
      BY <2>1 DEF Authenticate, GoTo
    <3>3. ~known => ~Servable(versions[InForce], call[r].token, call[r].wanted)
      BY DEF Servable, token_has_model_access
    <3> HIDE DEF known
    <3>4. /\ pc'[r] = IF known THEN "authenticated" ELSE "done"
          /\ call'[r].reply = IF known THEN NoReply ELSE "unauthorized"
          /\ call'[r].arrived = InForce /\ call'[r].generic = call[r].generic
          /\ call'[r].wanted = call[r].wanted /\ call'[r].token = call[r].token
          /\ Elsewhere(r)
      BY <1>1, <3>1, <3>2 DEF Calls, Elsewhere
    <3>5. InForce \in Since(r)'
      BY <1>1, <1>2, <3>4 DEF Since
    <3>6. ~known => Refusable(r)'
      BY <1>2, <3>3, <3>4, <3>5 DEF Refusable
    <3>7. Holds(r)'
      BY <1>1, <1>2, <3>4 DEF HoldsInv, Holds
    <3>8. QED
      BY <3>4, <3>6, <3>7 DEF Explained, Refusals, NoReply
  <2>2. CASE Admit(r)
    <3>1. call[r].wanted \in Name
      BY <1>1, <2>2 DEF Admit, Calls, HoldsInv, Holds
    <3>2. QED
      BY <1>2, <1>3, <2>2, <3>1, CheckAccessHolds DEF Admit
  <2>3. CASE LoadConfig(r)
    <3>1. /\ pc'[r] = "loaded" /\ call'[r].config = InForce
          /\ call'[r].arrived = call[r].arrived /\ call'[r].reply = call[r].reply
          /\ call'[r].generic = call[r].generic /\ call'[r].wanted = call[r].wanted
          /\ Elsewhere(r)
      BY <1>1, <2>3 DEF LoadConfig, GoTo, Calls, Elsewhere
    <3>2. call[r].reply = NoReply
      BY <2>3 DEF LoadConfig, RequestInv, Explained
    <3>3. Holds(r)'
      BY <1>1, <1>2, <1>3, <2>3, <3>1 DEF LoadConfig, HoldsInv, Holds
    <3>4. QED
      BY <3>1, <3>2, <3>3 DEF Explained, Refusals, NoReply
  <2>4. CASE AdmitGeneric(r)
    <3>1. CASE call[r].wanted # NoName /\ CheckAccess(r, call[r].config, call[r].wanted)
      <4>1. call[r].wanted \in Name
        BY <1>1, <3>1 DEF Calls
      <4>2. QED
        BY <1>2, <1>4, <2>4, <3>1, <4>1, CheckAccessHolds DEF AdmitGeneric
    <3>2. CASE \E i \in DOMAIN Config(r).models :
                 CheckAccess(r, call[r].config, Config(r).models[i].name)
      <4>1. PICK i \in DOMAIN Config(r).models :
              CheckAccess(r, call[r].config, Config(r).models[i].name)
        BY <3>2
      <4>2. Config(r).models[i].name \in Name
        BY <1>1, <1>4, <2>4, <4>1, ListedName DEF AdmitGeneric, TypeInv
      <4>3. QED
        BY <1>2, <1>4, <2>4, <4>1, <4>2, CheckAccessHolds DEF AdmitGeneric
    <3>3. CASE Reply(r, "no_models")
      BY <1>2, <2>4, <3>3, ReplyHolds DEF AdmitGeneric, Refusals
    <3>4. QED
      BY <2>4, <3>1, <3>2, <3>3 DEF AdmitGeneric
  <2>5. CASE FollowBinding(r)
    BY <1>2, <1>4, <2>5, PickHolds DEF FollowBinding
  <2>6. CASE Select(r)
    <3>1. CASE Pick(r, InForce)
      BY <1>2, <1>4, <2>6, <3>1, PickHolds DEF Select
    <3>2. CASE pc[r] = "admitted" /\ Offered(r, InForce) = {} /\ Reply(r, "no_endpoint")
      BY <1>2, <3>2, NothingOffered, ReplyHolds
    <3>3. CASE \E reply \in Replies \ Refusals : Reply(r, reply)
      BY <1>2, <2>6, <3>3, ReplyHolds DEF Select
    <3>4. QED
      BY <2>6, <3>1, <3>2, <3>3 DEF Select, Replies, Refusals
  <2>7. CASE Finish(r)
    <3>1. \E reply \in Replies \ Refusals : Reply(r, reply)
      BY <2>7 DEF Finish, Replies, Refusals
    <3>2. QED
      BY <1>2, <2>7, <3>1, ReplyHolds DEF Finish
  <2>8. CASE Retry(r)
    <3>1. pc'[r] = "retry" /\ call' = call /\ Elsewhere(r)
      BY <1>1, <2>8 DEF Retry, GoTo, Elsewhere
    <3>2. Admitted(r)'
      BY <1>2, <2>8, <3>1 DEF Retry, RequestInv, Explained, Admitted, Config
    <3>3. call[r].reply = NoReply
      BY <2>8 DEF Retry, RequestInv, Explained
    <3>4. Holds(r)'
      BY <1>2, <2>8, <3>1 DEF Retry, HoldsInv, Holds
    <3>5. QED
      BY <3>1, <3>2, <3>3, <3>4 DEF Explained, Refusals, NoReply
  <2>9. QED
    BY <2>1, <2>2, <2>3, <2>4, <2>5, <2>6, <2>7, <2>8 DEF Handle
<1>6. ASSUME NEW q \in Request \ {r}
      PROVE  Holds(q)' /\ Explained(q)'
  <2>1. pc'[q] = pc[q] /\ call'[q] = call[q]
    BY <1>5 DEF Elsewhere
  <2>2. Holds(q) /\ Explained(q)
    BY DEF HoldsInv, RequestInv
  <2>3. QED
    BY <1>2, <2>1, <2>2 DEF Holds, Explained, Admitted, Config, Served, Refusable, Since
<1>7. QED
  BY <1>5, <1>6 DEF HoldsInv, RequestInv

-----------------------------------------------------------------------------
(* The theorems. *)

LEMMA Inductive ==
  /\ Init => AccessInv
  /\ AccessInv /\ [Next]_vars => AccessInv'
<1>1. Init => AccessInv
  BY InitTypes, InitHolds DEF AccessInv
<1>2. ASSUME AccessInv, [Next]_vars
      PROVE  AccessInv'
  <2>1. TypeInv /\ HoldsInv /\ RequestInv
    BY <1>2 DEF AccessInv
  <2>2. CASE (\E c \in Contents \cup {Broken} : Edit(c)) \/ Receive \/ Load
    <3>1. UNCHANGED <<versions, pc, call>>
      BY <2>2 DEF Edit, Receive, Load
    <3>2. HoldsInv' /\ RequestInv'
      BY <2>1, <3>1
      DEF HoldsInv, Holds, RequestInv, Explained, Admitted, Served, Refusable, Since, Config, InForce
    <3>3. QED
      BY <2>1, <2>2, <3>2, WatcherTypes DEF AccessInv
  <2>3. CASE Store
    BY <2>1, <2>3, WatcherTypes, StoreHolds DEF AccessInv
  <2>4. CASE \E r \in Request : Handle(r)
    BY <2>1, <2>4, HandleTypes, HandleHolds DEF AccessInv
  <2>5. CASE UNCHANGED vars
    BY <2>1, <2>5
    DEF vars, watcherVars, AccessInv, TypeInv, Types, LoadedInv, HoldsInv, Holds, RequestInv,
        Explained, Admitted, Served, Refusable, Since, Config, InForce
  <2>6. QED
    BY <1>2, <2>2, <2>3, <2>4, <2>5 DEF Next, Handle
<1>3. QED
  BY <1>1, <1>2

LEMMA Invariance == Spec => []AccessInv
BY Inductive, PTL DEF Spec

(* The variables keep their types, and every configuration that comes into *)
(* force has passed the validation, however the file is edited.            *)
THEOREM TypeCorrect == Spec => []TypeOK
<1>1. AccessInv => TypeOK
  BY DEF AccessInv, TypeInv, Types, LoadedInv, Valid, TypeOK
<1>2. QED
  BY <1>1, Invariance, PTL

(* Whatever is reloaded while a request is on its way, it is only sent to  *)
(* an endpoint of a model that its token had access to.                    *)
THEOREM AccessIsGranted == Spec => []ServedModelGranted
<1>1. AccessInv => ServedModelGranted
  BY DEF AccessInv, RequestInv, Explained, ServedModelGranted
<1>2. QED
  BY <1>1, Invariance, PTL

(* A request is refused only if a configuration in force since it arrived  *)
(* would have refused it.                                                  *)
THEOREM RefusalsAreExplained == Spec => []RefusalExplained
<1>1. AccessInv => RefusalExplained
  BY DEF AccessInv, RequestInv, Explained, Refusals, RefusalExplained
<1>2. QED
  BY <1>1, Invariance, PTL
=============================================================================
