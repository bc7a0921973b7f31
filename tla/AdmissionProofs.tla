--------------------------- MODULE AdmissionProofs ---------------------------
(* Theorems about AdmissionHistory, for any models, tokens, teams and      *)
(* limits, and any number of requests in progress.                         *)
EXTENDS AdmissionHistory, RouterProofs

-----------------------------------------------------------------------------
(* What the configuration gives.                                           *)
LEMMA Totals ==
  ASSUME NEW m \in Model
  PROVE  Total(m) \in Nat /\ (Index(m) # {} => Total(m) \in Nat \ {0})
<1>1. Total(m) \in Nat
  BY RouterAssumption, LenProperties DEF Total
<1>2. QED
  BY <1>1 DEF Index

LEMMA LimitsOK ==
  ASSUME NEW t \in Token
  PROVE  /\ Configured(TeamLimits[TeamOf[t]]) \in [rpm : Nat, tpm : Nat]
         /\ EffectiveLimits(t) \in [rpm : Nat, tpm : Nat]
BY AdmissionAssumption DEF Configured, EffectiveLimits, NoLimits

LEMMA EndpointLimitsOK ==
  ASSUME NEW m \in Model, NEW i \in Index(m)
  PROVE  EndpointLimits[m][i + 1] \in [rpm : Nat, tpm : Nat]
<1>1. /\ EndpointLimits[m] \in Seq([rpm : Nat, tpm : Nat])
      /\ Len(EndpointLimits[m]) = Total(m)
  BY AdmissionAssumption
<1>2. i + 1 \in 1..Len(EndpointLimits[m])
  BY <1>1, Totals DEF Index
<1>3. QED
  BY <1>1, <1>2, ElementOfSeq

\* Requests whose endpoint is one of their model.
EndpointOK(c) == c.current # NoEndpoint => c.current \in Index(c.model)

\* The gate a request stands at is one it has limits for.
GateOK(c, gate) == gate = "endpoint" => c.current # NoEndpoint

LEMMA KeysOK ==
  ASSUME NEW c \in Calls, EndpointOK(c), NEW gate \in Gates, GateOK(c, gate)
  PROVE  /\ LimitsAt(c, gate) \in [rpm : Nat, tpm : Nat]
         /\ LimitsAt(c, gate).rpm > 0 => KeyAt(c, gate) \in Keys
<1>1. c.token \in Token /\ c.model \in Model
  BY DEF Calls
<1>2. CASE gate = "team"
  BY <1>1, <1>2, LimitsOK DEF LimitsAt, KeyAt, Keys
<1>3. CASE gate = "token"
  BY <1>1, <1>3, LimitsOK DEF LimitsAt, KeyAt, Keys
<1>4. CASE gate = "endpoint"
  <2>1. c.current \in Index(c.model)
    BY <1>4 DEF GateOK, EndpointOK
  <2>2. LimitsAt(c, gate) = EndpointLimits[c.model][c.current + 1]
    BY <1>4 DEF LimitsAt
  <2>3. KeyAt(c, gate) = EndpointKey(c.model, c.current)
    BY <1>4 DEF KeyAt
  <2>4. LimitsAt(c, gate).rpm > 0 => KeyAt(c, gate) \in Keys
    BY <1>1, <2>1, <2>2, <2>3 DEF Keys
  <2>5. QED
    BY <1>1, <2>1, <2>2, <2>4, EndpointLimitsOK
<1>5. QED
  BY <1>2, <1>3, <1>4 DEF Gates

LEMMA NoCallOK == NoCall \in Calls /\ EndpointOK(NoCall) /\ NoCall.current = NoEndpoint
BY AdmissionAssumption DEF NoCall, Calls, Kinds, Gates, EndpointOK

-----------------------------------------------------------------------------
(* A request, given where its handler stands and what it was counted under.*)

\* It was counted at a gate, if it has a limit of requests there.
Done(c, gate, keys) == LimitsAt(c, gate).rpm > 0 => KeyAt(c, gate) \in keys

CallInv(point, c, keys) ==
  /\ c \in Calls /\ EndpointOK(c)
  /\ point # "idle" =>
       /\ c.kind = "chat" => c.current # NoEndpoint
       /\ c.gate = "endpoint" => c.kind = "chat" /\ Done(c, "token", keys)
       /\ c.gate # "team" => Done(c, "team", keys)
       /\ point = "shared" => LimitsAt(c, c.gate).rpm > 0
       /\ point \in {"expire", "local", "sent"} => Done(c, c.gate, keys)
       /\ point = "expire" => KeyAt(c, c.gate) \in Keys
       /\ point = "next" => c.gate = "endpoint"
       /\ point = "sent" => c.gate = (IF c.kind = "chat" THEN "endpoint" ELSE "token")

\* The handlers, ...
HandlersInv ==
  /\ pc \in [Handler -> Points]
  /\ call \in [Handler -> Calls]
  /\ counted \in [Handler -> SUBSET Keys]
  /\ \A h \in Handler : CallInv(pc[h], call[h], counted[h])

\* ... and the counters in Redis: only the handler that has created a counter
\* can give it its time to live.
SharedInv ==
  /\ shared \in [Keys -> Nat]
  /\ expiring \subseteq {k \in Keys : shared[k] > 0}
  /\ \A h \in Handler : pc[h] = "expire" =>
       /\ shared[Key(h)] > 0 /\ Key(h) \notin expiring
       /\ \A g \in Handler : pc[g] = "expire" /\ Key(g) = Key(h) => g = h

AdmissionInv == RouterTypeOK /\ HandlersInv /\ SharedInv

LEMMA EnterInv ==
  ASSUME NEW c \in Calls, EndpointOK(c), NEW gate \in Gates, NEW keys,
         c.kind = "chat" => c.current # NoEndpoint,
         gate = "endpoint" => c.kind = "chat" /\ Done(c, "token", keys),
         gate # "team" => Done(c, "team", keys)
  PROVE  CallInv(IF LimitsAt(c, gate).rpm > 0 THEN "shared" ELSE "local",
                 [c EXCEPT !.gate = gate], keys)
<1> DEFINE d == [c EXCEPT !.gate = gate]
<1>1. /\ d \in Calls /\ d.gate = gate /\ d.kind = c.kind /\ d.current = c.current
      /\ d.model = c.model /\ d.token = c.token
  BY DEF Calls
<1> HIDE DEF d
<1>2. EndpointOK(d)
  BY <1>1 DEF EndpointOK
<1>3. \A g \in Gates : LimitsAt(d, g) = LimitsAt(c, g) /\ KeyAt(d, g) = KeyAt(c, g)
  BY <1>1 DEF Gates, LimitsAt, KeyAt
<1>4. \A g \in Gates : Done(d, g, keys) = Done(c, g, keys)
  BY <1>3 DEF Done
<1>5. CallInv(IF LimitsAt(c, gate).rpm > 0 THEN "shared" ELSE "local", d, keys)
  BY <1>1, <1>2, <1>3, <1>4 DEF CallInv, Gates, Done
<1>6. QED
  BY <1>5 DEF d

-----------------------------------------------------------------------------
(* Steps of one handler.                                                   *)

\* The keys a handler's request was counted under, after its step, in which
\* the calls of F failed.
CountedThen(h, point, F) ==
  IF point = "idle" THEN {}
  ELSE IF pc[h] = "shared" /\ (shared'[Key(h)] > shared[Key(h)] \/ h \in F)
  THEN counted[h] \cup {Key(h)}
  ELSE counted[h]

LEMMA Others ==
  ASSUME HandlersInv, NEW h \in Handler, NEW point, NEW c, Becomes(h, point, c)
  PROVE  /\ pc'[h] = point /\ call'[h] = c
         /\ \A g \in Handler \ {h} : pc'[g] = pc[g] /\ call'[g] = call[g]
         /\ \A g \in Handler : pc'[g] = IF g = h THEN point ELSE pc[g]
BY DEF Becomes, HandlersInv

LEMMA AtShared ==
  ASSUME HandlersInv, NEW h \in Handler, pc[h] = "shared"
  PROVE  Key(h) \in Keys /\ Limits(h).rpm \in Nat /\ Limits(h).rpm > 0
<1>1. CallInv("shared", call[h], counted[h]) /\ call[h].gate \in Gates
  BY DEF HandlersInv, Calls
<1>2. GateOK(call[h], call[h].gate)
  BY <1>1 DEF CallInv, GateOK
<1>3. QED
  BY <1>1, <1>2, KeysOK DEF CallInv, Key, Limits

LEMMA HandlerMoves ==
  ASSUME HandlersInv, NEW h \in Handler, NEW F \in SUBSET {h}, Remember(F),
         NEW point \in Points, NEW c, Becomes(h, point, c),
         pc[h] = "shared" => point # "shared", h \in F => pc[h] = "shared",
         CallInv(point, c, CountedThen(h, point, F))
  PROVE  HandlersInv'
<1>1. /\ pc'[h] = point /\ call'[h] = c
      /\ \A g \in Handler \ {h} : pc'[g] = pc[g] /\ call'[g] = call[g]
  BY Others
<1>2. counted' = [g \in Handler |->
        IF pc'[g] = "idle" THEN {}
        ELSE IF Increased(g) \/ g \in F THEN counted[g] \cup {Key(g)} ELSE counted[g]]
  BY DEF Remember
<1>3. counted'[h] = CountedThen(h, point, F)
  BY <1>1, <1>2 DEF CountedThen, Increased, Moves
<1>4. ASSUME NEW g \in Handler \ {h}
      PROVE  counted'[g] = IF pc[g] = "idle" THEN {} ELSE counted[g]
  BY <1>1, <1>2 DEF Increased, Moves
<1>5. counted' \in [Handler -> SUBSET Keys]
  <2>1. \A g \in Handler : counted'[g] \subseteq Keys
    BY <1>3, <1>4, AtShared DEF CountedThen, HandlersInv
  <2>2. QED
    BY <1>2, <2>1
<1>6. c \in Calls
  BY DEF CallInv
<1>7. pc' \in [Handler -> Points] /\ call' \in [Handler -> Calls]
  BY <1>6 DEF Becomes, HandlersInv
<1>8. \A g \in Handler : CallInv(pc'[g], call'[g], counted'[g])
  <2>1. CallInv(pc'[h], call'[h], counted'[h])
    BY <1>1, <1>3
  <2>2. ASSUME NEW g \in Handler \ {h}
        PROVE  CallInv(pc'[g], call'[g], counted'[g])
    BY <1>1, <1>4 DEF CallInv, HandlersInv
  <2>3. QED
    BY <2>1, <2>2
<1>9. QED
  BY <1>5, <1>7, <1>8 DEF HandlersInv

(* The end of a request, whatever it was.                                  *)
LEMMA AnsweredMoves ==
  ASSUME HandlersInv, Remember({}), NEW h \in Handler, Answered(h)
  PROVE  HandlersInv'
<1>1. CallInv("idle", NoCall, CountedThen(h, "idle", {}))
  BY NoCallOK DEF CallInv
<1>2. QED
  BY <1>1, HandlerMoves DEF Answered, Points

LEMMA EnterMoves ==
  ASSUME HandlersInv, Remember({}), NEW h \in Handler, NEW gate \in Gates,
         NEW c \in Calls, Enter(h, gate, c), EndpointOK(c), pc[h] # "shared",
         c.kind = "chat" => c.current # NoEndpoint,
         gate = "endpoint" => c.kind = "chat" /\ Done(c, "token", counted[h]),
         gate # "team" => Done(c, "team", counted[h])
  PROVE  HandlersInv'
<1> DEFINE point == IF LimitsAt(c, gate).rpm > 0 THEN "shared" ELSE "local"
<1>1. CallInv(point, [c EXCEPT !.gate = gate], counted[h])
  BY EnterInv
<1>2. Becomes(h, point, [c EXCEPT !.gate = gate])
  BY DEF Enter
<1>3. CountedThen(h, point, {}) = counted[h] /\ point \in Points
  BY DEF CountedThen, Points
<1> HIDE DEF point
<1>4. QED
  BY <1>1, <1>2, <1>3, HandlerMoves

LEMMA RefuseMoves ==
  ASSUME HandlersInv, Remember({}), NEW h \in Handler, Refuse(h), pc[h] # "idle"
  PROVE  HandlersInv'
<1>1. CASE call[h].gate # "endpoint"
  BY <1>1, AnsweredMoves DEF Refuse
<1>2. CASE call[h].gate = "endpoint"
  <2> DEFINE c == [call[h] EXCEPT !.tried = @ \cup {HandlerKey(call[h].model, call[h].current)}]
  <2>1. CallInv(pc[h], call[h], counted[h]) /\ call[h] \in Calls
    BY DEF HandlersInv
  <2>2. HandlerKey(call[h].model, call[h].current) \in HandlerKeys
    BY <1>2, <2>1 DEF CallInv, EndpointOK, HandlerKeys, Calls
  <2>3. /\ c \in Calls /\ c.kind = call[h].kind /\ c.gate = call[h].gate
        /\ c.current = call[h].current /\ c.model = call[h].model /\ c.token = call[h].token
    BY <2>1, <2>2 DEF Calls
  <2> HIDE DEF c
  <2>4. EndpointOK(c)
    BY <2>1, <2>3 DEF CallInv, EndpointOK
  <2>5. \A g \in Gates, keys \in {counted[h], counted[h] \cup {Key(h)}} :
          Done(call[h], g, counted[h]) => Done(c, g, keys)
    BY <2>3 DEF Done, LimitsAt, KeyAt, Gates
  <2>6. CallInv("next", c, CountedThen(h, "next", {}))
    BY <1>2, <2>1, <2>3, <2>4, <2>5 DEF CallInv, CountedThen, Gates
  <2>7. Becomes(h, "next", c)
    BY <1>2 DEF Refuse, c
  <2>8. QED
    BY <2>6, <2>7, HandlerMoves DEF Points
<1>3. QED
  BY <1>1, <1>2

LEMMA SelectionOK ==
  ASSUME RouterTypeOK, NEW m \in Model, NEW banned, NEW tried
  PROVE  /\ Selected(m, banned, tried) # NoEndpoint => Selected(m, banned, tried) \in Index(m)
         /\ pick_weighted(m) # NoEndpoint => pick_weighted(m) \in Index(m)
         /\ \A i \in Index(m) : i \in Nat /\ i # NoEndpoint
<1>1. CASE Total(m) = 0
  BY <1>1 DEF Selected, pick_weighted, Index
<1>2. CASE Total(m) # 0
  BY <1>2, Totals, StartInRange, FirstFreeIsFree DEF Selected, pick_weighted, Index, NoEndpoint
<1>3. QED
  BY <1>1, <1>2, Totals DEF Index, NoEndpoint

LEMMA ArriveChatMoves ==
  ASSUME RouterTypeOK, HandlersInv, Remember({}), NEW h \in Handler, NEW m \in Model,
         NEW t \in Token, NEW B \in SUBSET Index(m), ArriveChat(h, m, t, B)
  PROVE  HandlersInv'
<1> DEFINE banned == {HandlerKey(m, i) : i \in B}
           c(i) == [NoCall EXCEPT !.kind = "chat", !.model = m, !.token = t,
                                  !.banned = banned, !.current = i]
<1>1. PICK i \in Index(m) : Enter(h, "team", c(i))
  BY SelectionOK DEF ArriveChat, NoCall
<1>2. banned \in SUBSET HandlerKeys /\ i \in Nat /\ i # NoEndpoint
  BY SelectionOK DEF HandlerKeys
<1> HIDE DEF banned
<1>3. /\ c(i) \in Calls /\ c(i).kind = "chat" /\ c(i).current = i /\ c(i).model = m
  BY <1>2, NoCallOK DEF Calls, Kinds, NoCall
<1>4. EndpointOK(c(i))
  BY <1>3 DEF EndpointOK
<1>5. pc[h] # "shared"
  BY DEF ArriveChat
<1> HIDE DEF c
<1>6. QED
  BY <1>1, <1>2, <1>3, <1>4, <1>5, EnterMoves DEF Gates

LEMMA ArriveOtherMoves ==
  ASSUME HandlersInv, Remember({}), NEW h \in Handler, NEW m \in Model, NEW t \in Token,
         NEW kind \in {"generic", "list"}, ArriveOther(h, kind, m, t)
  PROVE  HandlersInv'
<1> DEFINE c == [NoCall EXCEPT !.kind = kind, !.model = m, !.token = t]
<1>1. c \in Calls /\ c.kind # "chat" /\ c.current = NoEndpoint
  BY NoCallOK DEF Calls, Kinds, NoCall
<1>2. Enter(h, "team", c) /\ pc[h] # "shared"
  BY DEF ArriveOther
<1> HIDE DEF c
<1>3. EndpointOK(c)
  BY <1>1 DEF EndpointOK
<1>4. QED
  BY <1>1, <1>2, <1>3, EnterMoves DEF Gates

LEMMA CheckSharedMoves ==
  ASSUME HandlersInv, SharedInv, Remember({}), NEW h \in Handler, CheckShared(h)
  PROVE  HandlersInv'
<1>1. /\ pc[h] = "shared" /\ CallInv("shared", call[h], counted[h])
      /\ Key(h) \in Keys /\ call[h].gate \in Gates
  BY AtShared DEF CheckShared, HandlersInv, Calls
<1>2. CASE Refuse(h)
  BY <1>1, <1>2, RefuseMoves
<1>3. ASSUME NEW point \in {"local", "expire"}, Becomes(h, point, call[h]),
             shared'[Key(h)] > shared[Key(h)]
      PROVE  HandlersInv'
  <2>1. CallInv(point, call[h], CountedThen(h, point, {}))
    BY <1>1, <1>3 DEF CallInv, CountedThen, Done, Key
  <2>2. QED
    BY <1>1, <1>3, <2>1, HandlerMoves DEF Points
<1>4. \/ Refuse(h)
      \/ /\ Count(h) = 1 \/ Count(h) <= Limits(h).rpm
         /\ Becomes(h, "local", call[h]) \/ Becomes(h, "expire", call[h])
  BY DEF CheckShared
<1>5. shared[Key(h)] \in Nat /\ shared'[Key(h)] = Count(h) /\ Limits(h).rpm \in Nat \ {0}
  BY <1>1, AtShared DEF CheckShared, SharedInv
<1>6. Count(h) = 1 \/ Count(h) <= Limits(h).rpm => Count(h) > shared[Key(h)]
  BY <1>5 DEF Count
<1>7. QED
  BY <1>2, <1>3, <1>4, <1>5, <1>6

\* A request whose call failed goes on.
LEMMA SharedFailsMoves ==
  ASSUME HandlersInv, NEW h \in Handler, SharedFails(h), Remember({h})
  PROVE  HandlersInv'
<1>1. /\ pc[h] = "shared" /\ CallInv("shared", call[h], counted[h])
      /\ Becomes(h, "local", call[h])
  BY DEF SharedFails, HandlersInv
<1>2. CallInv("local", call[h], CountedThen(h, "local", {h}))
  BY <1>1 DEF CallInv, CountedThen, Done, Key
<1>3. QED
  BY <1>1, <1>2, HandlerMoves DEF Points

LEMMA ExpireMoves ==
  ASSUME HandlersInv, Remember({}), NEW h \in Handler, Expire(h)
  PROVE  HandlersInv'
<1>1. pc[h] = "expire" /\ CallInv("expire", call[h], counted[h]) /\ Becomes(h, "local", call[h])
  BY DEF Expire, HandlersInv
<1>2. CallInv("local", call[h], CountedThen(h, "local", {}))
  BY <1>1 DEF CallInv, CountedThen
<1>3. QED
  BY <1>1, <1>2, HandlerMoves DEF Points

LEMMA CheckLocalMoves ==
  ASSUME RouterTypeOK, HandlersInv, Remember({}), NEW h \in Handler, CheckLocal(h)
  PROVE  HandlersInv'
<1>1. /\ pc[h] = "local" /\ CallInv("local", call[h], counted[h])
      /\ call[h] \in Calls /\ EndpointOK(call[h])
  BY DEF CheckLocal, HandlersInv, CallInv
<1>2. CASE PassTeam(h)
  BY <1>1, <1>2, EnterMoves DEF PassTeam, CallInv, Gates
<1>3. CASE PassToken(h)
  <2>1. CASE Answered(h)
    BY <2>1, AnsweredMoves
  <2>2. CASE call[h].kind = "chat" /\ Enter(h, "endpoint", call[h])
    BY <1>1, <1>3, <2>2, EnterMoves DEF PassToken, CallInv, Gates
  <2>3. CASE /\ call[h].kind = "generic" /\ pick_weighted(call[h].model) # NoEndpoint
             /\ Becomes(h, "sent", [call[h] EXCEPT !.current = pick_weighted(call[h].model)])
    <3> DEFINE c == [call[h] EXCEPT !.current = pick_weighted(call[h].model)]
    <3>1. call[h].model \in Model /\ pick_weighted(call[h].model) \in Index(call[h].model)
      BY <1>1, <2>3, SelectionOK DEF Calls
    <3>2. pick_weighted(call[h].model) \in Nat
      BY <3>1, SelectionOK
    <3>3. /\ c \in Calls /\ c.kind = "generic" /\ c.gate = "token" /\ c.model = call[h].model
          /\ c.token = call[h].token /\ c.current \in Index(c.model)
      BY <1>1, <1>3, <2>3, <3>1, <3>2 DEF Calls, PassToken
    <3>4. \A g \in {"team", "token"} : Done(call[h], g, counted[h]) => Done(c, g, counted[h])
      BY <3>3 DEF Done, LimitsAt, KeyAt
    <3>5. Becomes(h, "sent", c)
      BY <2>3
    <3> HIDE DEF c
    <3>6. CallInv("sent", c, CountedThen(h, "sent", {}))
      BY <1>1, <1>3, <3>3, <3>4 DEF CallInv, CountedThen, EndpointOK, PassToken
    <3>7. QED
      BY <1>1, <3>5, <3>6, HandlerMoves DEF Points
  <2>4. QED
    BY <1>3, <2>1, <2>2, <2>3 DEF PassToken
<1>4. CASE PassEndpoint(h)
  <2>1. CallInv("sent", call[h], CountedThen(h, "sent", {}))
    BY <1>1, <1>4 DEF PassEndpoint, CallInv, CountedThen
  <2>2. QED
    BY <1>1, <1>4, <2>1, HandlerMoves DEF PassEndpoint, Points
<1>5. CASE Refuse(h)
  BY <1>1, <1>5, RefuseMoves
<1>6. QED
  BY <1>2, <1>3, <1>4, <1>5 DEF CheckLocal

LEMMA SelectNextMoves ==
  ASSUME RouterTypeOK, HandlersInv, Remember({}), NEW h \in Handler, SelectNext(h)
  PROVE  HandlersInv'
<1> DEFINE sel == Selected(call[h].model, call[h].banned, call[h].tried)
           c == [call[h] EXCEPT !.current = sel]
<1>1. pc[h] = "next" /\ CallInv("next", call[h], counted[h]) /\ call[h] \in Calls
  BY DEF SelectNext, HandlersInv
<1>2. CASE Answered(h)
  BY <1>2, AnsweredMoves
<1>3. CASE sel # NoEndpoint /\ Enter(h, "endpoint", c)
  <2>1. sel \in Index(call[h].model) /\ sel \in Nat
    BY <1>1, <1>3, SelectionOK DEF Calls
  <2>2. /\ c \in Calls /\ c.kind = call[h].kind /\ c.model = call[h].model
        /\ c.token = call[h].token /\ c.current \in Index(c.model) /\ c.current # NoEndpoint
    BY <1>1, <1>3, <2>1 DEF Calls
  <2>3. \A g \in {"team", "token"} : Done(call[h], g, counted[h]) => Done(c, g, counted[h])
    BY <2>2 DEF Done, LimitsAt, KeyAt
  <2> HIDE DEF c
  <2>4. c.kind = "chat" /\ Done(c, "team", counted[h]) /\ Done(c, "token", counted[h])
    BY <1>1, <2>2, <2>3 DEF CallInv
  <2>5. QED
    BY <1>1, <1>3, <2>2, <2>4, EnterMoves DEF EndpointOK, Gates
<1>4. QED
  BY <1>2, <1>3 DEF SelectNext

LEMMA AnswerMoves ==
  ASSUME HandlersInv, Remember({}), NEW h \in Handler, Answer(h)
  PROVE  HandlersInv'
<1> DEFINE key == HandlerKey(call[h].model, call[h].current)
           c == [call[h] EXCEPT !.tried = @ \cup {key}]
<1>1. pc[h] = "sent" /\ CallInv("sent", call[h], counted[h]) /\ call[h] \in Calls
  BY DEF Answer, HandlersInv
<1>2. CASE Answered(h)
  BY <1>2, AnsweredMoves
<1>3. CASE call[h].kind = "chat" /\ Becomes(h, "next", c)
  <2>1. key \in HandlerKeys
    BY <1>1, <1>3 DEF CallInv, EndpointOK, HandlerKeys, Calls
  <2>2. /\ c \in Calls /\ c.kind = "chat" /\ c.gate = call[h].gate
        /\ c.current = call[h].current /\ c.model = call[h].model /\ c.token = call[h].token
    BY <1>1, <1>3, <2>1 DEF Calls
  <2> HIDE DEF c
  <2>3. \A g \in Gates : Done(call[h], g, counted[h]) => Done(c, g, counted[h])
    BY <2>2 DEF Done, LimitsAt, KeyAt, Gates
  <2>4. CallInv("next", c, CountedThen(h, "next", {}))
    BY <1>1, <1>3, <2>2, <2>3 DEF CallInv, CountedThen, EndpointOK, Gates
  <2>5. QED
    BY <1>1, <1>3, <2>4, HandlerMoves DEF Points
<1>4. QED
  BY <1>2, <1>3 DEF Answer

(* The configuration and the answers may be any: a handler keeps to its    *)
(* request's model, and passes no gate it is not counted at.               *)
LEMMA HandlersStep ==
  ASSUME AdmissionInv, [HNext]_hvars
  PROVE  HandlersInv'
<1>1. CASE UNCHANGED hvars
  BY <1>1 DEF hvars, vars, AdmissionInv, HandlersInv
<1>2. ASSUME NEW h \in Handler, SharedFails(h), Remember({h})
      PROVE  HandlersInv'
  BY <1>2, SharedFailsMoves DEF AdmissionInv
<1>3. CASE Proceed /\ Remember({})
  <2>1. HandlersInv /\ SharedInv /\ RouterTypeOK /\ Remember({}) /\ Proceed
    BY <1>3 DEF AdmissionInv
  <2>2. ASSUME NEW k \in Keys, CounterExpires(k)
        PROVE  HandlersInv'
    <3>1. UNCHANGED <<pc, call>>
      BY <2>2 DEF CounterExpires
    <3>2. \A h \in Handler : ~Moves(h)
      BY <3>1 DEF Moves
    <3>3. counted' = [h \in Handler |-> IF pc[h] = "idle" THEN {} ELSE counted[h]]
      BY <2>1, <3>1, <3>2 DEF Remember, Increased
    <3>4. QED
      BY <2>1, <3>1, <3>3 DEF HandlersInv, CallInv
  <2>3. ASSUME NEW h \in Handler, Timeout(h)
        PROVE  HandlersInv'
    BY <2>1, <2>3, AnsweredMoves DEF Timeout
  <2>4. ASSUME NEW h \in Handler, Handle(h)
        PROVE  HandlersInv'
    BY <2>1, <2>4, CheckSharedMoves, ExpireMoves, CheckLocalMoves, SelectNextMoves, AnswerMoves
       DEF Handle
  <2>5. QED
    BY <2>1, <2>2, <2>3, <2>4, ArriveChatMoves, ArriveOtherMoves DEF Proceed
<1>4. QED
  BY <1>1, <1>2, <1>3 DEF HNext

-----------------------------------------------------------------------------
(* The counters.                                                           *)

LEMMA SharedStays ==
  ASSUME HandlersInv, SharedInv, UNCHANGED <<shared, expiring>>,
         \A h \in Handler : pc'[h] = "expire" => pc[h] = "expire" /\ call'[h] = call[h]
  PROVE  SharedInv'
<1>1. \A h \in Handler : pc'[h] = "expire" => Key(h)' = Key(h)
  BY DEF Key, KeyAt
<1>2. QED
  BY <1>1 DEF SharedInv

LEMMA BecomesElsewhere ==
  ASSUME HandlersInv, NEW h \in Handler, NEW point, NEW c, Becomes(h, point, c), point # "expire"
  PROVE  \A g \in Handler : pc'[g] = "expire" => g # h /\ pc[g] = "expire" /\ call'[g] = call[g]
BY Others

\* The steps that move a handler to another place than "expire".
Leaves(h) == \E point, c : point # "expire" /\ Becomes(h, point, c)

LEMMA EnterLeaves ==
  ASSUME NEW h \in Handler, NEW gate, NEW c, Enter(h, gate, c)
  PROVE  Leaves(h)
BY DEF Enter, Leaves

LEMMA RefuseLeaves ==
  ASSUME NEW h \in Handler, Refuse(h)
  PROVE  Leaves(h)
BY DEF Refuse, Answered, Leaves

LEMMA LeavesStays ==
  ASSUME HandlersInv, SharedInv, NEW h \in Handler, Leaves(h), UNCHANGED <<shared, expiring>>
  PROVE  SharedInv'
<1>1. PICK point, c : point # "expire" /\ Becomes(h, point, c)
  BY DEF Leaves
<1>2. QED
  BY <1>1, BecomesElsewhere, SharedStays

LEMMA SharedCheckShared ==
  ASSUME HandlersInv, SharedInv, NEW h \in Handler, CheckShared(h) \/ SharedFails(h)
  PROVE  SharedInv'
<1>1. /\ pc[h] = "shared" /\ Key(h) \in Keys /\ Limits(h).rpm \in Nat /\ Limits(h).rpm > 0
      /\ UNCHANGED expiring
  BY AtShared DEF CheckShared, SharedFails, Count
<1>2. CASE UNCHANGED shared /\ Becomes(h, "local", call[h])
  BY <1>1, <1>2, LeavesStays DEF Leaves
<1>3. CASE ~(UNCHANGED shared /\ Becomes(h, "local", call[h]))
  <2> DEFINE n == shared[Key(h)]
             count == IF n > Limits(h).rpm THEN n ELSE n + 1
  <2>1. /\ shared' = [shared EXCEPT ![Key(h)] = count]
        /\ IF count = 1 THEN Becomes(h, "expire", call[h])
           ELSE Becomes(h, "local", call[h]) \/ Refuse(h)
    BY <1>3 DEF CheckShared, SharedFails, Count
  <2>2. n \in Nat /\ count \in Nat /\ count > 0 /\ (count = 1 => n = 0)
    BY <1>1 DEF SharedInv
  <2> HIDE DEF n, count
  <2>3. /\ shared' \in [Keys -> Nat]
        /\ expiring' \subseteq {k \in Keys : shared'[k] > 0}
        /\ \A k \in Keys : shared[k] > 0 => shared'[k] > 0
        /\ shared'[Key(h)] > 0
    BY <1>1, <2>1, <2>2 DEF SharedInv
  <2>4. \A g \in Handler : pc[g] = "expire" => Key(g) \in Keys
    BY DEF HandlersInv, CallInv, Key
  <2>5. CASE count = 1
    <3>1. /\ pc'[h] = "expire" /\ call'[h] = call[h]
          /\ \A g \in Handler \ {h} : pc'[g] = pc[g] /\ call'[g] = call[g]
      BY <2>1, <2>5, Others
    <3>2. \A g \in Handler : Key(g)' = Key(g)
      BY <3>1 DEF Key, KeyAt
    <3>3. shared[Key(h)] = 0 /\ Key(h) \notin expiring
      BY <2>2, <2>5 DEF n, SharedInv
    <3>4. \A g \in Handler : pc[g] = "expire" => Key(g) # Key(h)
      BY <3>3 DEF SharedInv
    <3>5. ASSUME NEW g \in Handler, pc'[g] = "expire"
          PROVE  /\ shared'[Key(g)'] > 0 /\ Key(g)' \notin expiring'
                 /\ \A f \in Handler : pc'[f] = "expire" /\ Key(f)' = Key(g)' => f = g
      <4>1. CASE g = h
        BY <1>1, <2>3, <3>1, <3>2, <3>3, <3>4, <4>1
      <4>2. CASE g # h
        BY <1>1, <2>3, <2>4, <3>1, <3>2, <3>4, <3>5, <4>2 DEF SharedInv
      <4>3. QED
        BY <4>1, <4>2
    <3>6. QED
      BY <2>3, <3>5 DEF SharedInv
  <2>6. CASE count # 1
    <3>1. PICK point, c : point # "expire" /\ Becomes(h, point, c)
      BY <2>1, <2>6, RefuseLeaves DEF Leaves
    <3>2. \A g \in Handler : pc'[g] = "expire" => pc[g] = "expire" /\ Key(g)' = Key(g)
      BY <3>1, BecomesElsewhere DEF Key, KeyAt
    <3>3. QED
      BY <1>1, <2>3, <2>4, <3>2 DEF SharedInv
  <2>7. QED
    BY <2>5, <2>6
<1>4. QED
  BY <1>2, <1>3

LEMMA SharedExpire ==
  ASSUME HandlersInv, SharedInv, NEW h \in Handler, Expire(h)
  PROVE  SharedInv'
<1>1. /\ pc[h] = "expire" /\ Becomes(h, "local", call[h]) /\ UNCHANGED shared
      /\ expiring' \in {expiring, expiring \cup {Key(h)}}
  BY DEF Expire
<1>2. \A g \in Handler : pc'[g] = "expire" => g # h /\ pc[g] = "expire" /\ Key(g)' = Key(g)
  BY <1>1, BecomesElsewhere DEF Key, KeyAt
<1>3. Key(h) \in Keys /\ shared[Key(h)] > 0
  BY <1>1 DEF HandlersInv, CallInv, SharedInv, Key
<1>4. QED
  BY <1>1, <1>2, <1>3 DEF SharedInv

LEMMA SharedStep ==
  ASSUME AdmissionInv, [HNext]_hvars
  PROVE  SharedInv'
<1>0. HandlersInv /\ SharedInv
  BY DEF AdmissionInv
<1>1. CASE UNCHANGED hvars
  BY <1>0, <1>1, SharedStays DEF hvars, vars
<1>2. CASE Proceed
  <2>1. ASSUME NEW h \in Handler, NEW m \in Model, NEW t \in Token, NEW B, ArriveChat(h, m, t, B)
        PROVE  SharedInv'
    <3>1. Leaves(h) /\ UNCHANGED <<shared, expiring>>
      BY <2>1, EnterLeaves DEF ArriveChat
    <3>2. QED
      BY <1>0, <3>1, LeavesStays
  <2>2. ASSUME NEW h \in Handler, NEW m \in Model, NEW t \in Token, NEW kind, ArriveOther(h, kind, m, t)
        PROVE  SharedInv'
    BY <1>0, <2>2, EnterLeaves, LeavesStays DEF ArriveOther
  <2>3. ASSUME NEW h \in Handler, CheckLocal(h)
        PROVE  SharedInv'
    <3>1. Leaves(h)
      BY <2>3, EnterLeaves, RefuseLeaves
         DEF CheckLocal, PassTeam, PassToken, PassEndpoint, Answered, Leaves
    <3>2. QED
      BY <1>0, <2>3, <3>1, LeavesStays DEF CheckLocal
  <2>4. ASSUME NEW h \in Handler, SelectNext(h)
        PROVE  SharedInv'
    <3>1. Leaves(h)
      BY <2>4, EnterLeaves DEF SelectNext, Answered, Leaves
    <3>2. QED
      BY <1>0, <2>4, <3>1, LeavesStays DEF SelectNext
  <2>5. ASSUME NEW h \in Handler, Answer(h) \/ Timeout(h)
        PROVE  SharedInv'
    <3>1. Leaves(h)
      BY <2>5 DEF Answer, Timeout, Answered, Leaves
    <3>2. QED
      BY <1>0, <2>5, <3>1, LeavesStays DEF Answer, Timeout
  <2>6. ASSUME NEW k \in Keys, CounterExpires(k)
        PROVE  SharedInv'
    <3>1. \A h \in Handler : Key(h)' = Key(h)
      BY <2>6 DEF CounterExpires, Key, KeyAt
    <3>2. QED
      BY <1>0, <2>6, <3>1 DEF CounterExpires, SharedInv
  <2>7. QED
    BY <1>0, <1>2, <2>1, <2>2, <2>3, <2>4, <2>5, <2>6, SharedCheckShared, SharedExpire
       DEF Proceed, Handle
<1>3. QED
  BY <1>0, <1>1, <1>2, SharedCheckShared DEF HNext

-----------------------------------------------------------------------------
(* The rotation.                                                           *)

LEMMA ModSucc ==
  ASSUME NEW c \in Nat, NEW n \in Nat \ {0}
  PROVE  /\ c % n \in 0..(n - 1)
         /\ (c + 1) % n = IF c % n = n - 1 THEN 0 ELSE (c % n) + 1
<1> DEFINE q == c \div n
           r == c % n
<1>1. q \in Nat /\ r \in 0..(n - 1) /\ c = n * q + r
  OBVIOUS
<1> HIDE DEF q, r
<1>2. ASSUME NEW p \in Nat, NEW d \in 0..(n - 1)
      PROVE  (n * p + d) % n = d
  OBVIOUS
<1>3. CASE r = n - 1
  <2>1. n * (q + 1) + 0 = c + 1
    BY <1>1, <1>3
  <2>2. (n * (q + 1) + 0) % n = 0
    BY <1>1, <1>2
  <2>3. QED
    BY <1>1, <1>3, <2>1, <2>2 DEF r
<1>4. CASE r # n - 1
  <2>1. n * q + (r + 1) = c + 1
    BY <1>1
  <2>2. (n * q + (r + 1)) % n = r + 1
    BY <1>1, <1>2, <1>4
  <2>3. QED
    BY <1>1, <1>4, <2>1, <2>2 DEF r
<1>5. QED
  BY <1>3, <1>4

\* No model's rotation is cut short when its counter wraps around: 2^64 is a
\* multiple of the number of its endpoints.
WholeRounds == \A m \in Model : Total(m) # 0 => CounterRange % Total(m) = 0

LEMMA NextStart ==
  ASSUME WholeRounds, RouterTypeOK, NEW m \in Model, Total(m) \in Nat \ {0}, next(m)
  PROVE  Start(m)' = IF Start(m) = Total(m) - 1 THEN 0 ELSE Start(m) + 1
<1> DEFINE c == counters[m]
           n == Total(m)
<1>1. c \in 0..(CounterRange - 1) /\ CounterRange \in Nat \ {0} /\ CounterRange % n = 0
  BY RouterAssumption DEF RouterTypeOK, WholeRounds
<1>2. counters'[m] = (c + 1) % CounterRange
  BY DEF next, RouterTypeOK
<1>3. Start(m) = c % n /\ Start(m)' = ((c + 1) % CounterRange) % n
  BY <1>2 DEF Start, Total
<1>4. c \in Nat /\ n \in Nat \ {0}
  BY <1>1
<1> HIDE DEF c, n
<1>5. /\ c % n \in 0..(n - 1)
      /\ (c + 1) % n = IF c % n = n - 1 THEN 0 ELSE (c % n) + 1
  BY <1>4, ModSucc, Zenon
<1>6. CASE c + 1 < CounterRange
  <2>1. (c + 1) % CounterRange = c + 1
    BY <1>1, <1>6
  <2>2. QED
    BY <1>3, <1>5, <2>1 DEF n
<1>7. CASE c + 1 = CounterRange
  <2>1. (c + 1) % CounterRange = 0 /\ 0 % n = 0
    BY <1>1, <1>4, <1>7
  <2>2. (c + 1) % n = 0
    BY <1>1, <1>7
  <2>3. c % n = n - 1
    BY <1>4, <1>5, <2>2
  <2>4. QED
    BY <1>3, <2>1, <2>3 DEF n
<1>8. QED
  BY <1>1, <1>6, <1>7

(* The endpoint the counter points at is taken if it is not excluded,      *)
(* under whichever mask its key is looked up.                              *)
LEMMA FreeStart ==
  ASSUME RouterTypeOK, NEW m \in Model, Total(m) \in Nat \ {0},
         NEW banned \in SUBSET HandlerKeys, NEW tried \in SUBSET HandlerKeys,
         HandlerKey(m, Start(m)) \notin banned \cup tried
  PROVE  Selected(m, banned, tried) = Start(m)
<1> DEFINE i == Start(m)
           free == FreeOffsets(m, i, banned \cup tried)
<1>1. i \in Index(m) /\ i \in Nat /\ (i + 0) % Total(m) = i
  <2>1. i \in Index(m)
    BY StartInRange
  <2>2. QED
    BY <2>1 DEF Index
<1>2. Endpoints[m][i + 1].key \in Seq(Char)
  BY <1>1, ConfiguredEndpoint
<1> HIDE DEF i
<1>3. RouterKey(m, i) \notin banned \cup tried
  <2>1. CASE Len(Endpoints[m][i + 1].key) <= 6
    <3>1. RouterKey(m, i) = HandlerKey(m, i)
      BY <1>2, <2>1, ShortKeysMaskAlike DEF RouterKey, HandlerKey
    <3>2. QED
      BY <3>1 DEF i
  <2>2. CASE ~(Len(Endpoints[m][i + 1].key) <= 6)
    <3>1. Len(Endpoints[m][i + 1].key) > 6
      BY <1>2, <2>2, LenProperties
    <3>2. ASSUME NEW n \in Model, NEW j \in Index(n)
          PROVE  HandlerKey(n, j) # RouterKey(m, i)
      <4>1. Endpoints[n][j + 1].key \in Seq(Char)
        BY ConfiguredEndpoint
      <4>2. router_mask_key(Endpoints[m][i + 1].key) # handler_mask_key(Endpoints[n][j + 1].key)
        BY <1>2, <3>1, <4>1, LongKeysMaskApart
      <4>3. QED
        BY <4>2 DEF HandlerKey, RouterKey
    <3>3. RouterKey(m, i) \notin HandlerKeys
      BY <3>2 DEF HandlerKeys
    <3>4. QED
      BY <3>3
  <2>3. QED
    BY <2>1, <2>2
<1>4. 0 \in free /\ \A p \in free : p \in Nat
  BY <1>1, <1>3 DEF FreeOffsets, Index
<1> HIDE DEF free
<1>5. (CHOOSE o \in free : \A p \in free : o <= p) = 0
  <2>1. \A o \in free : (\A p \in free : o <= p) => o = 0
    BY <1>4
  <2>2. \A p \in free : 0 <= p
    BY <1>4
  <2>3. QED
    BY <1>4, <2>1, <2>2
<1>6. FirstFree(m, i, banned \cup tried) = (i + 0) % Total(m)
  BY <1>4, <1>5 DEF FirstFree, free
<1>7. QED
  BY <1>1, <1>6 DEF Selected, i

\* Handler h, and no other, draws from the counter of m, and takes the
\* endpoint the counter points at unless it has to do without it.
Draw(h, m) ==
  /\ Total(m) \in Nat \ {0} /\ next(m)
  /\ Moves(h) /\ \A g \in Handler \ {h} : ~Moves(g)
  /\ Start(m) \in Offered(h, m) => Took(h, m, Start(m))

LEMMA BecomesMoves ==
  ASSUME HandlersInv, NEW h \in Handler, NEW point, NEW c, Becomes(h, point, c), point # pc[h]
  PROVE  Moves(h) /\ \A g \in Handler \ {h} : ~Moves(g)
BY Others DEF Moves

LEMMA Draws ==
  ASSUME AdmissionInv, Next
  PROVE  UNCHANGED counters \/ \E h \in Handler, m \in Model : Draw(h, m)
<1>0. HandlersInv /\ RouterTypeOK
  BY DEF AdmissionInv
<1>1. ASSUME NEW h \in Handler, NEW m \in Model, NEW t \in Token, NEW B \in SUBSET Index(m),
             ArriveChat(h, m, t, B)
      PROVE  UNCHANGED counters \/ Draw(h, m)
  <2> DEFINE banned == {HandlerKey(m, i) : i \in B}
             sel == Selected(m, banned, {})
             c == [NoCall EXCEPT !.kind = "chat", !.model = m, !.token = t,
                                 !.banned = banned, !.current = sel]
  <2>1. banned \in SUBSET HandlerKeys
    BY DEF HandlerKeys
  <2>2. /\ c.kind = "chat" /\ c.model = m /\ c.current = sel /\ c.banned = banned /\ c.tried = {}
    BY DEF NoCall
  <2>3. \A g : LET d == [c EXCEPT !.gate = g]
               IN  /\ d.kind = "chat" /\ d.model = m /\ d.current = sel
                   /\ d.banned = banned /\ d.tried = {}
    BY DEF NoCall
  <2>4. CASE sel # NoEndpoint /\ Enter(h, "team", c) /\ select_available(m)
    <3>1. Total(m) \in Nat \ {0} /\ next(m)
      BY <2>4, Totals DEF Selected, select_available
    <3>2. pc[h] = "idle"
      BY <1>1 DEF ArriveChat
    <3>3. PICK point \in {"shared", "local"} : Becomes(h, point, [c EXCEPT !.gate = "team"])
      BY <2>4 DEF Enter
    <3> HIDE DEF c
    <3>4. Moves(h) /\ \A g \in Handler \ {h} : ~Moves(g)
      BY <1>0, <3>2, <3>3, BecomesMoves
    <3>5. call'[h] = [c EXCEPT !.gate = "team"]
      BY <1>0, <3>3, Others
    <3>6. /\ call'[h].kind = "chat" /\ call'[h].model = m /\ call'[h].current = sel
          /\ call'[h].banned = banned /\ call'[h].tried = {}
      BY <2>3, <3>5 DEF c
    <3> HIDE DEF sel, banned
    <3>7. Start(m) \in Offered(h, m) => HandlerKey(m, Start(m)) \notin banned \cup {}
      BY <2>4, <3>6 DEF Offered
    <3>8. Start(m) \in Offered(h, m) => sel = Start(m)
      BY <1>0, <2>1, <3>1, <3>7, FreeStart DEF sel
    <3>9. QED
      BY <3>1, <3>4, <3>6, <3>8 DEF Draw, Took
  <2>5. QED
    BY <1>1, <2>4 DEF ArriveChat, NoCall
<1>2. ASSUME NEW h \in Handler, CheckLocal(h)
      PROVE  UNCHANGED counters \/ Draw(h, call[h].model)
  <2> DEFINE m == call[h].model
  <2>1. CASE /\ call[h].kind = "generic" /\ pick_weighted(m) # NoEndpoint /\ next(m)
             /\ Becomes(h, "sent", [call[h] EXCEPT !.current = pick_weighted(m)])
    <3>1. call[h] \in Calls /\ m \in Model
      BY <1>0 DEF HandlersInv, Calls
    <3>2. Total(m) \in Nat \ {0} /\ pick_weighted(m) = Start(m)
      BY <2>1, <3>1, Totals DEF pick_weighted
    <3>3. Moves(h) /\ \A g \in Handler \ {h} : ~Moves(g)
      BY <1>0, <1>2, <2>1, BecomesMoves DEF CheckLocal
    <3>4. call'[h].model = m /\ call'[h].current = Start(m)
      BY <1>0, <2>1, <3>1, <3>2, Others DEF Calls
    <3>5. QED
      BY <2>1, <3>2, <3>3, <3>4 DEF Draw, Took
  <2>2. QED
    BY <1>2, <2>1 DEF CheckLocal, PassTeam, PassToken, PassEndpoint
<1>3. ASSUME NEW h \in Handler, SelectNext(h)
      PROVE  UNCHANGED counters \/ Draw(h, call[h].model)
  <2> DEFINE c == call[h]
             m == c.model
             sel == Selected(m, c.banned, c.tried)
  <2>1. c \in Calls /\ m \in Model /\ CallInv("next", c, counted[h]) /\ pc[h] = "next"
    BY <1>0, <1>3 DEF HandlersInv, Calls, SelectNext
  <2>2. Index(m) # {}
    BY <2>1 DEF CallInv, EndpointOK
  <2>3. Total(m) \in Nat \ {0} /\ next(m)
    BY <1>3, <2>1, <2>2, Totals DEF SelectNext, select_available
  <2>4. CASE Answered(h)
    <3>1. Moves(h) /\ \A g \in Handler \ {h} : ~Moves(g)
      BY <1>0, <2>1, <2>4, BecomesMoves DEF Answered
    <3>2. Offered(h, m) = {}
      BY <1>0, <2>4, Others, NoCallOK DEF Answered, Offered
    <3>3. QED
      BY <2>3, <3>1, <3>2 DEF Draw
  <2>5. CASE sel # NoEndpoint /\ Enter(h, "endpoint", [c EXCEPT !.current = sel])
    <3>1. PICK point \in {"shared", "local"} :
            Becomes(h, point, [[c EXCEPT !.current = sel] EXCEPT !.gate = "endpoint"])
      BY <2>5 DEF Enter
    <3>2. Moves(h) /\ \A g \in Handler \ {h} : ~Moves(g)
      BY <1>0, <2>1, <3>1, BecomesMoves
    <3>3. call'[h] = [[c EXCEPT !.current = sel] EXCEPT !.gate = "endpoint"]
      BY <1>0, <3>1, Others
    <3>4. /\ call'[h].kind = c.kind /\ call'[h].model = m /\ call'[h].current = sel
          /\ call'[h].banned = c.banned /\ call'[h].tried = c.tried
      BY <2>1, <3>3 DEF Calls
    <3>5. c.kind = "chat" /\ c.banned \in SUBSET HandlerKeys /\ c.tried \in SUBSET HandlerKeys
      BY <2>1 DEF CallInv, Calls
    <3>6. Start(m) \in Offered(h, m) => HandlerKey(m, Start(m)) \notin c.banned \cup c.tried
      BY <2>5, <3>4, <3>5 DEF Offered
    <3>7. Start(m) \in Offered(h, m) => sel = Start(m)
      BY <1>0, <2>1, <2>3, <3>5, <3>6, FreeStart
    <3>8. QED
      BY <2>3, <3>2, <3>4, <3>7 DEF Draw, Took
  <2>6. QED
    BY <1>3, <2>4, <2>5 DEF SelectNext
<1>4. QED
  <2>1. \A h \in Handler : call[h].model \in Model
    BY <1>0 DEF HandlersInv, Calls
  <2>2. \/ UNCHANGED counters
        \/ \E h \in Handler, m \in Model, t \in Token :
             \E B \in SUBSET Index(m) : ArriveChat(h, m, t, B)
        \/ \E h \in Handler : CheckLocal(h)
        \/ \E h \in Handler : SelectNext(h)
    BY DEF Next, Proceed, ArriveOther, Handle, CheckShared, SharedFails, Expire, Answer, Timeout,
           CounterExpires
  <2>3. QED
    BY <1>1, <1>2, <1>3, <2>1, <2>2

\* Selections until the counter of m points at endpoint i.
Ahead(m, i) == IF i >= Start(m) THEN i - Start(m) ELSE i - Start(m) + Total(m)

\* An endpoint has waited for as long as the counter has moved towards it, at most.
WaitingInv ==
  \A m \in Model :
    /\ waiting[m] \in [Index(m) -> Nat]
    /\ \A i \in Index(m) : waiting[m][i] + Ahead(m, i) < Total(m)

LEMMA WaitingDraw ==
  ASSUME WholeRounds, AdmissionInv, WaitingInv, NEW F, Remember(F),
         NEW h \in Handler, NEW m \in Model, Draw(h, m)
  PROVE  WaitingInv'
<1>1. waiting' = [n \in Model |-> [i \in Index(n) |-> Waited(h, n, i)]]
  <2>1. (CHOOSE g \in Handler : Moves(g)) = h
    BY DEF Draw
  <2>2. QED
    BY <2>1 DEF Remember, Draw
<1>2. /\ counters' = [counters EXCEPT ![m] = (@ + 1) % CounterRange]
      /\ counters \in [Model -> 0..(CounterRange - 1)]
  BY DEF Draw, next, AdmissionInv, RouterTypeOK
<1>3. ASSUME NEW n \in Model, n # m, NEW i \in Index(n)
      PROVE  waiting'[n][i] = waiting[n][i] /\ Ahead(n, i)' = Ahead(n, i)
  <2>1. counters'[n] = counters[n]
    BY <1>2, <1>3
  <2>2. QED
    BY <1>1, <2>1 DEF Waited, Selection, Ahead, Start, Total
<1>4. ASSUME NEW i \in Index(m)
      PROVE  /\ waiting'[m][i] \in Nat
             /\ waiting'[m][i] + Ahead(m, i)' < Total(m)
  <2>1. /\ Total(m) \in Nat \ {0} /\ Start(m) \in Index(m)
        /\ Start(m)' = IF Start(m) = Total(m) - 1 THEN 0 ELSE Start(m) + 1
    BY StartInRange, NextStart DEF AdmissionInv, Draw
  <2>2. waiting[m][i] \in Nat /\ waiting[m][i] + Ahead(m, i) < Total(m)
    BY DEF WaitingInv
  <2>3. waiting'[m][i] = Waited(h, m, i)
    BY <1>1
  <2>4. i = Start(m) => waiting'[m][i] \in {0, waiting[m][i]}
    BY <2>3 DEF Waited, Draw
  <2>5. waiting'[m][i] \in {0, waiting[m][i], waiting[m][i] + 1}
    BY <2>3 DEF Waited
  <2>6. i = Start(m) /\ waiting'[m][i] # 0 => ~Selection(m)
    BY <2>3 DEF Waited, Draw
  <2>7. Ahead(m, i)' = IF i >= Start(m)' THEN i - Start(m)' ELSE i - Start(m)' + Total(m)
    BY DEF Ahead, Total
  <2>8. ~Selection(m) => Start(m)' = Start(m)
    BY DEF Selection, Start, Total
  <2>9. Start(m) \in 0..(Total(m) - 1) /\ i \in 0..(Total(m) - 1)
    BY <2>1 DEF Index
  <2>10. CASE ~Selection(m)
    <3>1. waiting'[m][i] = waiting[m][i] /\ Ahead(m, i)' = Ahead(m, i)
      BY <2>3, <2>7, <2>8, <2>10 DEF Waited, Ahead
    <3>2. QED
      BY <2>2, <3>1
  <2>11. CASE Selection(m) /\ i = Start(m)
    BY <2>1, <2>6, <2>7, <2>9, <2>11
  <2>12. CASE i # Start(m)
    BY <2>1, <2>2, <2>5, <2>7, <2>9, <2>12 DEF Ahead
  <2>13. QED
    BY <2>10, <2>11, <2>12
<1>5. \A n \in Model : waiting'[n] \in [Index(n) -> Nat]
  <2>1. ASSUME NEW n \in Model
        PROVE  waiting'[n] \in [Index(n) -> Nat]
    <3>1. \A i \in Index(n) : waiting'[n][i] \in Nat
      BY <1>3, <1>4 DEF WaitingInv
    <3>2. QED
      BY <1>1, <3>1
  <2>2. QED
    BY <2>1
<1>6. QED
  BY <1>3, <1>4, <1>5 DEF WaitingInv, Index, Total

LEMMA WaitingStep ==
  ASSUME WholeRounds, AdmissionInv, WaitingInv, [HNext]_hvars
  PROVE  WaitingInv'
<1>1. ASSUME UNCHANGED counters, NEW F, Remember(F)
      PROVE  WaitingInv'
  <2>1. \A h \in Handler, n \in Model : \A i \in Index(n) : Waited(h, n, i) = waiting[n][i]
    BY <1>1 DEF Waited, Selection
  <2>2. CASE \E g \in Handler : Moves(g)
    <3>1. PICK h \in Handler : waiting' = [n \in Model |-> [i \in Index(n) |-> Waited(h, n, i)]]
      BY <1>1, <2>2 DEF Remember
    <3>2. \A n \in Model : waiting'[n] \in [Index(n) -> Nat]
                           /\ \A i \in Index(n) : waiting'[n][i] = waiting[n][i]
      BY <2>1, <3>1 DEF WaitingInv
    <3>3. QED
      BY <1>1, <3>2 DEF WaitingInv, Ahead, Start, Index, Total
  <2>3. CASE ~\E g \in Handler : Moves(g)
    BY <1>1, <2>3 DEF Remember, WaitingInv, Ahead, Start, Index, Total
  <2>4. QED
    BY <2>2, <2>3
<1>2. CASE UNCHANGED hvars
  BY <1>2 DEF hvars, vars, WaitingInv, Ahead, Start, Index, Total
<1>3. CASE HNext
  BY <1>1, <1>3, Draws, WaitingDraw DEF HNext, Next
<1>4. QED
  BY <1>2, <1>3

-----------------------------------------------------------------------------
LEMMA RouterStep ==
  ASSUME AdmissionInv, [HNext]_hvars
  PROVE  RouterTypeOK'
<1>1. UNCHANGED counters \/ \E m \in Model : next(m)
  BY Draws DEF HNext, Next, hvars, vars, Draw
<1>2. \A m \in Model : (counters[m] + 1) % CounterRange \in 0..(CounterRange - 1)
  BY RouterAssumption DEF AdmissionInv, RouterTypeOK
<1>3. QED
  BY <1>1, <1>2 DEF AdmissionInv, RouterTypeOK, next

LEMMA AdmissionInit == HInit => AdmissionInv
<1> SUFFICES ASSUME HInit PROVE AdmissionInv
  OBVIOUS
<1>1. RouterTypeOK
  BY RouterAssumption DEF HInit, Init, RouterInit, RouterTypeOK
<1>2. HandlersInv
  BY NoCallOK DEF HInit, Init, HandlersInv, CallInv, Points
<1>3. SharedInv
  BY DEF HInit, Init, SharedInv
<1>4. QED
  BY <1>1, <1>2, <1>3 DEF AdmissionInv

THEOREM AdmissionInvariant == HSpec => []AdmissionInv
<1>1. AdmissionInv /\ [HNext]_hvars => AdmissionInv'
  BY RouterStep, HandlersStep, SharedStep DEF AdmissionInv
<1>2. QED
  BY <1>1, AdmissionInit, PTL DEF HSpec

\* The types of the history.
HistoryOK ==
  /\ \A m \in Model : waiting[m] \in [Index(m) -> Nat]
  /\ orphaned \subseteq Keys

(* The variables keep their types; a time to live is given to counters     *)
(* that exist only (`check_rate_limit`), and every request in progress has *)
(* an endpoint of its own model.                                           *)
THEOREM AdmissionTypeCorrect == HSpec => []HTypeOK
<1>1. HInit => HistoryOK
  BY DEF HInit, HistoryOK
<1>2. HistoryOK /\ [HNext]_hvars => HistoryOK'
  <2> SUFFICES ASSUME HistoryOK, [HNext]_hvars PROVE HistoryOK'
    OBVIOUS
  <2>1. orphaned' \subseteq Keys
    BY DEF HNext, Remember, hvars, HistoryOK
  <2>2. CASE UNCHANGED waiting
    BY <2>1, <2>2 DEF HistoryOK, Index, Total
  <2>3. CASE ~UNCHANGED waiting
    <3>1. PICK h \in Handler : waiting' = [m \in Model |-> [i \in Index(m) |-> Waited(h, m, i)]]
      BY <2>3 DEF HNext, Remember, hvars
    <3>2. \A m \in Model : \A i \in Index(m) : Waited(h, m, i) \in Nat
      BY DEF Waited, HistoryOK
    <3>3. QED
      BY <2>1, <3>1, <3>2 DEF HistoryOK, Index, Total
  <2>4. QED
    BY <2>2, <2>3
<1>3. AdmissionInv /\ HistoryOK => HTypeOK
  BY DEF AdmissionInv, HandlersInv, SharedInv, CallInv, EndpointOK, HTypeOK, TypeOK, HistoryOK
<1>4. QED
  BY <1>1, <1>2, <1>3, AdmissionInvariant, PTL DEF HSpec

(* README "team shared budget -> token personal limit": on whatever way a  *)
(* request comes to an endpoint, it has increased the counter of every     *)
(* limit it is subject to, or the call that should have failed             *)
(* (`check_all_rate_limits` and the loop of `proxy_handler`).              *)
THEOREM EveryForwardIsCounted == HSpec => []ForwardedIsCounted
<1>1. AdmissionInv => ForwardedIsCounted
  BY DEF AdmissionInv, HandlersInv, CallInv, Done, ForwardedIsCounted, Gates, Calls
<1>2. QED
  BY <1>1, AdmissionInvariant, PTL

(* No endpoint is passed over for a whole round of its model's selections, *)
(* for any number of endpoints that divides the range of the counter       *)
(* (`RoundRobinCounters::next`, `select_available`).                       *)
THEOREM NoEndpointStarves == WholeRounds => (HSpec => []NoStarvation)
<1> SUFFICES ASSUME WholeRounds PROVE HSpec => []NoStarvation
  OBVIOUS
<1>1. HInit => WaitingInv
  <2> SUFFICES ASSUME HInit PROVE WaitingInv
    OBVIOUS
  <2>1. RouterTypeOK /\ waiting = [m \in Model |-> [i \in Index(m) |-> 0]]
    BY AdmissionInit DEF HInit, AdmissionInv
  <2>2. ASSUME NEW m \in Model, NEW i \in Index(m)
        PROVE  waiting[m][i] + Ahead(m, i) < Total(m)
    <3>1. Total(m) \in Nat \ {0} /\ Start(m) \in 0..(Total(m) - 1) /\ i \in 0..(Total(m) - 1)
      BY <2>1, Totals, StartInRange DEF Index
    <3>2. waiting[m][i] = 0
      BY <2>1
    <3>3. QED
      BY <3>1, <3>2 DEF Ahead
  <2>3. QED
    BY <2>1, <2>2 DEF WaitingInv
<1>2. AdmissionInv /\ WaitingInv /\ [HNext]_hvars => WaitingInv'
  BY WaitingStep
<1>3. AdmissionInv /\ WaitingInv => NoStarvation
  <2> SUFFICES ASSUME AdmissionInv, WaitingInv, NEW m \in Model, NEW i \in Index(m)
               PROVE  waiting[m][i] < Total(m)
    BY DEF NoStarvation
  <2>1. Total(m) \in Nat \ {0} /\ Start(m) \in 0..(Total(m) - 1) /\ i \in 0..(Total(m) - 1)
    BY Totals, StartInRange DEF AdmissionInv, Index
  <2>2. waiting[m][i] \in Nat /\ waiting[m][i] + Ahead(m, i) < Total(m)
    BY DEF WaitingInv
  <2>3. QED
    BY <2>1, <2>2 DEF Ahead
<1>4. QED
  BY <1>1, <1>2, <1>3, AdmissionInvariant, PTL DEF HSpec
=============================================================================
