---------------------------- MODULE RouterProofs ----------------------------
(* Theorems about the endpoint keys and about endpoint selection, for      *)
(* every configuration and every set of keys a caller excludes.            *)
EXTENDS ModelRouter, SequenceTheorems, WellFoundedInduction, TLAPS

-----------------------------------------------------------------------------
(* The two functions called mask_key.                                      *)

LEMMA LengthOfThree ==
  ASSUME NEW a \in Seq(Char), NEW b \in Seq(Char), NEW c \in Seq(Char)
  PROVE  Len(a \o b \o c) = Len(a) + Len(b) + Len(c)
<1>1. a \o b \in Seq(Char) /\ Len(a \o b) = Len(a) + Len(b)
  BY ConcatProperties
<1>2. Len((a \o b) \o c) = Len(a \o b) + Len(c)
  BY <1>1, ConcatProperties
<1>3. QED
  BY <1>1, <1>2

(* What is left of a masked key that shows n characters at either end.     *)
LEMMA EndsLength ==
  ASSUME NEW key \in Seq(Char), NEW n \in Nat, n <= Len(key)
  PROVE  Len(Ends(key, n)) = 2 * n + 3
<1> DEFINE front == SubSeq(key, 1, n)
           back == SubSeq(key, Len(key) - n + 1, Len(key))
<1>1. front \in Seq(Char) /\ Len(front) = n
  BY SubSeqProperties
<1>2. back \in Seq(Char) /\ Len(back) = n
  BY SubSeqProperties
<1>3. Dots \in Seq(Char) /\ Len(Dots) = 3
  BY CharAssumption DEF Dots
<1>4. Ends(key, n) = front \o Dots \o back
  BY DEF Ends
<1> HIDE DEF front, back
<1>5. Len(front \o Dots \o back) = Len(front) + Len(Dots) + Len(back)
  BY <1>1, <1>2, <1>3, LengthOfThree
<1>6. QED
  BY <1>1, <1>2, <1>3, <1>4, <1>5

(* Keys of up to six characters are masked alike by the request handlers   *)
(* and by the router.                                                      *)
LEMMA ShortKeysMaskAlike ==
  ASSUME NEW key \in Seq(Char), Len(key) <= 6
  PROVE  handler_mask_key(key) = router_mask_key(key)
BY DEF handler_mask_key, router_mask_key

(* A key of more than six characters has two different masked forms, and   *)
(* its form in the router is that of no key in the handlers.               *)
THEOREM LongKeysMaskApart ==
  ASSUME NEW key \in Seq(Char), Len(key) > 6, NEW other \in Seq(Char)
  PROVE  router_mask_key(key) # handler_mask_key(other)
<1>1. Len(key) \in Nat /\ Len(other) \in Nat
  BY LenProperties
<1>2. Len(router_mask_key(key)) = 9
  <2>1. 3 \in Nat /\ 3 <= Len(key) /\ ~(Len(key) <= 6) /\ 2 * 3 + 3 = 9
    BY <1>1
  <2>2. Len(Ends(key, 3)) = 9
    BY <2>1, EndsLength, Zenon
  <2>3. QED
    BY <2>1, <2>2, Zenon DEF router_mask_key
<1>3. Len(handler_mask_key(other)) # 9
  <2>1. CASE Len(other) <= 8
    BY <2>1 DEF handler_mask_key, Stars
  <2>2. CASE ~(Len(other) <= 8)
    <3>1. 4 \in Nat /\ 4 <= Len(other) /\ 2 * 4 + 3 # 9
      BY <1>1, <2>2
    <3>2. Len(Ends(other, 4)) # 9
      BY <3>1, EndsLength, Zenon
    <3>3. QED
      BY <2>2, <3>2, Zenon DEF handler_mask_key
  <2>3. QED
    BY <2>1, <2>2
<1>4. QED
  BY <1>2, <1>3, Zenon

-----------------------------------------------------------------------------
(* One pass over the endpoints.                                            *)

LEMMA LeastElement ==
  ASSUME NEW S \in SUBSET Nat, S # {}
  PROVE  \E o \in S : \A p \in S : o <= p
<1>1. IsWellFoundedOn(OpToRel(<, Nat), Nat)
  BY NatLessThanWellFounded
<1>2. PICK o \in S : \A p \in S : <<p, o>> \notin OpToRel(<, Nat)
  BY <1>1, WFMin
<1>3. \A p \in S : ~(p < o)
  BY <1>2 DEF OpToRel
<1>4. QED
  BY <1>3

(* A pass returns an endpoint of the model that is not excluded, and comes *)
(* back empty-handed only if every endpoint is.                            *)
LEMMA FirstFreeIsFree ==
  ASSUME NEW m \in Model, Total(m) \in Nat \ {0},
         NEW start \in Index(m), NEW excluded
  PROVE  LET sel == FirstFree(m, start, excluded)
         IN  /\ sel # NoEndpoint => sel \in Index(m) /\ RouterKey(m, sel) \notin excluded
             /\ sel = NoEndpoint => \A i \in Index(m) : RouterKey(m, i) \in excluded
<1> DEFINE free == FreeOffsets(m, start, excluded)
<1>1. free \subseteq Nat /\ free \subseteq Index(m)
  BY DEF FreeOffsets, Index
<1>2. CASE free = {}
  <2>1. ASSUME NEW i \in Index(m)
        PROVE  RouterKey(m, i) \in excluded
    <3>1. CASE i >= start
      <4>1. i - start \in Index(m) /\ (start + (i - start)) % Total(m) = i
        BY <3>1 DEF Index
      <4>2. QED
        BY <1>2, <4>1 DEF FreeOffsets
    <3>2. CASE i < start
      <4>1. i - start + Total(m) \in Index(m)
        BY <3>2 DEF Index
      <4>2. (start + (i - start + Total(m))) % Total(m) = i
        <5>1. start + (i - start + Total(m)) = i + Total(m)
          BY DEF Index
        <5>2. (i + Total(m)) % Total(m) = i
          BY DEF Index
        <5>3. QED
          BY <5>1, <5>2
      <4>3. QED
        BY <1>2, <4>1, <4>2 DEF FreeOffsets
    <3>3. QED
      BY <3>1, <3>2 DEF Index
  <2>2. FirstFree(m, start, excluded) = NoEndpoint
    BY <1>2 DEF FirstFree
  <2>3. QED
    BY <2>1, <2>2
<1>3. CASE free # {}
  <2>1. \E o \in free : \A p \in free : o <= p
    BY <1>1, <1>3, LeastElement
  <2>2. PICK o \in free : FirstFree(m, start, excluded) = (start + o) % Total(m)
    BY <1>3, <2>1 DEF FirstFree
  <2>3. (start + o) % Total(m) \in Index(m)
    BY <1>1, <2>2 DEF Index
  <2>4. RouterKey(m, (start + o) % Total(m)) \notin excluded
    BY <2>2 DEF FreeOffsets
  <2>5. QED
    BY <2>2, <2>3, <2>4 DEF NoEndpoint, Index
<1>4. QED
  BY <1>2, <1>3

ShortKeys(m) == \A i \in Index(m) : Len(Endpoints[m][i + 1].key) <= 6
LongKeys(m) == \A i \in Index(m) : Len(Endpoints[m][i + 1].key) > 6

\* The keys a request handler may hold, as banned or as tried.
MaskedKeys == {<<u, handler_mask_key(k)>> : u \in Url, k \in Seq(Char)}

LEMMA ConfiguredEndpoint ==
  ASSUME NEW m \in Model, NEW i \in Index(m)
  PROVE  /\ Total(m) \in Nat \ {0}
         /\ Endpoints[m][i + 1].url \in Url
         /\ Endpoints[m][i + 1].key \in Seq(Char)
<1>1. Endpoints[m] \in Seq([url : Url, key : Seq(Char), weight : Nat])
  BY RouterAssumption
<1>2. Len(Endpoints[m]) \in Nat
  BY <1>1, LenProperties
<1>3. Total(m) \in Nat \ {0} /\ i + 1 \in 1..Len(Endpoints[m])
  BY <1>2 DEF Total, Index
<1>4. Endpoints[m][i + 1] \in [url : Url, key : Seq(Char), weight : Nat]
  BY <1>1, <1>3, ElementOfSeq
<1>5. QED
  BY <1>3, <1>4

LEMMA StartInRange ==
  ASSUME RouterTypeOK, NEW m \in Model, Total(m) \in Nat \ {0}
  PROVE  Start(m) \in Index(m)
<1>1. counters[m] \in Nat
  BY RouterAssumption DEF RouterTypeOK
<1>2. QED
  BY <1>1 DEF Start, Index

(* balancer.rs line 66: for a model whose keys have at most six characters *)
(* select_available skips banned and already tried endpoints, and returns  *)
(* none only if all of them are banned or tried.                           *)
THEOREM ShortKeysRespectExclusions ==
  ASSUME RouterTypeOK, NEW m \in Model, ShortKeys(m), NEW banned, NEW tried
  PROVE  LET sel == Selected(m, banned, tried)
         IN  /\ sel # NoEndpoint =>
                  sel \in Index(m) /\ HandlerKey(m, sel) \notin banned \cup tried
             /\ sel = NoEndpoint =>
                  \A i \in Index(m) : HandlerKey(m, i) \in banned \cup tried
<1> DEFINE excluded == banned \cup tried
<1>1. \A i \in Index(m) : HandlerKey(m, i) = RouterKey(m, i)
  BY ConfiguredEndpoint, ShortKeysMaskAlike DEF ShortKeys, HandlerKey, RouterKey
<1>2. Total(m) \in Nat
  BY RouterAssumption, LenProperties DEF Total
<1>3. CASE Total(m) = 0
  BY <1>3 DEF Selected, Index
<1>4. CASE Total(m) # 0
  <2>1. Total(m) \in Nat \ {0} /\ Start(m) \in Index(m)
    BY <1>2, <1>4, StartInRange
  <2>2. Selected(m, banned, tried) = FirstFree(m, Start(m), excluded)
    BY <1>4 DEF Selected
  <2>3. QED
    BY <1>1, <2>1, <2>2, FirstFreeIsFree
<1>5. QED
  BY <1>3, <1>4

(* For a model whose keys are longer than six characters no key that a     *)
(* handler passes as banned or tried is ever recognised: select_available  *)
(* returns the endpoint the counter points at, whatever it is told.        *)
THEOREM LongKeysIgnoreExclusions ==
  ASSUME RouterTypeOK, NEW m \in Model, LongKeys(m), Total(m) # 0,
         NEW banned \in SUBSET MaskedKeys, NEW tried \in SUBSET MaskedKeys
  PROVE  Selected(m, banned, tried) = Start(m)
<1> DEFINE free == FreeOffsets(m, Start(m), banned \cup tried)
<1>1. Total(m) \in Nat \ {0} /\ Start(m) \in Index(m)
  BY RouterAssumption, LenProperties, StartInRange DEF Total
<1>2. ASSUME NEW i \in Index(m)
      PROVE  RouterKey(m, i) \notin banned \cup tried
  <2>1. /\ Endpoints[m][i + 1].key \in Seq(Char)
        /\ Len(Endpoints[m][i + 1].key) > 6
    BY ConfiguredEndpoint DEF LongKeys
  <2>2. \A k \in Seq(Char) :
          router_mask_key(Endpoints[m][i + 1].key) # handler_mask_key(k)
    BY <2>1, LongKeysMaskApart
  <2>3. RouterKey(m, i) \notin MaskedKeys
    BY <2>2 DEF RouterKey, MaskedKeys
  <2>4. QED
    BY <2>3
<1>3. free = Index(m)
  <2>1. \A o \in Index(m) : (Start(m) + o) % Total(m) \in Index(m)
    BY <1>1 DEF Index
  <2>2. QED
    BY <1>2, <2>1 DEF FreeOffsets
<1> HIDE DEF free
<1>4. 0 \in free /\ \A p \in free : 0 <= p
  BY <1>1, <1>3 DEF Index
<1>5. (CHOOSE o \in free : \A p \in free : o <= p) = 0
  <2>1. \A o \in free : (\A p \in free : o <= p) => o = 0
    BY <1>3, <1>4 DEF Index
  <2>2. QED
    BY <1>4, <2>1
<1>6. Selected(m, banned, tried) = (Start(m) + 0) % Total(m)
  BY <1>1, <1>4, <1>5 DEF Selected, FirstFree, free
<1>7. QED
  BY <1>1, <1>6 DEF Index
=============================================================================
