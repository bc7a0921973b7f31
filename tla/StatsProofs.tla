----------------------------- MODULE StatsProofs -----------------------------
(* Theorems about StatsHistory, for any number of instances and requests,  *)
(* any retention and any number of failures.                               *)
EXTENDS StatsHistory, SequenceTheorems, TLAPS

-----------------------------------------------------------------------------
(* The arithmetic of date_trunc.                                           *)
LEMMA HoursMultiply ==
  ASSUME NEW a \in Int, NEW b \in Int, a <= b
  PROVE  HourTicks * a <= HourTicks * b
BY StatsAssumption

LEMMA HoursDivide ==
  ASSUME NEW t \in Nat
  PROVE  /\ t \div HourTicks \in Nat
         /\ t % HourTicks \in 0..(HourTicks - 1)
         /\ t = HourTicks * (t \div HourTicks) + (t % HourTicks)
         /\ Trunc(t) = HourTicks * (t \div HourTicks)
BY StatsAssumption DEF Trunc

LEMMA TruncBelow ==
  ASSUME NEW t \in Nat
  PROVE  Trunc(t) \in 0..t
<1>1. 0 <= HourTicks * (t \div HourTicks)
  BY HoursDivide, StatsAssumption
<1>2. QED
  BY <1>1, HoursDivide, StatsAssumption

LEMMA TruncWhole ==
  ASSUME NEW t \in Nat
  PROVE  Trunc(t) % HourTicks = 0
<1>1. ASSUME NEW q \in Nat
      PROVE  (HourTicks * q) % HourTicks = 0
  BY StatsAssumption
<1>2. QED
  BY <1>1, HoursDivide

LEMMA TruncMonotone ==
  ASSUME NEW t \in Nat
  PROVE  Trunc(t) <= Trunc(t + 1)
<1> DEFINE q == t \div HourTicks
           p == (t + 1) \div HourTicks
<1>1. q \in Nat /\ p \in Nat /\ HourTicks * q <= t /\ t + 1 < HourTicks * p + HourTicks
  <2>1. q \in Nat /\ t % HourTicks \in 0..(HourTicks - 1) /\ t = HourTicks * q + (t % HourTicks)
    BY HoursDivide
  <2>2. /\ p \in Nat /\ (t + 1) % HourTicks \in 0..(HourTicks - 1)
        /\ t + 1 = HourTicks * p + ((t + 1) % HourTicks)
    BY HoursDivide
  <2>3. HourTicks * q \in Int /\ HourTicks * p \in Int
    BY <2>1, <2>2, StatsAssumption
  <2> HIDE DEF q, p
  <2>4. QED
    BY <2>1, <2>2, <2>3, StatsAssumption
<1> HIDE DEF q, p
<1>2. q <= p
  <2>1. SUFFICES ASSUME p + 1 <= q PROVE FALSE
    BY <1>1
  <2>2. HourTicks * (p + 1) <= HourTicks * q
    BY <1>1, <2>1, HoursMultiply
  <2>3. HourTicks * (p + 1) = HourTicks * p + HourTicks
    BY <1>1, StatsAssumption
  <2>4. HourTicks * p \in Int /\ HourTicks * q \in Int
    BY <1>1, StatsAssumption
  <2>5. QED
    BY <1>1, <2>2, <2>3, <2>4, StatsAssumption
<1>3. QED
  BY <1>1, <1>2, HoursMultiply, HoursDivide DEF q, p

-----------------------------------------------------------------------------
(* What a step does, as a disjunction the proofs split on.                 *)
LEMMA StatsCases ==
  ASSUME Next
  PROVE  \/ Tick
         \/ \E c \in Caller \cup GenericCaller : record_request(c[1], c[2])
         \/ \E r \in Request : RowStored(r)
         \/ \E i \in Instance : new(i)
         \/ \E i \in Instance : Crash(i)
         \/ \E i \in Instance : ReadCursor(i)
         \/ \E i \in Instance : UpsertTokens(i)
         \/ \E i \in Instance : UpsertTeams(i)
         \/ \E i \in Instance : Commit(i)
         \/ DeleteRequests
         \/ DeleteTokens
         \/ DeleteTeams
BY DEF Next, run_aggregation, run_cleanup

\* What the rows are known to be.
RowsOK == requests \in Seq(Row) /\ Len(requests) <= MaxRequests

\* A row keeps its hour, and what has been stored once never goes back.
RowsKept ==
  /\ DOMAIN requests \subseteq DOMAIN requests'
  /\ \A r \in DOMAIN requests :
       /\ requests'[r].at = requests[r].at
       /\ requests[r].state # "inserting" => requests'[r].state # "inserting"

LEMMA Rows ==
  ASSUME RowsOK
  PROVE  /\ DOMAIN requests = 1..Len(requests)
         /\ DOMAIN requests \subseteq Request
         /\ \A r \in DOMAIN requests : requests[r] \in Row
BY LenProperties, ElementOfSeq, StatsAssumption DEF RowsOK, Request

(* The rows keep their types and their hours in every step.                *)
LEMMA RowsStep ==
  ASSUME RowsOK, now \in Nat, [Next]_vars
  PROVE  RowsOK' /\ RowsKept
<1>0. /\ DOMAIN requests = 1..Len(requests) /\ Len(requests) \in Nat
      /\ \A r \in DOMAIN requests : requests[r] \in Row
  BY Rows, LenProperties DEF RowsOK
<1>1. CASE UNCHANGED requests
  BY <1>1 DEF RowsOK, RowsKept
<1>2. ASSUME NEW c \in Caller \cup GenericCaller, record_request(c[1], c[2])
      PROVE  RowsOK' /\ RowsKept
  <2> DEFINE row == [at |-> now, token |-> c[1], team |-> c[2], state |-> "inserting"]
  <2>1. row \in Row
    BY DEF Row
  <2> HIDE DEF row
  <2>2. requests' = Append(requests, row) /\ Len(requests) < MaxRequests
    BY <1>2 DEF record_request, row
  <2>3. /\ requests' \in Seq(Row) /\ Len(requests') = Len(requests) + 1
        /\ DOMAIN requests' = 1..(Len(requests) + 1)
        /\ \A r \in DOMAIN requests : requests'[r] = requests[r]
    BY <1>0, <2>1, <2>2, LenProperties DEF RowsOK
  <2>4. QED
    BY <1>0, <2>2, <2>3, StatsAssumption DEF RowsOK, RowsKept
<1>3. ASSUME NEW q \in Request, RowStored(q)
      PROVE  RowsOK' /\ RowsKept
  <2> DEFINE row == [requests[q] EXCEPT !.state = "stored"]
  <2>1. q \in DOMAIN requests /\ requests' = [requests EXCEPT ![q] = row]
    BY <1>3 DEF RowStored
  <2>2. row \in Row /\ row.at = requests[q].at /\ row.state = "stored"
    BY <1>0, <2>1 DEF Row
  <2> HIDE DEF row
  <2>3. /\ requests' \in Seq(Row) /\ Len(requests') = Len(requests)
        /\ \A r \in 1..Len(requests) : requests'[r] = IF r = q THEN row ELSE requests[r]
    BY <1>0, <2>1, <2>2, ExceptSeq DEF RowsOK
  <2>4. DOMAIN requests' = DOMAIN requests
    BY <2>1
  <2>5. QED
    BY <1>0, <2>2, <2>3, <2>4 DEF RowsOK, RowsKept
<1>4. ASSUME DeleteRequests
      PROVE  RowsOK' /\ RowsKept
  <2> DEFINE Row2(r) == IF r \in Stored /\ requests[r].at < now - Retention
                        THEN [requests[r] EXCEPT !.state = "deleted"] ELSE requests[r]
  <2>1. requests' = [r \in DOMAIN requests |-> Row2(r)]
    BY <1>4 DEF DeleteRequests
  <2>2. ASSUME NEW r \in DOMAIN requests
        PROVE  /\ Row2(r) \in Row /\ Row2(r).at = requests[r].at
               /\ requests[r].state # "inserting" => Row2(r).state # "inserting"
    BY <1>0, <2>2 DEF Row
  <2> HIDE DEF Row2
  <2>3. requests' \in [1..Len(requests) -> Row]
    BY <1>0, <2>1, <2>2
  <2>4. requests' \in Seq(Row) /\ Len(requests') = Len(requests)
    <3>1. requests' \in Seq(Row)
      BY <1>0, <2>3, SeqDef
    <3>2. QED
      BY <1>0, <2>3, <3>1, LenProperties
  <2>5. QED
    BY <1>0, <2>1, <2>2, <2>4 DEF RowsOK, RowsKept
<1>5. QED
  BY <1>1, <1>2, <1>3, <1>4, StatsCases
     DEF vars, tables, Tick, new, Crash, ReadCursor, UpsertTokens, UpsertTeams, Statement,
         Commit, DeleteTokens, DeleteTeams

-----------------------------------------------------------------------------
(* A statement's effect on its transaction.                                *)
LEMMA StatementTypes ==
  ASSUME HTypeOK, NEW i \in Instance,
         NEW this \in {"tokens", "teams"}, NEW next \in {"teams", "commit"},
         NEW ok, NEW effect \in Transaction, effect.to = tx[i].to,
         Statement(i, this, next, ok, effect)
  PROVE  /\ faults' \in 0..MaxFaults
         /\ pc' = [pc EXCEPT ![i] = next] /\ pc[i] = this
         /\ tx' \in [Instance -> Transaction]
         /\ \A j \in Instance : tx'[j].to = tx[j].to /\ (j # i => tx'[j] = tx[j])
         /\ UNCHANGED <<now, tables, cursor>>
<1> USE StatsAssumption
<1>1. Aborted(tx[i]) \in Transaction /\ Aborted(tx[i]).to = tx[i].to
  BY DEF HTypeOK, Transaction, Aborted
<1>2. \/ UNCHANGED tx
      \/ tx' = [tx EXCEPT ![i] = effect]
      \/ tx' = [tx EXCEPT ![i] = Aborted(tx[i])]
  BY DEF Statement, HTypeOK
<1>3. faults' \in 0..MaxFaults
  BY DEF Statement, Fault, HTypeOK
<1>4. QED
  BY <1>1, <1>2, <1>3 DEF Statement, HTypeOK

LEMMA InRangeType ==
  ASSUME RowsOK, NEW from, NEW to
  PROVE  InRange(from, to) \subseteq Request
BY Rows DEF InRange, Stored

\* The parts of HTypeOK that concern the runs.
RunsOK ==
  /\ pc \in [Instance -> {"off", "idle", "tokens", "teams", "commit"}]
  /\ tx \in [Instance -> Transaction]
  /\ \A i \in Instance : tx[i].to % HourTicks = 0 /\ (~Open(i) => tx[i] = NoTransaction)

\* The parts that concern numbers.
NumbersOK ==
  /\ now \in Nat /\ now >= HourTicks
  /\ faults \in 0..MaxFaults
  /\ token_usage \in [Request -> Nat] /\ team_usage \in [Request -> Nat]
  /\ cursor \in {Absent} \cup Nat

LEMMA TypeParts ==
  HTypeOK <=> RowsOK /\ RunsOK /\ NumbersOK /\ missed \subseteq Request /\ overlapped \in BOOLEAN
BY DEF HTypeOK, RowsOK, RunsOK, NumbersOK

LEMMA NoTransactionOK == NoTransaction \in Transaction /\ NoTransaction.to % HourTicks = 0
<1>1. 0 % HourTicks = 0
  BY TruncWhole, TruncBelow
<1>2. QED
  BY <1>1 DEF NoTransaction, Transaction

(* Every operation keeps the runs' transactions and the numbers typed.     *)
LEMMA RunsStep ==
  ASSUME HTypeOK, [Next]_vars
  PROVE  RunsOK' /\ NumbersOK'
<1> USE StatsAssumption
<1>0. RowsOK /\ RunsOK /\ NumbersOK
  BY TypeParts
<1>1. CASE UNCHANGED vars
  BY <1>0, <1>1 DEF vars, RunsOK, NumbersOK, Open
<1>2. CASE Tick
  BY <1>0, <1>2 DEF Tick, tables, RunsOK, NumbersOK, Open
<1>3. ASSUME NEW c \in Caller \cup GenericCaller, record_request(c[1], c[2])
      PROVE  RunsOK' /\ NumbersOK'
  BY <1>0, <1>3 DEF record_request, RunsOK, NumbersOK, Open
<1>4. ASSUME NEW r \in Request, RowStored(r)
      PROVE  RunsOK' /\ NumbersOK'
  BY <1>0, <1>4 DEF RowStored, RunsOK, NumbersOK, Open
<1>5. ASSUME NEW i \in Instance, new(i)
      PROVE  RunsOK' /\ NumbersOK'
  <2>1. pc[i] = "off" /\ pc' = [pc EXCEPT ![i] = "idle"] /\ UNCHANGED <<now, tables, tx>>
    BY <1>5 DEF new
  <2>2. RunsOK'
    BY <1>0, <2>1 DEF RunsOK, Open
  <2>3. cursor' \in {Absent} \cup Nat /\ faults' \in 0..MaxFaults
    BY <1>0, <1>5 DEF new, Fault, NumbersOK
  <2>4. QED
    BY <1>0, <2>1, <2>2, <2>3 DEF tables, NumbersOK
<1>6. ASSUME NEW i \in Instance, Crash(i)
      PROVE  RunsOK' /\ NumbersOK'
  <2>1. RunsOK'
    BY <1>0, <1>6, NoTransactionOK DEF Crash, RunsOK, Open
  <2>2. NumbersOK'
    BY <1>0, <1>6 DEF Crash, Fault, tables, NumbersOK
  <2>3. QED
    BY <2>1, <2>2
<1>7. ASSUME NEW i \in Instance, ReadCursor(i)
      PROVE  RunsOK' /\ NumbersOK'
  <2> DEFINE t == [NoTransaction EXCEPT !.from = cursor, !.to = Trunc(now)]
  <2>1. Trunc(now) \in Nat /\ Trunc(now) % HourTicks = 0 /\ cursor \in Nat
    BY <1>0, <1>7, TruncBelow, TruncWhole DEF ReadCursor, NumbersOK
  <2>2. t \in Transaction /\ t.to = Trunc(now)
    BY <2>1 DEF NoTransaction, Transaction
  <2> HIDE DEF t
  <2>3. tx' = [tx EXCEPT ![i] = t] /\ pc' = [pc EXCEPT ![i] = "tokens"]
    BY <1>7 DEF ReadCursor, t
  <2>4. RunsOK'
    BY <1>0, <2>1, <2>2, <2>3 DEF RunsOK, Open
  <2>5. QED
    BY <1>0, <1>7, <2>4 DEF ReadCursor, tables, NumbersOK
<1>8. ASSUME NEW i \in Instance, UpsertTokens(i)
      PROVE  RunsOK' /\ NumbersOK'
  <2> DEFINE rows == InRange(tx[i].from, tx[i].to)
             effect == [tx[i] EXCEPT !.token = rows]
  <2>1. effect \in Transaction /\ effect.to = tx[i].to
    BY <1>0, InRangeType DEF RunsOK, Transaction
  <2>2. Statement(i, "tokens", "teams", ~Clash(rows), effect)
    BY <1>8 DEF UpsertTokens
  <2> HIDE DEF effect, rows
  <2>3. QED
    BY <1>0, <2>1, <2>2, StatementTypes DEF tables, RunsOK, NumbersOK, Open
<1>9. ASSUME NEW i \in Instance, UpsertTeams(i)
      PROVE  RunsOK' /\ NumbersOK'
  <2> DEFINE rows == InRange(tx[i].from, tx[i].to)
             effect == [tx[i] EXCEPT !.team = rows]
  <2>1. effect \in Transaction /\ effect.to = tx[i].to
    BY <1>0, InRangeType DEF RunsOK, Transaction
  <2>2. Statement(i, "teams", "commit", TRUE, effect)
    BY <1>9 DEF UpsertTeams
  <2> HIDE DEF effect, rows
  <2>3. QED
    BY <1>0, <2>1, <2>2, StatementTypes DEF tables, RunsOK, NumbersOK, Open
<1>10. ASSUME NEW i \in Instance, Commit(i)
       PROVE  RunsOK' /\ NumbersOK'
  <2>1. RunsOK'
    BY <1>0, <1>10, NoTransactionOK DEF Commit, RunsOK, Open
  <2>2. token_usage' \in [Request -> Nat] /\ team_usage' \in [Request -> Nat]
    BY <1>0, <1>10 DEF Commit, Counted, NumbersOK
  <2>3. cursor' \in {Absent} \cup Nat /\ faults' \in 0..MaxFaults
    BY <1>0, <1>10 DEF Commit, Fault, NumbersOK, RunsOK, Transaction
  <2>4. QED
    BY <1>0, <1>10, <2>1, <2>2, <2>3 DEF Commit, NumbersOK
<1>11. CASE DeleteRequests
  BY <1>0, <1>11 DEF DeleteRequests, RunsOK, NumbersOK, Open
<1>12. CASE DeleteTokens
  BY <1>0, <1>12 DEF DeleteTokens, Removed, RunsOK, NumbersOK, Open
<1>13. CASE DeleteTeams
  BY <1>0, <1>13 DEF DeleteTeams, Removed, RunsOK, NumbersOK, Open
<1>14. QED
  BY <1>1, <1>2, <1>3, <1>4, <1>5, <1>6, <1>7, <1>8, <1>9, <1>10, <1>11, <1>12, <1>13, StatsCases

(* The tables, the cursor and the transactions keep their types, and the   *)
(* ranges that are aggregated end at full hours (`run_aggregation`).       *)
LEMMA TypeStep ==
  ASSUME HTypeOK, [HNext]_hvars
  PROVE  HTypeOK'
<1>1. [Next]_vars
  BY DEF HNext, hvars
<1>2. RowsOK' /\ RunsOK' /\ NumbersOK'
  BY <1>1, RowsStep, RunsStep, TypeParts DEF NumbersOK
<1>3. missed' \subseteq Request /\ overlapped' \in BOOLEAN
  <2>1. DOMAIN requests \subseteq Request
    BY Rows, TypeParts
  <2>2. QED
    BY <2>1 DEF HNext, Remember, Late, Dropped, BeforeCursor, hvars, HTypeOK
<1>4. QED
  BY <1>2, <1>3 DEF HTypeOK, RowsOK, RunsOK, NumbersOK

LEMMA TypeInit == HInit => HTypeOK
<1> SUFFICES ASSUME HInit PROVE HTypeOK
  OBVIOUS
<1>1. requests \in Seq(Row) /\ Len(requests) = 0
  BY EmptySeq DEF HInit, Init
<1>2. RowsOK
  BY <1>1, StatsAssumption DEF RowsOK
<1>3. RunsOK
  BY NoTransactionOK DEF HInit, Init, RunsOK, Open
<1>4. NumbersOK
  BY StatsAssumption DEF HInit, Init, NumbersOK, Absent
<1>5. QED
  BY <1>2, <1>3, <1>4, TypeParts DEF HInit

THEOREM StatsTypeCorrect == HSpec => []HTypeOK
BY TypeInit, TypeStep, PTL DEF HSpec

-----------------------------------------------------------------------------
(* The inductive invariants.                                               *)

Seen(r) == r \in DOMAIN requests \ missed /\ requests[r].state # "inserting"
Within(i, r) == tx[i].from <= requests[r].at /\ requests[r].at < tx[i].to

\* A run aggregates from a cursor that exists up to a later hour.
RangeInv == \A i \in Instance : Open(i) => cursor # Absent /\ tx[i].from < tx[i].to

\* What a transaction has written are rows of its range.
WrittenInv ==
  \A i \in Instance : \A r \in tx[i].token \cup tx[i].team :
    r \in DOMAIN requests /\ requests[r].state # "inserting" /\ Within(i, r)

\* Rows that do not exist are not counted.
UnknownInv == \A r \in Request \ DOMAIN requests : token_usage[r] = 0 /\ team_usage[r] = 0

\* What is before the cursor, or before the range of an open run, is counted.
Passed(r) ==
  requests[r].at < cursor \/ \E i \in Instance : Open(i) /\ requests[r].at < tx[i].from
PassedInv ==
  \A r \in Request : Seen(r) /\ ~ExpiredHour(r) /\ Passed(r) =>
    token_usage[r] >= 1 /\ team_usage[r] >= 1

\* A transaction that can still commit has written all of its range so far.
ReadInv ==
  \A i \in Instance, r \in Request :
    Seen(r) /\ Within(i, r) /\ ~tx[i].aborted =>
      /\ pc[i] \in {"teams", "commit"} => r \in tx[i].token
      /\ pc[i] = "commit" => r \in tx[i].team

\* The rows that were deleted in time are behind every range.
DeletedInv ==
  \A r \in Request : Seen(r) /\ requests[r].state = "deleted" =>
    /\ requests[r].at < cursor
    /\ \A i \in Instance : Open(i) => requests[r].at < tx[i].from

AgreeInv ==
  \A r \in Request : r \in DOMAIN requests \ missed /\ ~ExpiredHour(r) => token_usage[r] = team_usage[r]

\* Without overlap, the one open run starts at the cursor, ...
AloneInv ==
  ~overlapped =>
    \A i \in Instance : Open(i) =>
      tx[i].from = cursor /\ \A j \in Instance : Open(j) => i = j

\* ... and only what is before the cursor is counted, and once.
OnceInv ==
  ~overlapped =>
    \A r \in Request :
      /\ token_usage[r] <= 1 /\ team_usage[r] <= 1
      /\ token_usage[r] >= 1 \/ team_usage[r] >= 1 => r \in DOMAIN requests /\ requests[r].at < cursor

AgreementInv ==
  RangeInv /\ WrittenInv /\ UnknownInv /\ PassedInv /\ ReadInv /\ DeletedInv /\ AgreeInv

-----------------------------------------------------------------------------
\* Everything the steps of the aggregation are judged by.
StatsInv == HTypeOK /\ AgreementInv

LEMMA RequestRows ==
  ASSUME HTypeOK
  PROVE  /\ DOMAIN requests \subseteq Request
         /\ \A r \in DOMAIN requests : requests[r] \in Row /\ requests[r].at \in Nat
<1>1. RowsOK
  BY TypeParts
<1>2. QED
  BY <1>1, Rows DEF Row

(* The clock and the arrival of requests: nothing becomes readable.        *)
LEMMA AgreementTick ==
  ASSUME StatsInv, Tick, Remember
  PROVE  AgreementInv'
<1>1. /\ UNCHANGED <<requests, token_usage, team_usage, cursor, pc, tx>>
      /\ now' = now + 1 /\ missed \subseteq missed'
  BY DEF Tick, tables, Remember
<1>2. ASSUME NEW r \in DOMAIN requests, ~ExpiredHour(r)'
      PROVE  ~ExpiredHour(r)
  <2>1. Trunc(now) \in Nat /\ Trunc(now') \in Nat /\ Trunc(now) <= Trunc(now')
    BY <1>1, TruncMonotone, TruncBelow DEF StatsInv, HTypeOK
  <2>2. requests[r].at \in Nat /\ Trunc(requests[r].at) \in Nat
    BY RequestRows, TruncBelow DEF StatsInv
  <2>3. Trunc(requests'[r].at) = Trunc(requests[r].at)
    BY <1>1
  <2>4. QED
    BY <1>2, <2>1, <2>2, <2>3, StatsAssumption DEF ExpiredHour
<1>3. RangeInv' /\ WrittenInv' /\ UnknownInv' /\ ReadInv' /\ DeletedInv'
  BY <1>1 DEF StatsInv, AgreementInv, RangeInv, WrittenInv, UnknownInv, ReadInv, DeletedInv,
              Seen, Within, Open
<1>4. PassedInv' /\ AgreeInv'
  BY <1>1, <1>2 DEF StatsInv, AgreementInv, PassedInv, AgreeInv, Seen, Passed, Open
<1>5. QED
  BY <1>3, <1>4 DEF AgreementInv

LEMMA AgreementRecord ==
  ASSUME StatsInv, NEW c \in Caller \cup GenericCaller, record_request(c[1], c[2]), Remember
  PROVE  AgreementInv'
<1>1. /\ UNCHANGED <<now, token_usage, team_usage, cursor, pc, tx>>
      /\ missed \subseteq missed'
  BY DEF record_request, Remember
<1> DEFINE n == Len(requests) + 1
<1>2. /\ DOMAIN requests' = DOMAIN requests \cup {n} /\ n \notin DOMAIN requests
      /\ requests'[n].state = "inserting"
      /\ \A r \in DOMAIN requests : requests'[r] = requests[r]
  <2>1. DOMAIN requests = 1..Len(requests) /\ Len(requests) \in Nat
    BY Rows, LenProperties, TypeParts DEF StatsInv, HTypeOK
  <2>2. requests' = Append(requests,
          [at |-> now, token |-> c[1], team |-> c[2], state |-> "inserting"])
    BY DEF record_request
  <2>3. QED
    BY <2>1, <2>2, AppendProperties, TypeParts DEF StatsInv, HTypeOK
<1>3. \A r \in DOMAIN requests : ExpiredHour(r)' = ExpiredHour(r)
  BY <1>1, <1>2 DEF ExpiredHour
<1> HIDE DEF n
<1>4. \A r : Seen(r)' => Seen(r) /\ requests'[r] = requests[r]
  BY <1>1, <1>2 DEF Seen
<1>5. RangeInv' /\ WrittenInv' /\ UnknownInv' /\ ReadInv' /\ DeletedInv'
  BY <1>1, <1>2, <1>4 DEF StatsInv, AgreementInv, RangeInv, WrittenInv, UnknownInv, ReadInv,
                          DeletedInv, Within, Open, Seen
<1>6. PassedInv'
  BY <1>1, <1>2, <1>3, <1>4 DEF StatsInv, AgreementInv, PassedInv, Passed, Open, Seen
<1>7. AgreeInv'
  BY <1>1, <1>2, <1>3 DEF StatsInv, AgreementInv, AgreeInv, UnknownInv
<1>8. QED
  BY <1>5, <1>6, <1>7 DEF AgreementInv

(* A row that becomes readable behind a range is missed.                   *)
LEMMA AgreementStored ==
  ASSUME StatsInv, NEW q \in Request, RowStored(q), Remember
  PROVE  AgreementInv'
<1>1. /\ UNCHANGED <<now, token_usage, team_usage, cursor, pc, tx>>
      /\ missed \subseteq missed' /\ Late \subseteq missed'
  BY DEF RowStored, Remember
<1>2. /\ DOMAIN requests' = DOMAIN requests /\ q \in DOMAIN requests
      /\ requests[q].state = "inserting"
      /\ \A r \in DOMAIN requests : requests'[r].at = requests[r].at
      /\ \A r \in DOMAIN requests \ {q} : requests'[r] = requests[r]
      /\ requests'[q].state = "stored"
  BY RequestRows DEF RowStored, StatsInv, Row
<1>3. ASSUME q \notin missed'
      PROVE  ~(requests[q].at < cursor)
             /\ \A i \in Instance : Open(i) => ~(requests[q].at < tx[i].to)
  BY <1>1, <1>2, <1>3 DEF Late
<1>4. \A r \in DOMAIN requests : ExpiredHour(r)' = ExpiredHour(r)
  BY <1>1, <1>2 DEF ExpiredHour
<1>5. \A r : Seen(r)' => r = q \/ (Seen(r) /\ requests'[r] = requests[r])
  BY <1>1, <1>2 DEF Seen
<1>6. q \notin Stored /\ ~Seen(q)
  BY <1>2 DEF Seen, Stored
<1>7. RangeInv' /\ UnknownInv' /\ DeletedInv'
  BY <1>1, <1>2, <1>5 DEF StatsInv, AgreementInv, RangeInv, UnknownInv, DeletedInv, Open, Seen
<1>8. WrittenInv'
  BY <1>1, <1>2 DEF StatsInv, AgreementInv, WrittenInv, Within
<1>9. ReadInv'
  <2>1. ASSUME NEW i \in Instance, pc[i] \in {"teams", "commit"}
        PROVE  Open(i)
    BY <2>1 DEF Open
  <2>2. QED
    BY <1>1, <1>2, <1>3, <1>5, <2>1 DEF StatsInv, AgreementInv, ReadInv, Within, Seen
<1>10. PassedInv'
  <2>1. ASSUME NEW i \in Instance, Open(i), q \notin missed'
        PROVE  ~(requests[q].at < tx[i].from)
    <3>1. tx[i].from \in Nat /\ tx[i].to \in Nat /\ requests[q].at \in Nat /\ tx[i].from < tx[i].to
      BY <1>2, <2>1, RequestRows DEF StatsInv, AgreementInv, RangeInv, HTypeOK, Transaction
    <3>2. QED
      BY <1>3, <2>1, <3>1
  <2>2. Seen(q)' => ~Passed(q)'
    BY <1>1, <1>2, <1>3, <2>1 DEF Passed, Seen, Open
  <2>3. QED
    BY <1>1, <1>2, <1>4, <1>5, <2>2 DEF StatsInv, AgreementInv, PassedInv, Passed, Open, Seen
<1>11. AgreeInv'
  BY <1>1, <1>2, <1>4 DEF StatsInv, AgreementInv, AgreeInv
<1>12. QED
  BY <1>7, <1>8, <1>9, <1>10, <1>11 DEF AgreementInv

(* The first cursor leaves older rows behind, which are missed.            *)
LEMMA AgreementNew ==
  ASSUME StatsInv, NEW i \in Instance, new(i), Remember
  PROVE  AgreementInv'
<1>1. /\ UNCHANGED <<now, requests, token_usage, team_usage, tx>>
      /\ missed \subseteq missed' /\ BeforeCursor \subseteq missed'
      /\ pc[i] = "off" /\ pc' = [pc EXCEPT ![i] = "idle"]
      /\ cursor # Absent => cursor' = cursor
  BY DEF new, tables, Remember
<1>2. \A j \in Instance : Open(j)' = Open(j) /\ (Open(j) => pc'[j] = pc[j])
  BY <1>1 DEF Open, StatsInv, HTypeOK
<1>3. \A r \in DOMAIN requests : ExpiredHour(r)' = ExpiredHour(r)
  BY <1>1 DEF ExpiredHour
<1>4. \A r : Seen(r)' => Seen(r)
  BY <1>1 DEF Seen
<1>5. \A j \in Instance : Open(j) => cursor' = cursor /\ cursor' # Absent
  BY <1>1 DEF StatsInv, AgreementInv, RangeInv
<1>6. ASSUME NEW r \in DOMAIN requests, r \notin missed'
      PROVE  /\ requests[r].at < cursor' => requests[r].at < cursor
             /\ requests[r].at < cursor => requests[r].at < cursor'
  <2>1. CASE cursor = Absent
    <3>1. ~(requests[r].at < Absent)
      BY RequestRows DEF StatsInv, Absent
    <3>2. QED
      BY <1>1, <1>6, <2>1, <3>1 DEF BeforeCursor
  <2>2. QED
    BY <1>1, <2>1
<1>7. RangeInv' /\ UnknownInv' /\ AgreeInv'
  BY <1>1, <1>2, <1>3, <1>5 DEF StatsInv, AgreementInv, RangeInv, UnknownInv, AgreeInv
<1>8. WrittenInv'
  BY <1>1 DEF StatsInv, AgreementInv, WrittenInv, Within
<1>9. ReadInv'
  <2>1. \A j \in Instance : pc'[j] \in {"teams", "commit"} => pc'[j] = pc[j]
    BY <1>1 DEF StatsInv, HTypeOK
  <2>2. QED
    BY <1>1, <1>4, <2>1 DEF StatsInv, AgreementInv, ReadInv, Within
<1>10. PassedInv' /\ DeletedInv'
  BY <1>1, <1>2, <1>3, <1>4, <1>6
     DEF StatsInv, AgreementInv, PassedInv, DeletedInv, Passed, Seen
<1>11. QED
  BY <1>7, <1>8, <1>9, <1>10 DEF AgreementInv

(* A transaction that ends without effect takes its range along.           *)
LEMMA AgreementDropped ==
  ASSUME StatsInv, NEW i \in Instance, Remember,
         UNCHANGED <<now, tables, cursor>>,
         pc' = [pc EXCEPT ![i] = "off"] \/ pc' = [pc EXCEPT ![i] = "idle"],
         tx' = [tx EXCEPT ![i] = NoTransaction]
  PROVE  AgreementInv'
<1>1. UNCHANGED <<requests, token_usage, team_usage>> /\ missed \subseteq missed'
  BY DEF tables, Remember
<1>2. /\ ~Open(i)' /\ pc'[i] \notin {"teams", "commit"}
      /\ tx'[i].token = {} /\ tx'[i].team = {}
      /\ \A j \in Instance \ {i} : Open(j)' = Open(j) /\ pc'[j] = pc[j] /\ tx'[j] = tx[j]
  BY DEF Open, NoTransaction, StatsInv, HTypeOK
<1>3. \A r \in DOMAIN requests : ExpiredHour(r)' = ExpiredHour(r)
  BY <1>1 DEF ExpiredHour
<1>4. \A r : Seen(r)' => Seen(r) /\ requests'[r] = requests[r]
  BY <1>1 DEF Seen
<1>5. RangeInv' /\ UnknownInv' /\ AgreeInv'
  BY <1>1, <1>2, <1>3 DEF StatsInv, AgreementInv, RangeInv, UnknownInv, AgreeInv
<1>6. WrittenInv'
  BY <1>1, <1>2 DEF StatsInv, AgreementInv, WrittenInv, Within
<1>7. ReadInv'
  BY <1>1, <1>2, <1>4 DEF StatsInv, AgreementInv, ReadInv, Within
<1>8. PassedInv' /\ DeletedInv'
  BY <1>1, <1>2, <1>3, <1>4 DEF StatsInv, AgreementInv, PassedInv, DeletedInv, Passed, Seen
<1>9. QED
  BY <1>5, <1>6, <1>7, <1>8 DEF AgreementInv

LEMMA AgreementReadCursor ==
  ASSUME StatsInv, NEW i \in Instance, ReadCursor(i), Remember
  PROVE  AgreementInv'
<1>1. /\ UNCHANGED <<now, requests, token_usage, team_usage, cursor>>
      /\ missed \subseteq missed'
  BY DEF ReadCursor, tables, Remember
<1>2. /\ pc'[i] = "tokens" /\ pc[i] = "idle"
      /\ tx'[i].from = cursor /\ tx'[i].to = Trunc(now)
      /\ tx'[i].token = {} /\ tx'[i].team = {}
      /\ \A j \in Instance \ {i} : pc'[j] = pc[j] /\ tx'[j] = tx[j] /\ Open(j)' = Open(j)
      /\ cursor # Absent /\ cursor < Trunc(now)
  BY DEF ReadCursor, NoTransaction, StatsInv, HTypeOK, Open
<1>3. \A r \in DOMAIN requests : ExpiredHour(r)' = ExpiredHour(r)
  BY <1>1 DEF ExpiredHour
<1>4. \A r : Seen(r)' => Seen(r) /\ requests'[r] = requests[r]
  BY <1>1 DEF Seen
<1>5. RangeInv' /\ UnknownInv' /\ AgreeInv'
  BY <1>1, <1>2, <1>3 DEF StatsInv, AgreementInv, RangeInv, UnknownInv, AgreeInv
<1>6. WrittenInv'
  BY <1>1, <1>2 DEF StatsInv, AgreementInv, WrittenInv, Within
<1>7. ReadInv'
  BY <1>1, <1>2, <1>4 DEF StatsInv, AgreementInv, ReadInv, Within
<1>8. PassedInv' /\ DeletedInv'
  BY <1>1, <1>2, <1>3, <1>4 DEF StatsInv, AgreementInv, PassedInv, DeletedInv, Passed, Seen
<1>9. QED
  BY <1>5, <1>6, <1>7, <1>8 DEF AgreementInv

\* A statement that fails, or comes too late.
AbortedStep(i) ==
  /\ tx'[i].aborted
  /\ tx'[i].from = tx[i].from /\ tx'[i].to = tx[i].to
  /\ tx'[i].token \subseteq tx[i].token /\ tx'[i].team \subseteq tx[i].team

LEMMA StatementOutcome ==
  ASSUME HTypeOK, NEW i \in Instance, NEW this, NEW next, NEW ok, NEW effect,
         Statement(i, this, next, ok, effect)
  PROVE  /\ UNCHANGED <<now, tables, cursor>>
         /\ pc[i] = this /\ pc' = [pc EXCEPT ![i] = next]
         /\ \A j \in Instance \ {i} : tx'[j] = tx[j]
         /\ AbortedStep(i) \/ (~tx[i].aborted /\ tx'[i] = effect)
<1>1. /\ UNCHANGED <<now, tables, cursor>>
      /\ pc[i] = this /\ pc' = [pc EXCEPT ![i] = next]
      /\ \/ tx[i].aborted /\ UNCHANGED tx
         \/ ~tx[i].aborted /\ tx' = [tx EXCEPT ![i] = effect]
         \/ tx' = [tx EXCEPT ![i] = Aborted(tx[i])]
  BY DEF Statement
<1>2. tx \in [Instance -> Transaction] /\ tx[i] \in Transaction
  BY DEF HTypeOK
<1>3. /\ Aborted(tx[i]).aborted /\ Aborted(tx[i]).token = {} /\ Aborted(tx[i]).team = {}
      /\ Aborted(tx[i]).from = tx[i].from /\ Aborted(tx[i]).to = tx[i].to
  BY <1>2 DEF Aborted, Transaction
<1>4. QED
  BY <1>1, <1>2, <1>3 DEF AbortedStep

\* What a SELECT of the range returns, in a state of the invariant.
LEMMA RangeRows ==
  ASSUME StatsInv, NEW i \in Instance, Open(i), NEW rows,
         rows = InRange(tx[i].from, tx[i].to)
  PROVE  /\ \A r \in rows : r \in DOMAIN requests /\ requests[r].state # "inserting" /\ Within(i, r)
         /\ \A r \in Request : Seen(r) /\ Within(i, r) => r \in rows
<1>1. \A r \in rows : r \in DOMAIN requests /\ requests[r].state # "inserting" /\ Within(i, r)
  BY DEF InRange, Stored, Within
<1>2. ASSUME NEW r \in Request, Seen(r), Within(i, r)
      PROVE  r \in rows
  <2>1. r \in DOMAIN requests /\ requests[r].state \in {"stored", "deleted"}
    BY <1>2, RequestRows DEF Seen, StatsInv, Row
  <2>2. requests[r].state # "deleted"
    <3>1. requests[r].at \in Nat /\ tx[i].from \in Nat
      BY <2>1, RequestRows DEF StatsInv, HTypeOK, Transaction
    <3>2. QED
      BY <1>2, <3>1 DEF StatsInv, AgreementInv, DeletedInv, Within
  <2>3. QED
    BY <1>2, <2>1, <2>2 DEF InRange, Stored, Within
<1>3. QED
  BY <1>1, <1>2

LEMMA AgreementUpsertTokens ==
  ASSUME StatsInv, NEW i \in Instance, UpsertTokens(i), Remember
  PROVE  AgreementInv'
<1> DEFINE rows == InRange(tx[i].from, tx[i].to)
           effect == [tx[i] EXCEPT !.token = rows]
<1>1. Statement(i, "tokens", "teams", ~Clash(rows), effect)
  BY DEF UpsertTokens
<1>2. tx[i] \in Transaction /\ effect.from = tx[i].from /\ effect.to = tx[i].to
      /\ effect.token = rows /\ effect.team = tx[i].team
  BY DEF StatsInv, HTypeOK, Transaction
<1>3. rows = InRange(tx[i].from, tx[i].to)
  OBVIOUS
<1> HIDE DEF rows, effect
<1>4. /\ UNCHANGED <<now, tables, cursor>>
      /\ pc[i] = "tokens" /\ pc' = [pc EXCEPT ![i] = "teams"]
      /\ \A j \in Instance \ {i} : tx'[j] = tx[j]
      /\ AbortedStep(i) \/ tx'[i] = effect
  BY <1>1, StatementOutcome DEF StatsInv
<1>5. UNCHANGED <<requests, token_usage, team_usage>> /\ missed \subseteq missed'
  BY <1>4 DEF tables, Remember
<1>6. /\ Open(i) /\ pc'[i] = "teams"
      /\ \A j \in Instance : Open(j)' = Open(j) /\ tx'[j].from = tx[j].from /\ tx'[j].to = tx[j].to
      /\ \A j \in Instance \ {i} : pc'[j] = pc[j]
  BY <1>2, <1>4 DEF Open, AbortedStep, StatsInv, HTypeOK
<1>7. /\ \A r \in rows : r \in DOMAIN requests /\ requests[r].state # "inserting" /\ Within(i, r)
      /\ \A r \in Request : Seen(r) /\ Within(i, r) => r \in rows
  BY <1>3, <1>6, RangeRows
<1>8. \A r \in DOMAIN requests : ExpiredHour(r)' = ExpiredHour(r)
  BY <1>4, <1>5 DEF ExpiredHour
<1>9. \A r : Seen(r)' => Seen(r)
  BY <1>5 DEF Seen
<1>10. RangeInv' /\ UnknownInv' /\ AgreeInv' /\ PassedInv' /\ DeletedInv'
  BY <1>4, <1>5, <1>6, <1>8, <1>9
     DEF StatsInv, AgreementInv, RangeInv, UnknownInv, AgreeInv, PassedInv, DeletedInv, Passed, Seen
<1>11. WrittenInv'
  BY <1>2, <1>4, <1>5, <1>6, <1>7 DEF StatsInv, AgreementInv, WrittenInv, Within, AbortedStep
<1>12. ReadInv'
  BY <1>2, <1>4, <1>5, <1>6, <1>7, <1>9 DEF StatsInv, AgreementInv, ReadInv, Within, AbortedStep
<1>13. QED
  BY <1>10, <1>11, <1>12 DEF AgreementInv

LEMMA AgreementUpsertTeams ==
  ASSUME StatsInv, NEW i \in Instance, UpsertTeams(i), Remember
  PROVE  AgreementInv'
<1> DEFINE rows == InRange(tx[i].from, tx[i].to)
           effect == [tx[i] EXCEPT !.team = rows]
<1>1. Statement(i, "teams", "commit", TRUE, effect)
  BY DEF UpsertTeams
<1>2. tx[i] \in Transaction /\ effect.from = tx[i].from /\ effect.to = tx[i].to
      /\ effect.team = rows /\ effect.token = tx[i].token
  BY DEF StatsInv, HTypeOK, Transaction
<1>3. rows = InRange(tx[i].from, tx[i].to)
  OBVIOUS
<1> HIDE DEF rows, effect
<1>4. /\ UNCHANGED <<now, tables, cursor>>
      /\ pc[i] = "teams" /\ pc' = [pc EXCEPT ![i] = "commit"]
      /\ \A j \in Instance \ {i} : tx'[j] = tx[j]
      /\ AbortedStep(i) \/ (~tx[i].aborted /\ tx'[i] = effect)
  BY <1>1, StatementOutcome DEF StatsInv
<1>5. UNCHANGED <<requests, token_usage, team_usage>> /\ missed \subseteq missed'
  BY <1>4 DEF tables, Remember
<1>6. /\ Open(i) /\ pc'[i] = "commit"
      /\ \A j \in Instance : Open(j)' = Open(j) /\ tx'[j].from = tx[j].from /\ tx'[j].to = tx[j].to
      /\ \A j \in Instance \ {i} : pc'[j] = pc[j]
  BY <1>2, <1>4 DEF Open, AbortedStep, StatsInv, HTypeOK
<1>7. /\ \A r \in rows : r \in DOMAIN requests /\ requests[r].state # "inserting" /\ Within(i, r)
      /\ \A r \in Request : Seen(r) /\ Within(i, r) => r \in rows
  BY <1>3, <1>6, RangeRows
<1>8. \A r \in DOMAIN requests : ExpiredHour(r)' = ExpiredHour(r)
  BY <1>4, <1>5 DEF ExpiredHour
<1>9. \A r : Seen(r)' => Seen(r)
  BY <1>5 DEF Seen
<1>10. RangeInv' /\ UnknownInv' /\ AgreeInv' /\ PassedInv' /\ DeletedInv'
  BY <1>4, <1>5, <1>6, <1>8, <1>9
     DEF StatsInv, AgreementInv, RangeInv, UnknownInv, AgreeInv, PassedInv, DeletedInv, Passed, Seen
<1>11. WrittenInv'
  BY <1>2, <1>4, <1>5, <1>6, <1>7 DEF StatsInv, AgreementInv, WrittenInv, Within, AbortedStep
<1>12. ReadInv'
  BY <1>2, <1>4, <1>5, <1>6, <1>7, <1>9 DEF StatsInv, AgreementInv, ReadInv, Within, AbortedStep
<1>13. QED
  BY <1>10, <1>11, <1>12 DEF AgreementInv

(* The cursor moves over a range of which every row has been counted.      *)
LEMMA AgreementCommit ==
  ASSUME StatsInv, NEW i \in Instance, Commit(i), Remember
  PROVE  AgreementInv'
<1>1. CASE UNCHANGED <<token_usage, team_usage, cursor>>
  BY <1>1, AgreementDropped DEF Commit, tables
<1>2. CASE /\ ~tx[i].aborted
           /\ token_usage' = Counted(token_usage, tx[i].token)
           /\ team_usage' = Counted(team_usage, tx[i].team)
           /\ cursor' = tx[i].to
  <2>1. UNCHANGED <<now, requests>> /\ missed \subseteq missed' /\ pc[i] = "commit" /\ Open(i)
    BY DEF Commit, Remember, Open
  <2>2. /\ ~Open(i)' /\ pc'[i] = "idle" /\ tx'[i].token = {} /\ tx'[i].team = {}
        /\ \A j \in Instance \ {i} : Open(j)' = Open(j) /\ pc'[j] = pc[j] /\ tx'[j] = tx[j]
    BY DEF Commit, Open, NoTransaction, StatsInv, HTypeOK
  <2>3. /\ tx[i].from \in Nat /\ tx[i].to \in Nat /\ tx[i].from < tx[i].to
        /\ cursor \in Int /\ cursor' # Absent
    BY <1>2, <2>1 DEF StatsInv, AgreementInv, RangeInv, HTypeOK, Transaction, Absent
  <2>4. /\ token_usage \in [Request -> Nat] /\ team_usage \in [Request -> Nat]
        /\ \A r \in DOMAIN requests : requests[r].at \in Nat
        /\ DOMAIN requests \subseteq Request
    BY RequestRows DEF StatsInv, HTypeOK
  <2>5. \A r \in Request :
          /\ token_usage'[r] = token_usage[r] + IF r \in tx[i].token THEN 1 ELSE 0
          /\ team_usage'[r] = team_usage[r] + IF r \in tx[i].team THEN 1 ELSE 0
    BY <1>2 DEF Counted
  <2>6. \A r \in DOMAIN requests : ExpiredHour(r)' = ExpiredHour(r)
    BY <2>1 DEF ExpiredHour
  <2>7. \A r : Seen(r)' => Seen(r) /\ r \in DOMAIN requests /\ requests'[r] = requests[r]
    BY <2>1 DEF Seen
  <2>8. \A r \in tx[i].token \cup tx[i].team :
          r \in DOMAIN requests /\ requests[r].state # "inserting" /\ Within(i, r)
    BY DEF StatsInv, AgreementInv, WrittenInv
  <2>9. \A r \in Request : Seen(r) /\ Within(i, r) => r \in tx[i].token /\ r \in tx[i].team
    BY <1>2, <2>1 DEF StatsInv, AgreementInv, ReadInv
  <2>10. RangeInv' /\ WrittenInv'
    BY <2>1, <2>2, <2>3 DEF StatsInv, AgreementInv, RangeInv, WrittenInv, Within
  <2>11. ReadInv'
    BY <2>1, <2>2, <2>7 DEF StatsInv, AgreementInv, ReadInv, Within
  <2>12. UnknownInv'
    BY <2>1, <2>4, <2>5, <2>8 DEF StatsInv, AgreementInv, UnknownInv
  <2>13. AgreeInv'
    <3>1. ASSUME NEW r \in Request, r \in DOMAIN requests' \ missed', ~ExpiredHour(r)'
          PROVE  token_usage'[r] = team_usage'[r]
      <4>1. r \in DOMAIN requests \ missed /\ ~ExpiredHour(r) /\ token_usage[r] = team_usage[r]
        BY <2>1, <2>6, <3>1 DEF StatsInv, AgreementInv, AgreeInv
      <4>2. r \in tx[i].token <=> r \in tx[i].team
        BY <2>8, <2>9, <4>1 DEF Seen
      <4>3. QED
        BY <2>5, <4>1, <4>2
    <3>2. QED
      BY <3>1 DEF AgreeInv
  <2>14. DeletedInv'
    <3>1. ASSUME NEW r \in Request, Seen(r)', requests'[r].state = "deleted"
          PROVE  requests'[r].at < cursor' /\ \A j \in Instance : Open(j)' => requests'[r].at < tx'[j].from
      <4>1. /\ r \in DOMAIN requests
            /\ \A j \in Instance : Open(j) => requests[r].at < tx[j].from
        BY <2>1, <2>7, <3>1 DEF StatsInv, AgreementInv, DeletedInv
      <4>2. requests[r].at < cursor'
        BY <1>2, <2>1, <2>3, <2>4, <4>1
      <4>3. QED
        BY <2>1, <2>2, <4>1, <4>2
    <3>2. QED
      BY <3>1 DEF DeletedInv
  <2>15. PassedInv'
    <3>1. ASSUME NEW r \in Request, Seen(r)', ~ExpiredHour(r)', Passed(r)'
          PROVE  token_usage'[r] >= 1 /\ team_usage'[r] >= 1
      <4>1. Seen(r) /\ ~ExpiredHour(r) /\ r \in DOMAIN requests /\ requests[r].at \in Nat
        BY <2>4, <2>6, <2>7, <3>1
      <4>2. CASE Within(i, r)
        BY <2>4, <2>5, <2>9, <4>1, <4>2
      <4>3. CASE ~Within(i, r)
        <5>1. Passed(r)
          <6>1. requests[r].at < tx[i].to \/ \E j \in Instance : Open(j) /\ requests[r].at < tx[j].from
            BY <1>2, <2>1, <2>2, <3>1 DEF Passed
          <6>2. QED
            BY <2>1, <2>3, <4>1, <4>3, <6>1 DEF Passed, Within
        <5>2. token_usage[r] >= 1 /\ team_usage[r] >= 1
          BY <4>1, <5>1 DEF StatsInv, AgreementInv, PassedInv
        <5>3. QED
          BY <2>4, <2>5, <5>2
      <4>4. QED
        BY <4>2, <4>3
    <3>2. QED
      BY <3>1 DEF PassedInv
  <2>16. QED
    BY <2>10, <2>11, <2>12, <2>13, <2>14, <2>15 DEF AgreementInv
<1>3. QED
  BY <1>1, <1>2 DEF Commit

(* Of the rows, the cleanup deletes only those that are not needed; the    *)
(* others are missed.                                                      *)
LEMMA AgreementDeleteRequests ==
  ASSUME StatsInv, DeleteRequests, Remember
  PROVE  AgreementInv'
<1>1. /\ UNCHANGED <<now, token_usage, team_usage, cursor, pc, tx>>
      /\ missed \subseteq missed' /\ Dropped \subseteq missed'
  BY DEF DeleteRequests, Remember
<1>2. /\ DOMAIN requests' = DOMAIN requests
      /\ \A r \in DOMAIN requests :
           /\ requests'[r].at = requests[r].at
           /\ requests'[r].state = "inserting" <=> requests[r].state = "inserting"
           /\ requests'[r] = requests[r] \/ (requests[r].state = "stored" /\ requests'[r].state = "deleted")
  <2> DEFINE Row2(r) == IF r \in Stored /\ requests[r].at < now - Retention
                        THEN [requests[r] EXCEPT !.state = "deleted"] ELSE requests[r]
  <2>1. requests' = [r \in DOMAIN requests |-> Row2(r)]
    BY DEF DeleteRequests
  <2>2. ASSUME NEW r \in DOMAIN requests
        PROVE  /\ Row2(r).at = requests[r].at
               /\ Row2(r).state = "inserting" <=> requests[r].state = "inserting"
               /\ Row2(r) = requests[r] \/ (requests[r].state = "stored" /\ Row2(r).state = "deleted")
    BY <2>2, RequestRows DEF StatsInv, Row, Stored
  <2> HIDE DEF Row2
  <2>3. QED
    BY <2>1, <2>2
<1>3. \A r \in DOMAIN requests : ExpiredHour(r)' = ExpiredHour(r)
  BY <1>1, <1>2 DEF ExpiredHour
<1>4. \A r : Seen(r)' => Seen(r) /\ r \in DOMAIN requests
  BY <1>1, <1>2 DEF Seen
<1>5. RangeInv' /\ UnknownInv' /\ AgreeInv'
  BY <1>1, <1>2, <1>3 DEF StatsInv, AgreementInv, RangeInv, UnknownInv, AgreeInv, Open
<1>6. WrittenInv' /\ ReadInv'
  BY <1>1, <1>2, <1>4 DEF StatsInv, AgreementInv, WrittenInv, ReadInv, Within
<1>7. PassedInv'
  BY <1>1, <1>2, <1>3, <1>4 DEF StatsInv, AgreementInv, PassedInv, Passed, Open
<1>8. DeletedInv'
  <2>1. ASSUME NEW r \in Request, Seen(r)', requests'[r].state = "deleted"
        PROVE  requests[r].at < cursor /\ \A i \in Instance : Open(i) => requests[r].at < tx[i].from
    <3>1. Seen(r) /\ r \in DOMAIN requests /\ requests[r].at \in Nat
      BY <1>4, <2>1, RequestRows DEF StatsInv
    <3>2. CASE requests[r].state = "deleted"
      BY <3>1, <3>2 DEF StatsInv, AgreementInv, DeletedInv
    <3>3. CASE requests[r].state # "deleted"
      <4>1. r \notin Dropped /\ requests[r].state = "stored"
        BY <1>1, <1>2, <2>1, <3>1, <3>3 DEF Seen
      <4>2. ~(cursor <= requests[r].at)
            /\ \A i \in Instance : Open(i) => ~(tx[i].from <= requests[r].at)
        BY <2>1, <3>1, <4>1 DEF Dropped
      <4>3. cursor \in Int /\ \A i \in Instance : tx[i].from \in Nat
        BY DEF StatsInv, HTypeOK, Transaction, Absent
      <4>4. QED
        BY <3>1, <4>2, <4>3
    <3>4. QED
      BY <3>2, <3>3
  <2>2. QED
    BY <1>1, <1>2, <1>4, <2>1 DEF DeletedInv, Open
<1>9. QED
  BY <1>5, <1>6, <1>7, <1>8 DEF AgreementInv

(* Of the hourly tables it deletes hours nobody asks for any more.         *)
LEMMA AgreementDeleteHours ==
  ASSUME StatsInv, Remember, UNCHANGED <<now, requests, cursor, pc, tx>>,
         \/ token_usage' = Removed(token_usage) /\ UNCHANGED team_usage
         \/ team_usage' = Removed(team_usage) /\ UNCHANGED token_usage
  PROVE  AgreementInv'
<1>1. missed \subseteq missed'
  BY DEF Remember
<1>2. \A r \in Request :
        /\ r \in DOMAIN requests /\ ~ExpiredHour(r) =>
             token_usage'[r] = token_usage[r] /\ team_usage'[r] = team_usage[r]
        /\ r \notin DOMAIN requests =>
             token_usage'[r] = token_usage[r] /\ team_usage'[r] = team_usage[r]
  BY DEF Removed
<1>3. \A r \in DOMAIN requests : ExpiredHour(r)' = ExpiredHour(r)
  BY DEF ExpiredHour
<1>4. \A r : Seen(r)' => Seen(r) /\ r \in DOMAIN requests
  BY <1>1 DEF Seen
<1>5. RangeInv' /\ WrittenInv' /\ ReadInv' /\ DeletedInv'
  BY <1>4 DEF StatsInv, AgreementInv, RangeInv, WrittenInv, ReadInv, DeletedInv, Open, Within
<1>6. UnknownInv' /\ AgreeInv'
  BY <1>1, <1>2, <1>3 DEF StatsInv, AgreementInv, UnknownInv, AgreeInv
<1>7. PassedInv'
  BY <1>2, <1>3, <1>4 DEF StatsInv, AgreementInv, PassedInv, Passed, Open
<1>8. QED
  BY <1>5, <1>6, <1>7 DEF AgreementInv

LEMMA AgreementStep ==
  ASSUME StatsInv, [HNext]_hvars
  PROVE  AgreementInv'
<1>1. CASE UNCHANGED hvars
  BY <1>1 DEF hvars, vars, StatsInv, AgreementInv, RangeInv, WrittenInv, UnknownInv, PassedInv,
              ReadInv, DeletedInv, AgreeInv, Seen, Within, Passed, Open, ExpiredHour
<1>2. CASE HNext
  <2>1. Next /\ Remember
    BY <1>2 DEF HNext
  <2>2. ASSUME NEW i \in Instance, Crash(i)
        PROVE  AgreementInv'
    BY <2>1, <2>2, AgreementDropped DEF Crash
  <2>3. CASE DeleteTokens \/ DeleteTeams
    BY <2>1, <2>3, AgreementDeleteHours DEF DeleteTokens, DeleteTeams
  <2>4. QED
    BY <2>1, <2>2, <2>3, StatsCases, AgreementTick, AgreementRecord, AgreementStored,
       AgreementNew, AgreementReadCursor, AgreementUpsertTokens, AgreementUpsertTeams,
       AgreementCommit, AgreementDeleteRequests
<1>3. QED
  BY <1>1, <1>2

LEMMA AgreementInit == HInit => AgreementInv
BY DEF HInit, Init, AgreementInv, RangeInv, WrittenInv, UnknownInv, PassedInv, ReadInv,
       DeletedInv, AgreeInv, Seen, Within, Open, NoTransaction

THEOREM StatsInvariant == HSpec => []StatsInv
<1>1. HInit => StatsInv
  BY TypeInit, AgreementInit DEF StatsInv
<1>2. StatsInv /\ [HNext]_hvars => StatsInv'
  BY TypeStep, AgreementStep DEF StatsInv
<1>3. QED
  BY <1>1, <1>2, PTL DEF HSpec

(* The cursor only passes hours that are in both hourly tables, except for *)
(* the rows that were not there to be read: `run_aggregation` moves it in  *)
(* the transaction that counts them.                                       *)
THEOREM StatsPassedIsCounted == HSpec => []PassedIsCounted
<1>1. StatsInv => PassedIsCounted
  BY RequestRows DEF StatsInv, AgreementInv, PassedInv, PassedIsCounted, Passed, Seen
<1>2. QED
  BY <1>1, StatsInvariant, PTL

(* The two hourly tables agree about every row that was there to be read.  *)
THEOREM StatsTablesAgree == HSpec => []TablesAgree
<1>1. StatsInv => TablesAgree
  BY RequestRows DEF StatsInv, AgreementInv, AgreeInv, TablesAgree
<1>2. QED
  BY <1>1, StatsInvariant, PTL

-----------------------------------------------------------------------------
\* What CountedOnce rests on.
AloneStatsInv == StatsInv /\ AloneInv /\ OnceInv

(* Only a commit adds to a table, and what it adds lies from the cursor    *)
(* on, where nothing has been counted yet.                                 *)
LEMMA OnceCommit ==
  ASSUME AloneStatsInv, NEW i \in Instance, Commit(i), ~overlapped
  PROVE  /\ \A j \in Instance : ~Open(j)'
         /\ \A r \in Request :
              /\ token_usage'[r] <= 1 /\ team_usage'[r] <= 1
              /\ token_usage'[r] >= 1 \/ team_usage'[r] >= 1 =>
                   r \in DOMAIN requests' /\ requests'[r].at < cursor'
<1>1. pc[i] = "commit" /\ Open(i) /\ UNCHANGED requests
  BY DEF Commit, Open
<1>2. tx[i].from = cursor /\ \A j \in Instance : Open(j) => i = j
  BY <1>1 DEF AloneStatsInv, AloneInv
<1>3. pc'[i] = "idle" /\ \A j \in Instance \ {i} : pc'[j] = pc[j]
  BY DEF Commit, AloneStatsInv, StatsInv, HTypeOK
<1>4. \A j \in Instance : ~Open(j)'
  BY <1>2, <1>3 DEF Open
<1>5. CASE UNCHANGED <<token_usage, team_usage, cursor>>
  BY <1>1, <1>4, <1>5 DEF AloneStatsInv, OnceInv
<1>6. CASE /\ token_usage' = Counted(token_usage, tx[i].token)
           /\ team_usage' = Counted(team_usage, tx[i].team)
           /\ cursor' = tx[i].to
  <2>1. tx[i].from \in Nat /\ tx[i].to \in Nat /\ tx[i].from < tx[i].to
    BY <1>1 DEF AloneStatsInv, StatsInv, HTypeOK, Transaction, AgreementInv, RangeInv
  <2>2. /\ token_usage \in [Request -> Nat] /\ team_usage \in [Request -> Nat]
        /\ \A r \in DOMAIN requests : requests[r].at \in Nat
    BY RequestRows DEF AloneStatsInv, StatsInv, HTypeOK
  <2>3. \A r \in Request :
          /\ token_usage'[r] = token_usage[r] + IF r \in tx[i].token THEN 1 ELSE 0
          /\ team_usage'[r] = team_usage[r] + IF r \in tx[i].team THEN 1 ELSE 0
    BY <1>6 DEF Counted
  <2>4. \A r \in tx[i].token \cup tx[i].team :
          r \in DOMAIN requests /\ cursor <= requests[r].at /\ requests[r].at < tx[i].to
    BY <1>2 DEF AloneStatsInv, StatsInv, AgreementInv, WrittenInv, Within
  <2>5. \A r \in Request :
          /\ token_usage[r] <= 1 /\ team_usage[r] <= 1
          /\ token_usage[r] >= 1 \/ team_usage[r] >= 1 => r \in DOMAIN requests /\ requests[r].at < cursor
    BY DEF AloneStatsInv, OnceInv
  <2>6. ASSUME NEW r \in Request
        PROVE  /\ token_usage'[r] <= 1 /\ team_usage'[r] <= 1
               /\ token_usage'[r] >= 1 \/ team_usage'[r] >= 1 =>
                    r \in DOMAIN requests /\ requests[r].at < cursor'
    <3>1. CASE r \in tx[i].token \cup tx[i].team
      <4>1. token_usage[r] = 0 /\ team_usage[r] = 0
        BY <1>2, <2>1, <2>2, <2>4, <2>5, <3>1
      <4>2. QED
        BY <1>6, <2>3, <2>4, <3>1, <4>1
    <3>2. CASE r \notin tx[i].token \cup tx[i].team
      BY <1>2, <1>6, <2>1, <2>2, <2>3, <2>5, <3>2
    <3>3. QED
      BY <3>1, <3>2
  <2>7. QED
    BY <1>1, <1>4, <2>6
<1>7. QED
  BY <1>5, <1>6 DEF Commit

LEMMA OnceStep ==
  ASSUME AloneStatsInv, [HNext]_hvars
  PROVE  AloneInv' /\ OnceInv'
<1>1. CASE UNCHANGED hvars
  BY <1>1 DEF hvars, vars, AloneStatsInv, AloneInv, OnceInv, Open
<1>2. CASE HNext /\ ~overlapped'
  <2>1. Next /\ ~overlapped /\ \A j, k \in Instance : Open(j)' /\ Open(k)' => j = k
    BY <1>2 DEF HNext, Remember
  <2>2. /\ \A j \in Instance : Open(j) => tx[j].from = cursor /\ cursor # Absent
        /\ \A r \in Request :
             /\ token_usage[r] <= 1 /\ team_usage[r] <= 1
             /\ token_usage[r] >= 1 \/ team_usage[r] >= 1 =>
                  r \in DOMAIN requests /\ requests[r].at < cursor
    BY <2>1 DEF AloneStatsInv, AloneInv, OnceInv, StatsInv, AgreementInv, RangeInv
  <2>3. RowsKept
    BY <2>1, RowsStep, TypeParts DEF AloneStatsInv, StatsInv, NumbersOK
  <2>4. pc \in [Instance -> {"off", "idle", "tokens", "teams", "commit"}]
        /\ tx \in [Instance -> Transaction] /\ tx' \in [Instance -> Transaction]
    BY TypeStep DEF AloneStatsInv, StatsInv, HTypeOK
  <2>5. \/ /\ \A j \in Instance : Open(j)' => tx'[j].from = cursor'
           /\ cursor' = cursor
           /\ \A r \in Request : token_usage'[r] \in {0, token_usage[r]}
                                 /\ team_usage'[r] \in {0, team_usage[r]}
        \/ \E i \in Instance : new(i)
        \/ \E i \in Instance : Commit(i)
    <3>1. CASE Tick
      BY <2>2, <3>1 DEF Tick, tables, Open
    <3>2. ASSUME NEW c \in Caller \cup GenericCaller, record_request(c[1], c[2])
          PROVE  <2>5!1
      BY <2>2, <3>2 DEF record_request, Open
    <3>3. ASSUME NEW r \in Request, RowStored(r)
          PROVE  <2>5!1
      BY <2>2, <3>3 DEF RowStored, Open
    <3>4. ASSUME NEW i \in Instance, Crash(i)
          PROVE  <2>5!1
      BY <2>2, <2>4, <3>4 DEF Crash, tables, Open
    <3>5. ASSUME NEW i \in Instance, ReadCursor(i)
          PROVE  <2>5!1
      BY <2>2, <2>4, <3>5 DEF ReadCursor, tables, Open, NoTransaction
    <3>6. ASSUME NEW i \in Instance, UpsertTokens(i)
          PROVE  <2>5!1
      <4> DEFINE effect == [tx[i] EXCEPT !.token = InRange(tx[i].from, tx[i].to)]
      <4>1. Statement(i, "tokens", "teams", ~Clash(InRange(tx[i].from, tx[i].to)), effect)
        BY <3>6 DEF UpsertTokens
      <4>2. effect.from = tx[i].from
        BY <2>4 DEF Transaction
      <4> HIDE DEF effect
      <4>3. HTypeOK
        BY DEF AloneStatsInv, StatsInv
      <4>4. /\ UNCHANGED <<now, tables, cursor>> /\ pc[i] = "tokens"
            /\ pc' = [pc EXCEPT ![i] = "teams"]
            /\ \A j \in Instance \ {i} : tx'[j] = tx[j]
            /\ AbortedStep(i) \/ tx'[i] = effect
        BY <4>1, <4>3, StatementOutcome
      <4>5. tx'[i].from = tx[i].from
        BY <4>2, <4>4 DEF AbortedStep
      <4>6. QED
        BY <2>2, <2>4, <4>4, <4>5 DEF tables, Open
    <3>7. ASSUME NEW i \in Instance, UpsertTeams(i)
          PROVE  <2>5!1
      <4> DEFINE effect == [tx[i] EXCEPT !.team = InRange(tx[i].from, tx[i].to)]
      <4>1. Statement(i, "teams", "commit", TRUE, effect)
        BY <3>7 DEF UpsertTeams
      <4>2. effect.from = tx[i].from
        BY <2>4 DEF Transaction
      <4> HIDE DEF effect
      <4>3. HTypeOK
        BY DEF AloneStatsInv, StatsInv
      <4>4. /\ UNCHANGED <<now, tables, cursor>> /\ pc[i] = "teams"
            /\ pc' = [pc EXCEPT ![i] = "commit"]
            /\ \A j \in Instance \ {i} : tx'[j] = tx[j]
            /\ AbortedStep(i) \/ tx'[i] = effect
        BY <4>1, <4>3, StatementOutcome
      <4>5. tx'[i].from = tx[i].from
        BY <4>2, <4>4 DEF AbortedStep
      <4>6. QED
        BY <2>2, <2>4, <4>4, <4>5 DEF tables, Open
    <3>8. CASE DeleteRequests \/ DeleteTokens \/ DeleteTeams
      BY <2>2, <3>8 DEF DeleteRequests, DeleteTokens, DeleteTeams, Removed, Open
    <3>9. QED
      BY <2>1, <3>1, <3>2, <3>3, <3>4, <3>5, <3>6, <3>7, <3>8, StatsCases
  <2>6. CASE <2>5!1
    BY <2>1, <2>2, <2>3, <2>6 DEF RowsKept, AloneInv, OnceInv
  <2>7. ASSUME NEW i \in Instance, new(i)
        PROVE  AloneInv' /\ OnceInv'
    <3>1. /\ UNCHANGED <<now, requests, token_usage, team_usage, tx>>
          /\ \A j \in Instance : Open(j)' => Open(j)
          /\ cursor # Absent => cursor' = cursor
      BY <2>4, <2>7 DEF new, tables, Open
    <3>2. \A r \in DOMAIN requests : requests[r].at < cursor => requests[r].at < cursor'
      BY <3>1, RequestRows DEF AloneStatsInv, StatsInv, Absent
    <3>3. QED
      BY <2>1, <2>2, <3>1, <3>2 DEF AloneInv, OnceInv
  <2>8. ASSUME NEW i \in Instance, Commit(i)
        PROVE  AloneInv' /\ OnceInv'
    BY <2>1, <2>8, OnceCommit DEF AloneInv, OnceInv
  <2>9. QED
    BY <2>5, <2>6, <2>7, <2>8
<1>3. CASE HNext /\ overlapped'
  BY <1>3 DEF AloneInv, OnceInv
<1>4. QED
  BY <1>1, <1>2, <1>3

(* As long as no two instances aggregate at once, each request is counted  *)
(* at most once in each hourly table (`run_aggregation`), whatever crashes *)
(* and failures there are.                                                 *)
THEOREM StatsCountedOnce == HSpec => []CountedOnce
<1>1. HInit => AloneStatsInv
  <2>1. HInit => StatsInv
    BY TypeInit, AgreementInit DEF StatsInv
  <2>2. HInit => AloneInv /\ OnceInv
    BY DEF HInit, Init, AloneInv, OnceInv, Open
  <2>3. QED
    BY <2>1, <2>2 DEF AloneStatsInv
<1>2. AloneStatsInv /\ [HNext]_hvars => AloneStatsInv'
  BY TypeStep, AgreementStep, OnceStep DEF AloneStatsInv, StatsInv
<1>3. AloneStatsInv => CountedOnce
  BY DEF AloneStatsInv, OnceInv, CountedOnce
<1>4. QED
  BY <1>1, <1>2, <1>3, PTL DEF HSpec
=============================================================================
