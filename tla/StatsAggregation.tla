-------------------------- MODULE StatsAggregation --------------------------
(***************************************************************************)
(* The statistics in PostgreSQL (stats/pg.rs): a row per answered request, *)
(* the aggregation task of every instance, which adds the rows of          *)
(* completed hours to two hourly tables and moves a shared cursor, and the *)
(* cleanup task.  All instances share one database.                        *)
(*                                                                         *)
(* A row stands for the numbers in it: the hourly tables are given by how  *)
(* often each request is counted in them.  Time is in ticks, HourTicks of  *)
(* them to an hour.  A statement that fails aborts its transaction in      *)
(* PostgreSQL: what the code does next fails too, up to the COMMIT, which  *)
(* then rolls back.                                                        *)
(***************************************************************************)
EXTENDS Integers, Sequences

CONSTANTS
  Instance,      \* router instances that share the database
  Caller,        \* the pairs <<token hash, team>> that chat requests come with
  GenericCaller, \* the pairs proxy_generic records: its token hash is always ''
  HourTicks,     \* ticks in an hour
  Retention,     \* retention_days, in ticks
  MaxRequests,   \* bound: requests recorded
  MaxNow,        \* bound: the last tick
  MaxFaults      \* bound: failing statements and crashes

ASSUME StatsAssumption ==
  /\ HourTicks \in Nat \ {0}
  /\ Retention \in Nat \ {0}
  /\ MaxRequests \in Nat /\ MaxNow \in Nat /\ MaxFaults \in Nat

Absent == -1                \* no row in _aggregation_cursor
Request == 1..MaxRequests   \* ids of rows, in the order of their INSERTs

VARIABLES
  now,          \* the database's clock
  requests,     \* the rows, by id: [at, token, team, state]
  token_usage,  \* request |-> times counted in token_usage_hourly
  team_usage,   \* request |-> times counted in team_usage_hourly
  cursor,       \* last_ts of _aggregation_cursor, or Absent
  pc,           \* instance |-> where its aggregation is; "off": no pool
  tx,           \* instance |-> its open transaction
  faults        \* failures so far

vars == <<now, requests, token_usage, team_usage, cursor, pc, tx, faults>>
tables == <<requests, token_usage, team_usage>>

Trunc(t) == t - (t % HourTicks)   \* date_trunc('hour', t)

Stored == {r \in DOMAIN requests : requests[r].state = "stored"}
InRange(from, to) == {r \in Stored : from <= requests[r].at /\ requests[r].at < to}

\* The primary keys of the two hourly tables.
TokenKey(r) == <<Trunc(requests[r].at), requests[r].token>>
TeamKey(r) == <<Trunc(requests[r].at), requests[r].team>>

\* GROUP BY hour, token, team yields two rows with one key (hour, token):
\* "ON CONFLICT DO UPDATE command cannot affect row a second time".
Clash(rows) ==
  \E r, s \in rows : TokenKey(r) = TokenKey(s) /\ requests[r].team # requests[s].team

NoTransaction == [from |-> 0, to |-> 0, token |-> {}, team |-> {}, aborted |-> FALSE]

\* Mutant: an error does not abort the transaction, as when every statement
\* were issued on the pool.
Aborted_GoesOn(t) == t

\* An aborted transaction has lost its effects and its locks.
Aborted(t) == [t EXCEPT !.token = {}, !.team = {}, !.aborted = TRUE]

Init ==
  /\ now = HourTicks
  /\ requests = <<>>
  /\ token_usage = [r \in Request |-> 0]
  /\ team_usage = [r \in Request |-> 0]
  /\ cursor = Absent
  /\ pc = [i \in Instance |-> "off"]
  /\ tx = [i \in Instance |-> NoTransaction]
  /\ faults = 0

Tick == now < MaxNow /\ now' = now + 1 /\ UNCHANGED <<tables, cursor, pc, tx, faults>>

Fault == faults < MaxFaults /\ faults' = faults + 1

-----------------------------------------------------------------------------
(* StatsWriter::new.  The tables must be created, the cursor's row need    *)
(* not be (`.ok()`).  An instance whose tables cannot be created goes on   *)
(* without statistics, like one that is off.                               *)
new(i) ==
  /\ pc[i] = "off"
  /\ pc' = [pc EXCEPT ![i] = "idle"]
  /\ \/ /\ cursor' = IF cursor = Absent THEN now - HourTicks ELSE cursor
        /\ UNCHANGED faults
     \/ cursor = Absent /\ Fault /\ UNCHANGED cursor
  /\ UNCHANGED <<now, tables, tx>>

\* The process ends; the server rolls its transaction back.
Crash(i) ==
  /\ pc[i] # "off" /\ Fault
  /\ pc' = [pc EXCEPT ![i] = "off"]
  /\ tx' = [tx EXCEPT ![i] = NoTransaction]
  /\ UNCHANGED <<now, tables, cursor>>

\* The INSERT of an answered request starts: `timestamp` is NOW().
record_request(token, team) ==
  /\ Len(requests) < MaxRequests
  /\ \E i \in Instance : pc[i] # "off"
  /\ requests' = Append(requests,
       [at |-> now, token |-> token, team |-> team, state |-> "inserting"])
  /\ UNCHANGED <<now, token_usage, team_usage, cursor, pc, tx, faults>>

\* Its row becomes visible.  The error of an INSERT is dropped (`let _`): a
\* row that is never stored is a request that was not recorded.
RowStored(r) ==
  /\ r \in DOMAIN requests /\ requests[r].state = "inserting"
  /\ requests' = [requests EXCEPT ![r].state = "stored"]
  /\ UNCHANGED <<now, token_usage, team_usage, cursor, pc, tx, faults>>

-----------------------------------------------------------------------------
(* run_aggregation of one instance. *)

\* Mutant: the minutes of the range's end are not cut off.
ReadCursor_NotFloored(i) ==
  /\ pc[i] = "idle"
  /\ cursor # Absent /\ cursor < now
  /\ pc' = [pc EXCEPT ![i] = "tokens"]
  /\ tx' = [tx EXCEPT ![i] = [NoTransaction EXCEPT !.from = cursor, !.to = now]]
  /\ UNCHANGED <<now, tables, cursor, faults>>

\* Mutant: the last completed hour is left for later.
ReadCursor_HourBehind(i) ==
  /\ pc[i] = "idle"
  /\ cursor # Absent /\ cursor < Trunc(now) - HourTicks
  /\ pc' = [pc EXCEPT ![i] = "tokens"]
  /\ tx' = [tx EXCEPT ![i] = [NoTransaction EXCEPT !.from = cursor, !.to = Trunc(now)]]
  /\ UNCHANGED <<now, tables, cursor, faults>>

\* BEGIN, the cursor is read without a lock, and there is a completed hour.
\* A failure here, or no cursor, ends the run before it has done anything.
ReadCursor(i) ==
  /\ pc[i] = "idle"
  /\ cursor # Absent /\ cursor < Trunc(now)
  /\ pc' = [pc EXCEPT ![i] = "tokens"]
  /\ tx' = [tx EXCEPT ![i] = [NoTransaction EXCEPT !.from = cursor, !.to = Trunc(now)]]
  /\ UNCHANGED <<now, tables, cursor, faults>>

\* The statement that moves instance i from `this` to `next`.  The code logs
\* an error and issues the next statement whatever became of this one.
Statement(i, this, next, succeeds, effect) ==
  /\ pc[i] = this
  /\ pc' = [pc EXCEPT ![i] = next]
  /\ \/ tx[i].aborted /\ UNCHANGED <<tx, faults>>
     \/ /\ ~tx[i].aborted /\ succeeds
        /\ tx' = [tx EXCEPT ![i] = effect]
        /\ UNCHANGED faults
     \/ /\ ~tx[i].aborted
        /\ IF succeeds THEN Fault ELSE UNCHANGED faults
        /\ tx' = [tx EXCEPT ![i] = Aborted(@)]
  /\ UNCHANGED <<now, tables, cursor>>

Keys(Key(_), rows) == {Key(r) : r \in rows}

\* An upsert waits for every open transaction that has written one of its keys.
UpsertTokens(i) ==
  LET rows == InRange(tx[i].from, tx[i].to)
  IN  /\ \A j \in Instance \ {i} : Keys(TokenKey, tx[j].token) \cap Keys(TokenKey, rows) = {}
      /\ Statement(i, "tokens", "teams", ~Clash(rows), [tx[i] EXCEPT !.token = rows])

UpsertTeams(i) ==
  LET rows == InRange(tx[i].from, tx[i].to)
  IN  /\ \A j \in Instance \ {i} : Keys(TeamKey, tx[j].team) \cap Keys(TeamKey, rows) = {}
      /\ Statement(i, "teams", "commit", TRUE, [tx[i] EXCEPT !.team = rows])

Counted(usage, rows) == [r \in Request |-> usage[r] + IF r \in rows THEN 1 ELSE 0]

\* Mutant: the tables are written whatever becomes of the cursor.
Commit_CursorApart(i) ==
  /\ pc[i] = "commit"
  /\ pc' = [pc EXCEPT ![i] = "idle"]
  /\ tx' = [tx EXCEPT ![i] = NoTransaction]
  /\ token_usage' = Counted(token_usage, tx[i].token)
  /\ team_usage' = Counted(team_usage, tx[i].team)
  /\ \/ cursor' = tx[i].to /\ UNCHANGED faults
     \/ Fault /\ UNCHANGED cursor
  /\ UNCHANGED <<now, requests>>

\* Mutant: the teams' table is not written in the transaction.
Commit_TeamsApart(i) ==
  /\ pc[i] = "commit"
  /\ pc' = [pc EXCEPT ![i] = "idle"]
  /\ tx' = [tx EXCEPT ![i] = NoTransaction]
  /\ team_usage' = Counted(team_usage, tx[i].team)
  /\ \/ /\ ~tx[i].aborted
        /\ token_usage' = Counted(token_usage, tx[i].token)
        /\ cursor' = tx[i].to
        /\ UNCHANGED faults
     \/ /\ IF tx[i].aborted THEN UNCHANGED faults ELSE Fault
        /\ UNCHANGED <<token_usage, cursor>>
  /\ UNCHANGED <<now, requests>>

\* UPDATE _aggregation_cursor and COMMIT: nobody sees one without the other.
Commit(i) ==
  /\ pc[i] = "commit"
  /\ pc' = [pc EXCEPT ![i] = "idle"]
  /\ tx' = [tx EXCEPT ![i] = NoTransaction]
  /\ \/ /\ ~tx[i].aborted
        /\ token_usage' = Counted(token_usage, tx[i].token)
        /\ team_usage' = Counted(team_usage, tx[i].team)
        /\ cursor' = tx[i].to
        /\ UNCHANGED faults
     \/ /\ IF tx[i].aborted THEN UNCHANGED faults ELSE Fault
        /\ UNCHANGED <<token_usage, team_usage, cursor>>
  /\ UNCHANGED <<now, requests>>

run_aggregation(i) ==
  ReadCursor(i) \/ UpsertTokens(i) \/ UpsertTeams(i) \/ Commit(i)

-----------------------------------------------------------------------------
(* run_cleanup: three DELETEs, one after the other, each a transaction of  *)
(* its own.  One that fails has no effect and the next is issued all the   *)
(* same, so that over several runs they take effect in any order.          *)
ExpiredHour(r) == Trunc(requests[r].at) < Trunc(now) - Retention
Removed(usage) ==
  [r \in Request |-> IF r \in DOMAIN requests /\ ExpiredHour(r) THEN 0 ELSE usage[r]]

\* A DELETE waits for a transaction that has updated a row it deletes.
Unlocked(Key(_), usage, written) ==
  \A j \in Instance : \A r \in written[j] :
    ExpiredHour(r) => \A s \in DOMAIN requests : Key(s) = Key(r) => usage[s] = 0

DeleteRequests ==
  /\ requests' = [r \in DOMAIN requests |->
       IF r \in Stored /\ requests[r].at < now - Retention
       THEN [requests[r] EXCEPT !.state = "deleted"] ELSE requests[r]]
  /\ UNCHANGED <<now, token_usage, team_usage, cursor, pc, tx, faults>>

DeleteTokens ==
  /\ Unlocked(TokenKey, token_usage, [j \in Instance |-> tx[j].token])
  /\ token_usage' = Removed(token_usage)
  /\ UNCHANGED <<now, requests, team_usage, cursor, pc, tx, faults>>

DeleteTeams ==
  /\ Unlocked(TeamKey, team_usage, [j \in Instance |-> tx[j].team])
  /\ team_usage' = Removed(team_usage)
  /\ UNCHANGED <<now, requests, token_usage, cursor, pc, tx, faults>>

run_cleanup ==
  /\ \E i \in Instance : pc[i] # "off"
  /\ DeleteRequests \/ DeleteTokens \/ DeleteTeams

Next ==
  \/ Tick
  \/ \E c \in Caller \cup GenericCaller : record_request(c[1], c[2])
  \/ \E r \in Request : RowStored(r)
  \/ \E i \in Instance : new(i) \/ Crash(i) \/ run_aggregation(i)
  \/ run_cleanup

Spec == Init /\ [][Next]_vars
=============================================================================
