---------------------------- MODULE StatsHistory ----------------------------
(***************************************************************************)
(* StatsAggregation with what its promises speak of: the requests that the *)
(* aggregation had no chance to see, and whether two instances aggregated  *)
(* at the same time.  The history never influences a step.                 *)
(***************************************************************************)
EXTENDS StatsAggregation

VARIABLES
  missed,      \* requests no aggregation is to be blamed for
  overlapped   \* two transactions were open at once

hvars == <<vars, missed, overlapped>>

Open(i) == pc[i] \notin {"off", "idle"}

Row == [at : Nat, token : {c[1] : c \in Caller \cup GenericCaller},
        team : {c[2] : c \in Caller \cup GenericCaller},
        state : {"inserting", "stored", "deleted"}]

Transaction == [from : Nat, to : Nat, token : SUBSET Request, team : SUBSET Request,
                aborted : BOOLEAN]

\* Transactions end at a full hour, and exist only while a run is under way.
HTypeOK ==
  /\ now \in Nat /\ now >= HourTicks
  /\ faults \in 0..MaxFaults
  /\ requests \in Seq(Row) /\ Len(requests) <= MaxRequests
  /\ token_usage \in [Request -> Nat] /\ team_usage \in [Request -> Nat]
  /\ cursor \in {Absent} \cup Nat
  /\ pc \in [Instance -> {"off", "idle", "tokens", "teams", "commit"}]
  /\ tx \in [Instance -> Transaction]
  /\ \A i \in Instance : tx[i].to % HourTicks = 0 /\ (~Open(i) => tx[i] = NoTransaction)
  /\ missed \subseteq Request
  /\ overlapped \in BOOLEAN

HInit == Init /\ missed = {} /\ overlapped = FALSE

\* A row that becomes visible after its hour was, or is being, aggregated.
Late ==
  {r \in DOMAIN requests :
     /\ requests[r].state = "inserting" /\ requests'[r].state = "stored"
     /\ \/ requests[r].at < cursor
        \/ \E i \in Instance : Open(i) /\ requests[r].at < tx[i].to}

\* A row that is deleted before its hour was aggregated for good.
Dropped ==
  {r \in DOMAIN requests :
     /\ requests[r].state = "stored" /\ requests'[r].state = "deleted"
     /\ \/ cursor <= requests[r].at
        \/ \E i \in Instance : Open(i) /\ tx[i].from <= requests[r].at}

\* A row that is older than the cursor when that is first written.
BeforeCursor ==
  {r \in DOMAIN requests : cursor = Absent /\ requests[r].at < cursor'}

Remember ==
  /\ missed' = missed \cup Late \cup Dropped \cup BeforeCursor
  /\ overlapped' = (overlapped \/ \E i, j \in Instance : i # j /\ Open(i)' /\ Open(j)')

HNext == Next /\ Remember
HSpec == HInit /\ [][HNext]_hvars

(* The aggregation task is a loop with a timer that nothing stops while    *)
(* the process lives.                                                      *)
HFairSpec == HSpec /\ \A i \in Instance : WF_hvars(run_aggregation(i) /\ Remember)

-----------------------------------------------------------------------------
(* README "no double-counting", as far as it goes: as long as no two       *)
(* instances have aggregated at the same time, no crash, failing           *)
(* statement, cleanup or late row makes a request be counted twice.        *)
CountedOnce ==
  ~overlapped => \A r \in Request : token_usage[r] <= 1 /\ team_usage[r] <= 1

(* The cursor does not run past what was counted: a request whose hour the *)
(* cursor has passed is in both hourly tables for as long as these keep    *)
(* the hour, whichever statements failed in between and however many       *)
(* instances aggregated at once, unless its row was not there to be read.  *)
PassedIsCounted ==
  \A r \in DOMAIN requests \ missed :
    requests[r].state # "inserting" /\ requests[r].at < cursor /\ ~ExpiredHour(r) =>
      token_usage[r] >= 1 /\ team_usage[r] >= 1

(* The two tables never disagree about a request, even where instances     *)
(* count it twice: a run adds to both of them or to neither.               *)
TablesAgree ==
  \A r \in DOMAIN requests \ missed :
    ~ExpiredHour(r) => token_usage[r] = team_usage[r]

\* The completed hours from the cursor on hold a token hash of two teams.
Poisoned == Clash({r \in Stored : cursor <= requests[r].at /\ requests[r].at < Trunc(now)})

\* Somebody could aggregate.
Served == cursor # Absent /\ \E i \in Instance : pc[i] # "off"

(* Every stored row of a completed hour is aggregated in the end, whatever *)
(* fails on the way, if an instance stays connected, the cursor's row      *)
(* exists, and no completed hour keeps holding one token hash with two     *)
(* teams.                                                                  *)
HoursAreAggregated ==
  []<>(Served /\ ~Poisoned) =>
    \A r \in Request :
      (r \in Stored /\ requests[r].at < Trunc(now)) ~> (r \notin Stored \/ requests[r].at < cursor)

(* README.md:393, of the cursor: "crash-safe, no double-counting".         *)
NoDoubleCounting == \A r \in Request : token_usage[r] <= 1
=============================================================================
