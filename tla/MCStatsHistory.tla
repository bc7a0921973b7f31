--------------------------- MODULE MCStatsHistory ---------------------------
(* Two teams that both use the generic proxy, which records the token hash *)
(* '', and a token of the first.                                           *)
EXTENDS StatsHistory
MCCaller == {<<"ka", "a">>}
MCGenericCaller == {<<"", "a">>, <<"", "b">>}
=============================================================================
