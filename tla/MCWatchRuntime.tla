---------------------------- MODULE MCWatchRuntime -----------------------------
(***************************************************************************)
(* The instance of WatchRuntime for TLC. A unit of time stands for 200 ms, *)
(* so that the intervals have the proportions of WatchIntervals::default,  *)
(* and a load may take longer than the maximum delay.                      *)
(***************************************************************************)
EXTENDS WatchRuntime
=============================================================================
