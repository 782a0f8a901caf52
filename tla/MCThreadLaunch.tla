---------------------------- MODULE MCThreadLaunch ----------------------------
(* An instance of ThreadLaunch, by itself: one caller of either kind, which   *)
(* is cancelled at most three times, as in MCTasks.                           *)
EXTENDS ThreadLaunch, TLC

CONSTANTS s, t, l
=============================================================================
