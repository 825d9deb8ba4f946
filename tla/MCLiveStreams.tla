--------------------------- MODULE MCLiveStreams ---------------------------
(***************************************************************************)
(* One stream id for TLC.  With the GOP cache two handlers may overlap and *)
(* one client joins; without it, two clients share one handler's stream,   *)
(* and one waits for a keyframe of H265.                                   *)
(* The capacities are small enough for a channel and the GOP cache to be   *)
(* full within the few packets put.                                        *)
(***************************************************************************)
EXTENDS LiveStreams

CONSTANTS h1, h2, c1, c2

MCSettings ==
  {[gopCache |-> TRUE, hevc |-> FALSE, handlers |-> {h1, h2}, clients |-> {c1}],
   [gopCache |-> FALSE, hevc |-> FALSE, handlers |-> {h1}, clients |-> {c1, c2}],
   [gopCache |-> FALSE, hevc |-> TRUE, handlers |-> {h1}, clients |-> {c1}]}
=============================================================================
