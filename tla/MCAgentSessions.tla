-------------------------- MODULE MCAgentSessions --------------------------
(* Small instances of AgentSessions for TLC.                               *)
EXTENDS AgentSessions

CONSTANTS s1, s2, o1, k1

\* Either the calls fail that the catch makes good, or those it cannot.
MadeGood == {"fetch", "reject", "start"}
NotMadeGood ==
  {"start", "give_up", "finish", "cancel", "p_create", "p_start", "p_write", "process"}
EitherMode == {MadeGood, NotMadeGood}
NothingFails == {{}}
=============================================================================
