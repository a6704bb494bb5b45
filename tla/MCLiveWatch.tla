---------------------------- MODULE MCLiveWatch ----------------------------
(* Three services of the six, in the order of g_live_svc; two hung ones use  *)
(* up the budget of a round as three of 200 ms do the 500 ms of the code.    *)
EXTENDS LiveWatch
CONSTANTS mem, think, llm
MCTable == <<mem, think, llm>>
=============================================================================
