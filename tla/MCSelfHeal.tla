----------------------------- MODULE MCSelfHeal -----------------------------
(* Two daemons: one that may hang in front of the other in the table.        *)
EXTENDS SelfHeal
CONSTANTS mem, llm
MCTable == <<mem, llm>>
=============================================================================
