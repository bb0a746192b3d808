---------------------------- MODULE MC_AgentRun -----------------------------
(* AgentRun with the constants of MC_AgentRun*.cfg.                        *)
EXTENDS AgentRun
=============================================================================
