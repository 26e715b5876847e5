----------------------------- MODULE MCAgentLease -----------------------------
EXTENDS AgentLease
CONSTANTS g1, g2
=============================================================================
