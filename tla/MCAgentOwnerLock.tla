-------------------------- MODULE MCAgentOwnerLock --------------------------
EXTENDS AgentOwnerLock
=============================================================================
