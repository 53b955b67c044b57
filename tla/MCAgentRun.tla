----------------------------- MODULE MCAgentRun -----------------------------
EXTENDS AgentRun
MCNeeds == {{}, {"approval", "commit"}, {"risky"}, {"question"}}
MCFewNeeds == {{}, {"question"}}
=============================================================================
