--------------------------- MODULE MCOrchestrator ---------------------------
EXTENDS Orchestrator
=============================================================================
