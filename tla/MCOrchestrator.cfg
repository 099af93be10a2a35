SPECIFICATION Spec
CONSTANTS
    N = 4
    LogDecisions = TRUE
INVARIANT TypeOK
INVARIANT OrchestratorInv
INVARIANT LogExplainsWire
PROPERTY HonoursContract
CHECK_DEADLOCK FALSE
