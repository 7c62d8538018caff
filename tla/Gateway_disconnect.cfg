SPECIFICATION GatewaySpec
CONSTANTS
    r1 = r1
    r2 = r2
    m1 = m1
    m2 = m2
    Null = Null
    Requests <- MCRequests
    Bodies <- MCBodies
    AllowedModels <- MCModels
    Responses <- MCResponses
    MaxInputTokens = 10
    MaxOutputTokens = 4
    MaxTotalTokens = 13
    ChunkText = 5
    MaxChunks = 1
    Faults = {"disconnect", "cancel"}
    GatewayFaults = {"sentry", "shutdown"}
INVARIANT DisconnectsAreNoted
CHECK_DEADLOCK FALSE
