SPECIFICATION Spec
CONSTANT MaxLines = 3
INVARIANT TypeOK
INVARIANT NothingLeftBehind
PROPERTY RelayImplemented
INVARIANT AccountedAsSent
PROPERTY DisconnectNoticed
CHECK_DEADLOCK FALSE
