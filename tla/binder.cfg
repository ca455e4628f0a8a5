CONSTANT Lives = 3
SPECIFICATION Spec
INVARIANTS TypeOK ProxyAliveOrObituary ObituaryIsCurrent KeyHeldOnlyInCall
PROPERTY RecoversFromRestart
CHECK_DEADLOCK FALSE
