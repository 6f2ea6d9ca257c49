SPECIFICATION Spec
CONSTANTS
    InitD <- MCInitD
    Nil = Nil
INVARIANT RestartUpdatesRestartedService
CHECK_DEADLOCK FALSE
