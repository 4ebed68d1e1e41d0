SPECIFICATION Spec
CONSTANTS
    Daemons <- MCDaemons
    Handled = {"UPDATE"}
    MaxConns = 2
    MaxSent = 1
    MaxResets = 1
INVARIANTS TypeOK EntryHasReader SoleConnectionRegistered
PROPERTY EndsClose
CHECK_DEADLOCK FALSE
